------------------------ MODULE PairRegistry_proofs -------------------------
(***************************************************************************)
(* The operations of the pair registry keep a book well typed and its      *)
(* groups sound, whatever positions the input has; and they keep its       *)
(* counts, lists and groups exact: those of the edges that are registered  *)
(* in it.                                                                  *)
(***************************************************************************)
EXTENDS PairRegistry, CountingLemmas

\* A book over the positions P.
BookOK(b, P) == BookTypeOK(b, P) /\ GroupsSound(b)

\* The two pairs differ in nothing but their lists.
SamePair(p, q) ==
    /\ q.key = p.key
    /\ q.count = p.count
    /\ q.word_count = p.word_count
    /\ q.last_word = p.last_word
    /\ q.last_group = p.last_group

\* The two books differ in nothing but the links of the pairs' lists.
SameButLists(b, c) ==
    /\ c.edge_group = b.edge_group
    /\ c.group_state = b.group_state
    /\ c.group_count = b.group_count
    /\ c.free_head = b.free_head
    /\ c.left_cache = b.left_cache
    /\ c.right_cache = b.right_cache
    /\ c.same_cache = b.same_cache
    /\ c.born = b.born
    /\ c.aborted = b.aborted
    /\ DOMAIN c.pairs = DOMAIN b.pairs
    /\ \A s \in DOMAIN b.pairs : SamePair(b.pairs[s], c.pairs[s])

\* The two books have the same stamps and the same newborn pairs.
SameStamps(b, c) ==
    /\ c.left_cache = b.left_cache /\ c.right_cache = b.right_cache
    /\ c.same_cache = b.same_cache /\ c.born = b.born

LEMMA SameButListsSound ==
    ASSUME NEW b, NEW c, GroupsSound(b), SameButLists(b, c)
    PROVE  GroupsSound(c)
<1>1. \A g : Members(c, g) = Members(b, g)
  BY DEF Members, SameButLists
<1>2. Used(c) = Used(b)
  BY <1>1 DEF Used, SameButLists
<1>3. Unused(c) = Unused(b)
  BY <1>2 DEF Unused, SameButLists
<1>4. IdsInRange(c)
  BY DEF GroupsSound, IdsInRange, SameButLists
<1>5. UsedCounted(c)
  BY <1>1, <1>2 DEF GroupsSound, UsedCounted, SameButLists
<1>6. FreeListSound(c)
  BY <1>3 DEF GroupsSound, FreeListSound, SameButLists
<1>7. CacheSound(c)
  BY <1>2 DEF GroupsSound, CacheSound, SameButLists, SamePair
<1>8. QED
  BY <1>4, <1>5, <1>6, <1>7 DEF GroupsSound

-----------------------------------------------------------------------------
(* Lists.                                                                  *)

LEMMA PairUpdate ==
    ASSUME NEW P, NEW b, BookTypeOK(b, P), NEW s \in DOMAIN b.pairs
    PROVE  /\ b.pairs[s] \in Pair(P)
           /\ \A q \in Pair(P) : [b.pairs EXCEPT ![s] = q] \in Seq(Pair(P))
<1>1. b.pairs \in Seq(Pair(P))
  BY DEF BookTypeOK
<1>2. QED
  BY <1>1

LEMMA SeqUpdate ==
    ASSUME NEW S, NEW seq \in Seq(S), NEW i \in DOMAIN seq, NEW x \in S
    PROVE  [seq EXCEPT ![i] = x] \in Seq(S)
OBVIOUS

LEMMA AppendReplaced ==
    ASSUME NEW S, NEW seq \in Seq(S), NEW x \in S, NEW y \in S
    PROVE  [Append(seq, x) EXCEPT ![Len(seq) + 1] = y] = Append(seq, y)
<1> DEFINE a == [Append(seq, x) EXCEPT ![Len(seq) + 1] = y]
           c == Append(seq, y)
<1>1. /\ a \in Seq(S) /\ c \in Seq(S)
      /\ Len(a) = Len(seq) + 1 /\ Len(c) = Len(seq) + 1
  OBVIOUS
<1>2. \A i \in 1..(Len(seq) + 1) : a[i] = c[i]
  <2> TAKE i \in 1..(Len(seq) + 1)
  <2>1. /\ Append(seq, x) \in Seq(S) /\ i \in DOMAIN Append(seq, x)
        /\ Len(seq) + 1 \in DOMAIN Append(seq, x)
    OBVIOUS
  <2>2. a[i] = IF i = Len(seq) + 1 THEN y ELSE Append(seq, x)[i]
    BY <2>1
  <2>3. i # Len(seq) + 1 => Append(seq, x)[i] = seq[i] /\ c[i] = seq[i]
    OBVIOUS
  <2>4. c[Len(seq) + 1] = y
    OBVIOUS
  <2> HIDE DEF a, c
  <2>5. QED
    BY <2>2, <2>3, <2>4
<1> HIDE DEF a, c
<1>3. a = c
  BY <1>1, <1>2
<1>4. QED
  BY <1>3 DEF a, c

\* The updates of single fields of a pair that the operations make.
LEMMA PairCount ==
    ASSUME NEW P, NEW q \in Pair(P), NEW n \in Nat
    PROVE  LET r == [q EXCEPT !.count = n]
           IN  /\ r \in Pair(P)
               /\ r.key = q.key /\ r.count = n /\ r.word_count = q.word_count
               /\ r.last_word = q.last_word /\ r.last_group = q.last_group
BY DEF Pair

LEMMA PairGroupLost ==
    ASSUME NEW P, NEW q \in Pair(P), q.word_count # 0, NEW g
    PROVE  /\ WithoutGroup(q, g) \in Pair(P)
           /\ WithoutGroup(q, g).key = q.key /\ WithoutGroup(q, g).count = q.count
           /\ WithoutGroup(q, g).last_word = IF q.last_group = g THEN no_position ELSE q.last_word
           /\ WithoutGroup(q, g).last_group = IF q.last_group = g THEN no_position ELSE q.last_group
<1>1. q.word_count - 1 \in Nat
  BY DEF Pair
<1>2. QED
  BY <1>1 DEF Pair, WithoutGroup

LEMMA LinkAppend ==
    ASSUME NEW P, NEW b, BookTypeOK(b, P), NEW s \in DOMAIN b.pairs, NEW p \in P
    PROVE  BookTypeOK(link_append(b, s, p), P) /\ SameButLists(b, link_append(b, s, p))
<1> DEFINE tail == b.pairs[s].positions_tail
           np == [b.pos_prev EXCEPT ![p] = tail]
           nn == IF tail = no_position
                 THEN [b.pos_next EXCEPT ![p] = no_position]
                 ELSE [b.pos_next EXCEPT ![p] = no_position, ![tail] = p]
           q  == WithTail(b.pairs[s], p)
           pr == [b.pairs EXCEPT ![s] = q]
<1>1. b.pairs[s] \in Pair(P)
  BY PairUpdate
<1>2. tail \in P \cup {no_position} /\ q \in Pair(P)
  BY <1>1 DEF Pair, WithTail
<1>3. pr \in Seq(Pair(P))
  BY <1>2, PairUpdate
<1>4. np \in [P -> P \cup {no_position}] /\ nn \in [P -> P \cup {no_position}]
  BY <1>2 DEF BookTypeOK
<1>5. link_append(b, s, p) = [b EXCEPT !.pos_prev = np, !.pos_next = nn, !.pairs = pr]
  BY DEF link_append
<1>6. SamePair(b.pairs[s], q)
  BY <1>1 DEF SamePair, Pair, WithTail
<1> HIDE DEF np, nn, q
<1>7. BookTypeOK([b EXCEPT !.pos_prev = np, !.pos_next = nn, !.pairs = pr], P)
  <2> HIDE DEF pr
  <2> QED BY <1>3, <1>4 DEF BookTypeOK
<1>8. SameButLists(b, [b EXCEPT !.pos_prev = np, !.pos_next = nn, !.pairs = pr])
  <2>1. DOMAIN pr = DOMAIN b.pairs
    OBVIOUS
  <2>2. \A k \in DOMAIN b.pairs : SamePair(b.pairs[k], pr[k])
    <3>1. b.pairs \in Seq(Pair(P))
      BY DEF BookTypeOK
    <3>2. \A k \in DOMAIN b.pairs : pr[k] = IF k = s THEN q ELSE b.pairs[k]
      BY <3>1
    <3>3. QED
      BY <3>2, <1>6 DEF SamePair
  <2> HIDE DEF pr
  <2>3. QED
    BY <2>1, <2>2 DEF BookTypeOK, SameButLists
<1>9. QED
  BY <1>5, <1>7, <1>8

LEMMA LinkRemove ==
    ASSUME NEW P, NEW b, BookTypeOK(b, P), NEW s \in DOMAIN b.pairs, NEW p \in P
    PROVE  BookTypeOK(link_remove(b, s, p), P) /\ SameButLists(b, link_remove(b, s, p))
<1> DEFINE prev == b.pos_prev[p]
           succ == b.pos_next[p]
           nn == IF prev = no_position THEN b.pos_next ELSE [b.pos_next EXCEPT ![prev] = succ]
           np == IF succ = no_position THEN b.pos_prev ELSE [b.pos_prev EXCEPT ![succ] = prev]
           q  == WithoutMember(b.pairs[s], prev, succ)
           pr == [b.pairs EXCEPT ![s] = q]
<1>1. b.pairs[s] \in Pair(P)
  BY PairUpdate
<1>2. prev \in P \cup {no_position} /\ succ \in P \cup {no_position}
  BY DEF BookTypeOK
<1>3. q \in Pair(P)
  BY <1>1, <1>2 DEF Pair, WithoutMember
<1>4. pr \in Seq(Pair(P))
  BY <1>3, PairUpdate
<1>5. np \in [P -> P \cup {no_position}] /\ nn \in [P -> P \cup {no_position}]
  BY <1>2 DEF BookTypeOK
<1>6. link_remove(b, s, p) = [b EXCEPT !.pos_next = nn, !.pos_prev = np, !.pairs = pr]
  BY DEF link_remove
<1>7. SamePair(b.pairs[s], q)
  BY <1>1 DEF SamePair, Pair, WithoutMember
<1> HIDE DEF np, nn, q
<1>8. BookTypeOK([b EXCEPT !.pos_next = nn, !.pos_prev = np, !.pairs = pr], P)
  <2> HIDE DEF pr
  <2> QED BY <1>4, <1>5 DEF BookTypeOK
<1>9. SameButLists(b, [b EXCEPT !.pos_next = nn, !.pos_prev = np, !.pairs = pr])
  <2>1. DOMAIN pr = DOMAIN b.pairs
    OBVIOUS
  <2>2. \A k \in DOMAIN b.pairs : SamePair(b.pairs[k], pr[k])
    <3>1. b.pairs \in Seq(Pair(P))
      BY DEF BookTypeOK
    <3>2. \A k \in DOMAIN b.pairs : pr[k] = IF k = s THEN q ELSE b.pairs[k]
      BY <3>1
    <3>3. QED
      BY <3>2, <1>7 DEF SamePair
  <2> HIDE DEF pr
  <2>3. QED
    BY <2>1, <2>2 DEF BookTypeOK, SameButLists
<1>10. QED
  BY <1>6, <1>8, <1>9

-----------------------------------------------------------------------------
(* remove_edge.                                                            *)

\* The book c is the book b without the edge at start: the edge's group has lost a
\* member, and if that was its last, it heads the free list and its pair has
\* forgotten it.
EdgeRemoved(b, c, start) ==
    LET g    == b.edge_group[start]
        last == b.group_count[g] = 1
    IN  /\ g \in DOMAIN b.group_count
        /\ c.edge_group = [b.edge_group EXCEPT ![start] = no_position]
        /\ c.group_state = b.group_state
        /\ c.group_count = [b.group_count EXCEPT ![g] = IF last THEN b.free_head ELSE @ - 1]
        /\ c.free_head = IF last THEN g ELSE b.free_head
        /\ c.left_cache = b.left_cache /\ c.right_cache = b.right_cache
        /\ c.same_cache = b.same_cache /\ c.born = b.born
        /\ c.aborted = b.aborted
        /\ DOMAIN c.pairs = DOMAIN b.pairs
        /\ \A k \in DOMAIN b.pairs :
              /\ c.pairs[k].key = b.pairs[k].key
              /\ c.pairs[k].count <= b.pairs[k].count
              /\ IF last /\ k = b.group_state[g] /\ b.pairs[k].last_group = g
                 THEN c.pairs[k].last_word = no_position
                 ELSE /\ c.pairs[k].last_word = b.pairs[k].last_word
                      /\ c.pairs[k].last_group = b.pairs[k].last_group

LEMMA RemoveFields ==
    ASSUME NEW P, IsFiniteSet(P), NEW b, BookOK(b, P), NEW start \in P, NEW f \in Nat,
           ~RemoveAborts(b, start, f)
    PROVE  /\ BookTypeOK(remove_edge(b, start, f), P)
           /\ EdgeRemoved(b, remove_edge(b, start, f), start)
<1> DEFINE c    == remove_edge(b, start, f)
           g    == b.edge_group[start]
           s    == b.group_state[g]
           last == b.group_count[g] = 1
           q    == [b.pairs[s] EXCEPT !.count = @ - f]
           pr   == [b.pairs EXCEPT ![s] = q]
           gc   == [b.group_count EXCEPT ![g] = @ - 1]
           eg   == [b.edge_group EXCEPT ![start] = no_position]
           b1   == [b EXCEPT !.pairs = pr, !.group_count = gc, !.edge_group = eg]
           u    == link_remove(b1, s, start)
<1>1. g \in DOMAIN b.group_count /\ s \in DOMAIN b.pairs /\ g \in Nat /\ DOMAIN b.edge_group = P
  BY DEF RemoveAborts, BookOK, BookTypeOK, GroupsSound, IdsInRange
<1>2. b.pairs[s] \in Pair(P)
  BY <1>1, PairUpdate DEF BookOK
<1>3. /\ b.pairs[s].count \in Nat /\ b.pairs[s].count >= f
      /\ b.group_count[g] # 0
      /\ last => b.pairs[s].word_count # 0
  BY <1>2 DEF RemoveAborts, Pair
<1>4. /\ q \in Pair(P)
      /\ q.key = b.pairs[s].key /\ q.word_count = b.pairs[s].word_count
      /\ q.count <= b.pairs[s].count
      /\ q.last_word = b.pairs[s].last_word /\ q.last_group = b.pairs[s].last_group
  <2>1. b.pairs[s].count - f \in Nat /\ b.pairs[s].count - f <= b.pairs[s].count
    BY <1>3
  <2>2. /\ q \in Pair(P)
        /\ q.key = b.pairs[s].key /\ q.word_count = b.pairs[s].word_count
        /\ q.last_word = b.pairs[s].last_word /\ q.last_group = b.pairs[s].last_group
    BY <1>2, <2>1, PairCount
  <2>3. q.count = b.pairs[s].count - f
    BY <1>2, <2>1, PairCount
  <2> HIDE DEF q
  <2>4. QED
    BY <2>1, <2>2, <2>3
<1>5. pr \in Seq(Pair(P)) /\ DOMAIN pr = DOMAIN b.pairs
  BY <1>1, <1>4, PairUpdate DEF BookOK
<1>6. b.group_count[g] \in Nat \ {0}
  <2>1. g \in Used(b)
    BY <1>1 DEF Used, Members
  <2>2. IsFiniteSet(Members(b, g))
    BY <1>1, FS_Subset DEF Members
  <2>3. QED
    BY <1>3, <2>1, <2>2, FS_CardinalityType DEF BookOK, GroupsSound, UsedCounted
<1>7. gc \in Seq(Nat \cup {no_position}) /\ eg \in [P -> Nat \cup {no_position}]
  <2>1. b.group_count \in Seq(Nat \cup {no_position}) /\ b.edge_group \in [P -> Nat \cup {no_position}]
    BY DEF BookOK, BookTypeOK
  <2>2. b.group_count[g] - 1 \in Nat
    BY <1>6
  <2>3. gc \in Seq(Nat \cup {no_position})
    BY <1>1, <2>1, <2>2, SeqUpdate
  <2>4. QED
    BY <2>1, <2>3
<1>8. SameButLists(b1, u) /\ BookTypeOK(u, P)
  <2> HIDE DEF pr, gc, eg
  <2>1. BookTypeOK(b1, P)
    BY <1>5, <1>7 DEF BookOK, BookTypeOK
  <2>2. b1.pairs = pr
    BY DEF BookOK, BookTypeOK
  <2>3. QED
    BY <1>1, <1>5, <2>1, <2>2, LinkRemove
<1>9. /\ u.edge_group = eg /\ u.group_count = gc
      /\ u.group_state = b.group_state /\ u.free_head = b.free_head
      /\ u.left_cache = b.left_cache /\ u.right_cache = b.right_cache
      /\ u.same_cache = b.same_cache /\ u.born = b.born /\ u.aborted = b.aborted
      /\ DOMAIN u.pairs = DOMAIN pr
      /\ \A k \in DOMAIN pr : SamePair(pr[k], u.pairs[k])
  <2> HIDE DEF pr, gc, eg
  <2> QED BY <1>8 DEF BookOK, BookTypeOK, SameButLists
<1>10. \A k \in DOMAIN b.pairs :
          /\ pr[k].key = b.pairs[k].key /\ pr[k].word_count = b.pairs[k].word_count
          /\ pr[k].count <= b.pairs[k].count
          /\ pr[k].last_word = b.pairs[k].last_word
          /\ pr[k].last_group = b.pairs[k].last_group
  <2>1. \A k \in DOMAIN b.pairs : pr[k] = IF k = s THEN q ELSE b.pairs[k]
    BY <1>1
  <2>2. \A k \in DOMAIN b.pairs : b.pairs[k].count \in Nat
    BY PairUpdate DEF BookOK, Pair
  <2> HIDE DEF pr, q
  <2>3. QED
    BY <1>4, <2>1, <2>2
<1>11. \A k \in DOMAIN b.pairs :
          /\ u.pairs[k].key = b.pairs[k].key /\ u.pairs[k].word_count = b.pairs[k].word_count
          /\ u.pairs[k].count <= b.pairs[k].count
          /\ u.pairs[k].last_word = b.pairs[k].last_word
          /\ u.pairs[k].last_group = b.pairs[k].last_group
  <2> TAKE k \in DOMAIN b.pairs
  <2>1. SamePair(pr[k], u.pairs[k])
    BY <1>5, <1>9
  <2> HIDE DEF pr, u
  <2>2. QED BY <1>10, <2>1 DEF SamePair
<1>12. c = IF last THEN FreeGroup(u, g) ELSE u
  BY DEF remove_edge, Unlinked
<1>13. CASE last
  <2> DEFINE r  == WithoutGroup(u.pairs[s], g)
             fp == [u.pairs EXCEPT ![s] = r]
             fc == [u.group_count EXCEPT ![g] = b.free_head]
  <2>1. u.pairs[s] \in Pair(P) /\ u.pairs[s].word_count \in Nat \ {0}
    <3>1. s \in DOMAIN u.pairs
      BY <1>1, <1>5, <1>9
    <3>2. u.pairs[s] \in Pair(P)
      BY <1>8, <3>1, PairUpdate
    <3>3. u.pairs[s].word_count = b.pairs[s].word_count
      BY <1>1, <1>11
    <3>4. u.pairs[s].word_count \in Nat
      BY <3>2 DEF Pair
    <3>5. QED
      BY <1>3, <1>13, <3>2, <3>3, <3>4
  <2>2. r \in Pair(P)
    BY <1>1, <2>1, PairGroupLost
  <2>3. fp \in Seq(Pair(P))
    BY <1>1, <1>5, <1>8, <1>9, <2>2, PairUpdate
  <2>4. fc \in Seq(Nat \cup {no_position})
    <3>1. b.free_head \in Nat \cup {no_position} /\ u.group_count \in Seq(Nat \cup {no_position})
      BY <1>8 DEF BookOK, BookTypeOK
    <3>2. QED
      BY <1>1, <1>9, <3>1, SeqUpdate
  <2>5. c = [u EXCEPT !.pairs = fp, !.group_count = fc, !.free_head = g]
    <3>1. c = FreeGroup(u, g)
      BY <1>12, <1>13
    <3>2. u.group_state[g] = s /\ u.free_head = b.free_head
      BY <1>9
    <3> HIDE DEF c, u, g, s
    <3>3. QED
      BY <3>1, <3>2 DEF FreeGroup
  <2>6. BookTypeOK(c, P)
    <3> HIDE DEF fp, fc, c
    <3> QED BY <1>1, <1>8, <2>3, <2>4, <2>5 DEF BookTypeOK
  <2>7. /\ c.pairs = fp /\ c.group_count = fc /\ c.free_head = g
        /\ c.edge_group = u.edge_group /\ c.group_state = u.group_state
        /\ c.left_cache = u.left_cache /\ c.right_cache = u.right_cache
        /\ c.same_cache = u.same_cache /\ c.born = u.born /\ c.aborted = u.aborted
    <3> HIDE DEF fp, fc, c
    <3> QED BY <1>8, <2>5 DEF BookTypeOK
  <2>8. fc = [b.group_count EXCEPT ![g] = b.free_head]
    BY <1>1, <1>9
  <2>9. \A k \in DOMAIN b.pairs :
          /\ fp[k].key = b.pairs[k].key /\ fp[k].count <= b.pairs[k].count
          /\ IF k = s /\ b.pairs[k].last_group = g
             THEN fp[k].last_word = no_position
             ELSE /\ fp[k].last_word = b.pairs[k].last_word
                  /\ fp[k].last_group = b.pairs[k].last_group
    <3>1. \A k \in DOMAIN b.pairs : fp[k] = IF k = s THEN r ELSE u.pairs[k]
      BY <1>5, <1>9
    <3>2. /\ r.key = u.pairs[s].key /\ r.count = u.pairs[s].count
          /\ r.last_word = IF u.pairs[s].last_group = g THEN no_position ELSE u.pairs[s].last_word
          /\ r.last_group = IF u.pairs[s].last_group = g THEN no_position ELSE u.pairs[s].last_group
      <4> DEFINE up == u.pairs[s]
      <4>1. up \in Pair(P) /\ up.word_count # 0
        BY <2>1
      <4> HIDE DEF up, g
      <4>2. /\ WithoutGroup(up, g).key = up.key /\ WithoutGroup(up, g).count = up.count
            /\ WithoutGroup(up, g).last_word = IF up.last_group = g THEN no_position ELSE up.last_word
            /\ WithoutGroup(up, g).last_group = IF up.last_group = g THEN no_position ELSE up.last_group
        BY <4>1, PairGroupLost
      <4>3. QED
        BY <4>2 DEF up
    <3> HIDE DEF fp, r, u, g, s
    <3>3. QED
      BY <1>1, <1>11, <3>1, <3>2
  <2>10. DOMAIN fp = DOMAIN b.pairs
    BY <1>5, <1>9
  <2>11. /\ c.edge_group = eg /\ c.group_state = b.group_state
         /\ c.left_cache = b.left_cache /\ c.right_cache = b.right_cache
         /\ c.same_cache = b.same_cache /\ c.born = b.born /\ c.aborted = b.aborted
    BY <1>9, <2>7
  <2>12. c.group_count = [b.group_count EXCEPT ![g] = IF last THEN b.free_head ELSE @ - 1]
    BY <1>13, <2>7, <2>8
  <2>13. c.free_head = IF last THEN g ELSE b.free_head
    BY <1>13, <2>7
  <2>14. c.pairs = fp
    BY <2>7
  <2> HIDE DEF fp, pr, u
  <2>15. QED
    BY <1>1, <1>13, <2>6, <2>9, <2>10, <2>11, <2>12, <2>13, <2>14 DEF EdgeRemoved
<1>14. CASE ~last
  <2>1. c = u
    BY <1>12, <1>14
  <2>2. c.group_count = [b.group_count EXCEPT ![g] = IF last THEN b.free_head ELSE @ - 1]
    BY <1>9, <1>14, <2>1
  <2>3. c.free_head = IF last THEN g ELSE b.free_head
    BY <1>9, <1>14, <2>1
  <2>4. DOMAIN c.pairs = DOMAIN b.pairs
    BY <1>5, <1>9, <2>1
  <2> HIDE DEF pr, u
  <2>5. QED
    BY <1>1, <1>8, <1>9, <1>11, <1>14, <2>1, <2>2, <2>3, <2>4 DEF EdgeRemoved
<1>15. QED
  BY <1>13, <1>14

LEMMA RemoveKeepsGroups ==
    ASSUME NEW P, IsFiniteSet(P), NEW b, BookOK(b, P), NEW start \in P, NEW f \in Nat,
           ~RemoveAborts(b, start, f)
    PROVE  GroupsSound(remove_edge(b, start, f))
<1> DEFINE c    == remove_edge(b, start, f)
           g    == b.edge_group[start]
           last == b.group_count[g] = 1
<1> HIDE DEF c, g
<1>1. /\ g \in DOMAIN b.group_count
      /\ c.edge_group = [b.edge_group EXCEPT ![start] = no_position]
      /\ c.group_state = b.group_state
      /\ c.group_count = [b.group_count EXCEPT ![g] = IF last THEN b.free_head ELSE @ - 1]
      /\ c.free_head = IF last THEN g ELSE b.free_head
      /\ c.left_cache = b.left_cache /\ c.right_cache = b.right_cache
      /\ c.same_cache = b.same_cache /\ c.born = b.born
      /\ DOMAIN c.pairs = DOMAIN b.pairs
      /\ \A k \in DOMAIN b.pairs :
            IF last /\ k = b.group_state[g] /\ b.pairs[k].last_group = g
            THEN c.pairs[k].last_word = no_position
            ELSE /\ c.pairs[k].last_word = b.pairs[k].last_word
                 /\ c.pairs[k].last_group = b.pairs[k].last_group
  <2>1. EdgeRemoved(b, c, start)
    BY RemoveFields DEF c
  <2>2. QED
    BY <2>1 DEF EdgeRemoved, g
<1>2. /\ DOMAIN b.edge_group = P /\ DOMAIN c.edge_group = P
      /\ DOMAIN c.group_count = DOMAIN b.group_count
      /\ b.edge_group[start] = g
      /\ no_position \notin DOMAIN b.group_count
  BY <1>1, NoPositionAssumption DEF BookOK, BookTypeOK, g
<1>3. \A h \in DOMAIN b.group_count :
         Members(c, h) = IF h = g THEN Members(b, g) \ {start} ELSE Members(b, h)
  BY <1>1, <1>2 DEF Members
<1>4. start \in Members(b, g) /\ IsFiniteSet(Members(b, g)) /\ g \in Used(b)
  BY <1>1, <1>2, FS_Subset DEF Members, Used
<1>5. b.group_count[g] = Cardinality(Members(b, g)) /\ b.group_count[g] \in Nat
  BY <1>4, FS_CardinalityType DEF BookOK, GroupsSound, UsedCounted
<1>6. IsFiniteSet(Members(c, g)) /\ Cardinality(Members(c, g)) = b.group_count[g] - 1
  BY <1>1, <1>3, <1>4, <1>5, FS_RemoveElement
<1>7. Members(c, g) = {} <=> last
  BY <1>5, <1>6, FS_EmptySet
<1>8. Used(c) = IF last THEN Used(b) \ {g} ELSE Used(b)
  BY <1>2, <1>3, <1>4, <1>7 DEF Used
<1>9. Unused(c) = IF last THEN Unused(b) \cup {g} ELSE Unused(b)
  BY <1>1, <1>2, <1>8, <1>4 DEF Unused
<1>10. IdsInRange(c)
  <2>1. \A p \in P : c.edge_group[p] # no_position => c.edge_group[p] = b.edge_group[p]
    BY <1>1, <1>2
  <2>2. QED
    BY <1>1, <1>2, <2>1 DEF BookOK, GroupsSound, IdsInRange
<1>11. UsedCounted(c)
  <2> SUFFICES ASSUME NEW h \in Used(c) PROVE c.group_count[h] = Cardinality(Members(c, h))
    BY DEF UsedCounted
  <2>1. h \in Used(b) /\ h \in DOMAIN b.group_count
    BY <1>8 DEF Used
  <2>2. CASE h = g
    BY <1>1, <1>6, <1>8, <2>1, <2>2
  <2>3. CASE h # g
    BY <1>1, <1>3, <2>1, <2>3 DEF BookOK, GroupsSound, UsedCounted
  <2>4. QED
    BY <2>2, <2>3
<1>12. FreeListSound(c)
  <2>1. /\ b.free_head \in Unused(b) \cup {no_position}
        /\ \A h \in Unused(b) :
              /\ b.group_count[h] \in Unused(b) \cup {no_position}
              /\ b.group_count[h] # no_position =>
                    /\ b.group_count[h] # b.free_head
                    /\ \A i \in Unused(b) : b.group_count[i] = b.group_count[h] => i = h
    BY DEF BookOK, GroupsSound, FreeListSound
  <2>2. g \notin Unused(b) /\ Unused(b) \subseteq DOMAIN b.group_count
    BY <1>4 DEF Unused
  <2>3. \A h \in Unused(b) : c.group_count[h] = b.group_count[h]
    BY <1>1, <2>2
  <2>4. CASE last
    <3>1. c.group_count[g] = b.free_head /\ c.free_head = g
      BY <1>1, <2>4
    <3>2. Unused(c) = Unused(b) \cup {g}
      BY <1>9, <2>4
    <3>3. QED
      BY <1>1, <1>2, <2>1, <2>2, <2>3, <3>1, <3>2 DEF FreeListSound
  <2>5. CASE ~last
    BY <1>1, <1>9, <2>1, <2>3, <2>5 DEF FreeListSound
  <2>6. QED
    BY <2>4, <2>5
<1>13. CacheSound(c)
  <2> SUFFICES ASSUME NEW k \in DOMAIN b.pairs, c.pairs[k].last_word # no_position
               PROVE  /\ c.pairs[k].last_group \in Used(c)
                      /\ c.group_state[c.pairs[k].last_group] = k
    BY <1>1 DEF CacheSound
  <2>1. ~(last /\ k = b.group_state[g] /\ b.pairs[k].last_group = g)
    BY <1>1
  <2>2. /\ c.pairs[k].last_word = b.pairs[k].last_word
        /\ c.pairs[k].last_group = b.pairs[k].last_group
    BY <1>1, <2>1
  <2>3. /\ b.pairs[k].last_group \in Used(b)
        /\ b.group_state[b.pairs[k].last_group] = k
    BY <2>2 DEF BookOK, GroupsSound, CacheSound
  <2>4. QED
    BY <1>1, <1>8, <2>1, <2>2, <2>3
<1>14. GroupsSound(c)
  BY <1>10, <1>11, <1>12, <1>13 DEF GroupsSound
<1>15. QED
  BY <1>14 DEF c

\* remove_edge keeps the book sound, aborts or takes the edge out, touches no other
\* edge, and raises no pair's count.
LEMMA RemoveEdge ==
    ASSUME NEW P, IsFiniteSet(P), NEW b, BookOK(b, P), NEW start \in P, NEW f \in Nat
    PROVE  LET c == remove_edge(b, start, f)
           IN  /\ BookOK(c, P)
               /\ DOMAIN c.pairs = DOMAIN b.pairs
               /\ \A s \in DOMAIN b.pairs : c.pairs[s].key = b.pairs[s].key
               /\ b.aborted => c.aborted
               /\ \/ c.aborted /\ c.edge_group = b.edge_group
                  \/ c.edge_group = [b.edge_group EXCEPT ![start] = no_position]
               /\ SameStamps(b, c)
               /\ \A s \in DOMAIN b.pairs : c.pairs[s].count <= b.pairs[s].count
<1> DEFINE c == remove_edge(b, start, f)
<1>1. CASE RemoveAborts(b, start, f)
  <2>1. c = [b EXCEPT !.aborted = TRUE]
    BY <1>1 DEF remove_edge
  <2> HIDE DEF c
  <2>2. BookTypeOK(c, P)
    BY <2>1 DEF BookOK, BookTypeOK
  <2>3. /\ c.edge_group = b.edge_group /\ c.group_state = b.group_state
        /\ c.group_count = b.group_count /\ c.free_head = b.free_head
        /\ c.left_cache = b.left_cache /\ c.right_cache = b.right_cache
        /\ c.same_cache = b.same_cache /\ c.born = b.born
        /\ c.pairs = b.pairs /\ c.aborted
    BY <2>1 DEF BookOK, BookTypeOK
  <2>4. /\ IdsInRange(c) /\ UsedCounted(c) /\ FreeListSound(c) /\ CacheSound(c)
    <3>1. \A h : Members(c, h) = Members(b, h)
      BY <2>3 DEF Members
    <3>2. Used(c) = Used(b) /\ Unused(c) = Unused(b)
      BY <2>3, <3>1 DEF Used, Unused
    <3>3. IdsInRange(c)
      BY <2>3 DEF BookOK, GroupsSound, IdsInRange
    <3>4. UsedCounted(c)
      BY <2>3, <3>1, <3>2 DEF BookOK, GroupsSound, UsedCounted
    <3>5. FreeListSound(c) /\ CacheSound(c)
      BY <2>3, <3>2 DEF BookOK, GroupsSound, FreeListSound, CacheSound
    <3>6. QED
      BY <3>3, <3>4, <3>5
  <2>5. BookOK(c, P)
    BY <2>2, <2>4 DEF BookOK, GroupsSound
  <2>6. \A s \in DOMAIN b.pairs : b.pairs[s].count \in Nat
    BY PairUpdate DEF BookOK, Pair
  <2>7. QED
    BY <2>3, <2>5, <2>6 DEF c, SameStamps
<1>2. CASE ~RemoveAborts(b, start, f)
  <2> HIDE DEF c
  <2>1. BookTypeOK(c, P) /\ EdgeRemoved(b, c, start)
    BY <1>2, RemoveFields DEF c
  <2>2. GroupsSound(c)
    BY <1>2, RemoveKeepsGroups DEF c
  <2>3. BookOK(c, P)
    BY <2>1, <2>2 DEF BookOK
  <2>4. QED
    BY <2>1, <2>3 DEF c, EdgeRemoved, SameStamps
<1>3. QED
  BY <1>1, <1>2

-----------------------------------------------------------------------------
(* Creating and finding pairs.                                             *)

\* The keys of all pairs are pairs of tokens of V.
KeysIn(b, V) == \A s \in DOMAIN b.pairs : b.pairs[s].key \in V \X V

\* The book c has the pairs of b, perhaps more, and the same edges.
Extends(b, c) ==
    /\ DOMAIN b.pairs \subseteq DOMAIN c.pairs
    /\ \A s \in DOMAIN b.pairs : c.pairs[s].key = b.pairs[s].key
    /\ c.edge_group = b.edge_group

LEMMA CreatePair ==
    ASSUME NEW P, NEW b, BookOK(b, P), NEW V \in SUBSET Nat, KeysIn(b, V),
           NEW key \in V \X V
    PROVE  LET c == create_pair_state(b, key)
           IN  /\ BookOK(c, P) /\ KeysIn(c, V) /\ Extends(b, c)
               /\ Len(c.pairs) = Len(b.pairs) + 1
               /\ Len(b.pairs) + 1 \in DOMAIN c.pairs
<1> DEFINE c  == create_pair_state(b, key)
           n  == NewPair(key)
           pr == Append(b.pairs, n)
           bn == Append(b.born, Len(b.pairs) + 1)
<1>1. b.pairs \in Seq(Pair(P)) /\ b.born \in Seq(Nat) /\ key \in Nat \X Nat
  BY DEF BookOK, BookTypeOK
<1>2. n \in Pair(P)
  BY <1>1 DEF NewPair, Pair
<1>3. /\ pr \in Seq(Pair(P)) /\ Len(pr) = Len(b.pairs) + 1
      /\ \A k \in DOMAIN b.pairs : pr[k] = b.pairs[k]
      /\ pr[Len(b.pairs) + 1] = n
      /\ DOMAIN pr = DOMAIN b.pairs \cup {Len(b.pairs) + 1}
  BY <1>1, <1>2
<1>4. /\ bn \in Seq(Nat)
      /\ \A i \in DOMAIN bn : bn[i] = Len(b.pairs) + 1 \/ (i \in DOMAIN b.born /\ bn[i] = b.born[i])
  BY <1>1
<1>5. n.key = key /\ n.last_word = no_position
  BY DEF NewPair
<1>6. c = [b EXCEPT !.pairs = pr, !.born = bn]
  BY DEF create_pair_state
<1> HIDE DEF n, pr, bn, c
<1>7. /\ c.pairs = pr /\ c.born = bn
      /\ c.edge_group = b.edge_group /\ c.group_state = b.group_state
      /\ c.group_count = b.group_count /\ c.free_head = b.free_head
      /\ c.left_cache = b.left_cache /\ c.right_cache = b.right_cache
      /\ c.same_cache = b.same_cache
  BY <1>6 DEF BookOK, BookTypeOK
<1>8. BookTypeOK(c, P)
  BY <1>3, <1>4, <1>6 DEF BookOK, BookTypeOK
<1>9. KeysIn(c, V) /\ Extends(b, c)
  BY <1>3, <1>5, <1>7 DEF KeysIn, Extends
<1>10. Used(c) = Used(b) /\ Unused(c) = Unused(b) /\ \A h : Members(c, h) = Members(b, h)
  BY <1>7 DEF Used, Unused, Members
<1>11. IdsInRange(c)
  BY <1>3, <1>4, <1>7 DEF BookOK, GroupsSound, IdsInRange
<1>12. UsedCounted(c) /\ FreeListSound(c)
  BY <1>7, <1>10 DEF BookOK, GroupsSound, UsedCounted, FreeListSound
<1>13. CacheSound(c)
  BY <1>3, <1>5, <1>7, <1>10 DEF BookOK, GroupsSound, CacheSound
<1>14. BookOK(c, P)
  BY <1>8, <1>11, <1>12, <1>13 DEF BookOK, GroupsSound
<1>15. QED
  BY <1>3, <1>7, <1>9, <1>14 DEF c

\* A stamp may name any pair there is.
LEMMA CacheEntries ==
    ASSUME NEW P, NEW b, BookOK(b, P), NEW x \in SUBSET CacheEntry,
           \A e \in x : e.state \in DOMAIN b.pairs
    PROVE  \A c \in {[b EXCEPT !.left_cache = x], [b EXCEPT !.right_cache = x],
                     [b EXCEPT !.same_cache = x]} :
              BookOK(c, P) /\ c.pairs = b.pairs /\ c.edge_group = b.edge_group
<1> TAKE c \in {[b EXCEPT !.left_cache = x], [b EXCEPT !.right_cache = x],
               [b EXCEPT !.same_cache = x]}
<1>1. BookTypeOK(c, P)
  BY DEF BookOK, BookTypeOK
<1>2. /\ c.pairs = b.pairs /\ c.born = b.born
      /\ c.edge_group = b.edge_group /\ c.group_state = b.group_state
      /\ c.group_count = b.group_count /\ c.free_head = b.free_head
      /\ c.left_cache \cup c.right_cache \cup c.same_cache
            \subseteq x \cup b.left_cache \cup b.right_cache \cup b.same_cache
  BY DEF BookOK, BookTypeOK
<1>3. Used(c) = Used(b) /\ Unused(c) = Unused(b) /\ \A h : Members(c, h) = Members(b, h)
  BY <1>2 DEF Used, Unused, Members
<1>4. IdsInRange(c)
  BY <1>2 DEF BookOK, GroupsSound, IdsInRange
<1>5. UsedCounted(c) /\ FreeListSound(c) /\ CacheSound(c)
  BY <1>2, <1>3 DEF BookOK, GroupsSound, UsedCounted, FreeListSound, CacheSound
<1>6. QED
  BY <1>1, <1>2, <1>4, <1>5 DEF BookOK, GroupsSound

LEMMA FoundIsCached ==
    ASSUME NEW P, NEW b, BookOK(b, P), NEW cache,
           cache \subseteq b.left_cache \cup b.right_cache \cup b.same_cache,
           NEW token, NEW merged, Hits(cache, token, merged) # {}
    PROVE  Found(Hits(cache, token, merged)) \in DOMAIN b.pairs
<1> DEFINE e == CHOOSE c \in Hits(cache, token, merged) : TRUE
<1>1. e \in Hits(cache, token, merged)
  OBVIOUS
<1>2. e \in cache
  BY <1>1 DEF Hits
<1> HIDE DEF e
<1>3. e.state \in DOMAIN b.pairs
  BY <1>2 DEF BookOK, GroupsSound, IdsInRange
<1>4. QED
  BY <1>3 DEF Found, e

LEMMA StampedTyped ==
    ASSUME NEW cache \in SUBSET CacheEntry, NEW token \in Nat, NEW merged \in Nat,
           NEW S \in SUBSET Nat, NEW s \in S, \A e \in cache : e.state \in S
    PROVE  /\ Stamped(cache, token, merged, s) \in SUBSET CacheEntry
           /\ \A e \in Stamped(cache, token, merged, s) : e.state \in S
BY DEF Stamped, CacheEntry

\* What a get_ operator promises: a sound book with the pairs of b, and a pair.
Gets(b, g, P, V) ==
    /\ BookOK(g.book, P) /\ KeysIn(g.book, V) /\ Extends(b, g.book)
    /\ g.state \in DOMAIN g.book.pairs

\* A pair created and then stamped into one of the caches.
LEMMA CreateAndStamp ==
    ASSUME NEW P, NEW b, BookOK(b, P), NEW V \in SUBSET Nat, KeysIn(b, V),
           NEW key \in V \X V, NEW token \in Nat, NEW merged \in Nat,
           NEW cache \in {{}, b.left_cache, b.right_cache},
           NEW c,
           LET x == Stamped(cache, token, merged, Len(b.pairs) + 1)
               a == create_pair_state(b, key)
           IN  c \in {[a EXCEPT !.left_cache = x], [a EXCEPT !.right_cache = x],
                      [a EXCEPT !.same_cache = x]}
    PROVE  Gets(b, [book |-> c, state |-> Len(b.pairs) + 1], P, V)
<1> DEFINE x == Stamped(cache, token, merged, Len(b.pairs) + 1)
           a == create_pair_state(b, key)
<1>1. /\ BookOK(a, P) /\ KeysIn(a, V) /\ Extends(b, a)
      /\ Len(b.pairs) + 1 \in DOMAIN a.pairs
  BY CreatePair
<1> HIDE DEF a
<1>2. DOMAIN a.pairs \in SUBSET Nat
  BY <1>1 DEF BookOK, BookTypeOK
<1>3. cache \in SUBSET CacheEntry /\ \A e \in cache : e.state \in DOMAIN a.pairs
  BY <1>1 DEF BookOK, BookTypeOK, GroupsSound, IdsInRange, Extends
<1>4. x \in SUBSET CacheEntry /\ \A e \in x : e.state \in DOMAIN a.pairs
  BY <1>1, <1>2, <1>3, StampedTyped
<1>5. c \in {[a EXCEPT !.left_cache = x], [a EXCEPT !.right_cache = x], [a EXCEPT !.same_cache = x]}
  BY DEF a
<1> HIDE DEF x
<1>6. BookOK(c, P) /\ c.pairs = a.pairs /\ c.edge_group = a.edge_group
  <2>1. \A d \in {[a EXCEPT !.left_cache = x], [a EXCEPT !.right_cache = x],
                  [a EXCEPT !.same_cache = x]} :
           BookOK(d, P) /\ d.pairs = a.pairs /\ d.edge_group = a.edge_group
    BY ONLY <1>1, <1>4, CacheEntries
  <2>2. QED
    BY <1>5, <2>1
<1>7. QED
  BY <1>1, <1>6 DEF Gets, KeysIn, Extends

LEMMA ReturnCached ==
    ASSUME NEW P, NEW b, BookOK(b, P), NEW V, KeysIn(b, V), NEW s \in DOMAIN b.pairs
    PROVE  Gets(b, [book |-> b, state |-> s], P, V)
BY DEF Gets, Extends

LEMMA GetSame ==
    ASSUME NEW P, NEW b, BookOK(b, P), NEW V \in SUBSET Nat, KeysIn(b, V), NEW merged \in V
    PROVE  Gets(b, get_same_pair_state(b, merged), P, V)
<1>1. CASE Hits(b.same_cache, merged, merged) # {}
  BY <1>1, FoundIsCached, ReturnCached DEF get_same_pair_state
<1>2. CASE Hits(b.same_cache, merged, merged) = {}
  <2> DEFINE c == [create_pair_state(b, <<merged, merged>>) EXCEPT
                     !.same_cache = Stamped({}, merged, merged, Len(b.pairs) + 1)]
  <2>1. get_same_pair_state(b, merged) = [book |-> c, state |-> Len(b.pairs) + 1]
    BY <1>2 DEF get_same_pair_state
  <2>2. Gets(b, [book |-> c, state |-> Len(b.pairs) + 1], P, V)
    BY CreateAndStamp
  <2>3. QED
    BY <2>1, <2>2
<1>3. QED
  BY <1>1, <1>2

LEMMA GetLeft ==
    ASSUME NEW P, NEW b, BookOK(b, P), NEW V \in SUBSET Nat, KeysIn(b, V),
           NEW left \in V, NEW merged \in V
    PROVE  Gets(b, get_left_pair_state(b, left, merged), P, V)
<1>1. CASE left = merged
  BY <1>1, GetSame DEF get_left_pair_state
<1>2. CASE left # merged /\ Hits(b.left_cache, left, merged) # {}
  BY <1>2, FoundIsCached, ReturnCached DEF get_left_pair_state
<1>3. CASE left # merged /\ Hits(b.left_cache, left, merged) = {}
  <2> DEFINE d == [create_pair_state(b, <<left, merged>>) EXCEPT
                     !.left_cache = Stamped(b.left_cache, left, merged, Len(b.pairs) + 1)]
  <2>1. create_pair_state(b, <<left, merged>>).left_cache = b.left_cache
    BY DEF create_pair_state, BookOK, BookTypeOK
  <2>2. get_left_pair_state(b, left, merged) = [book |-> d, state |-> Len(b.pairs) + 1]
    BY <1>3, <2>1 DEF get_left_pair_state
  <2>3. Gets(b, [book |-> d, state |-> Len(b.pairs) + 1], P, V)
    BY CreateAndStamp
  <2>4. QED
    BY <2>2, <2>3
<1>4. QED
  BY <1>1, <1>2, <1>3

LEMMA GetRight ==
    ASSUME NEW P, NEW b, BookOK(b, P), NEW V \in SUBSET Nat, KeysIn(b, V),
           NEW merged \in V, NEW right \in V
    PROVE  Gets(b, get_right_pair_state(b, merged, right), P, V)
<1>1. CASE right = merged
  BY <1>1, GetSame DEF get_right_pair_state
<1>2. CASE right # merged /\ Hits(b.right_cache, right, merged) # {}
  BY <1>2, FoundIsCached, ReturnCached DEF get_right_pair_state
<1>3. CASE right # merged /\ Hits(b.right_cache, right, merged) = {}
  <2> DEFINE d == [create_pair_state(b, <<merged, right>>) EXCEPT
                     !.right_cache = Stamped(b.right_cache, right, merged, Len(b.pairs) + 1)]
  <2>1. create_pair_state(b, <<merged, right>>).right_cache = b.right_cache
    BY DEF create_pair_state, BookOK, BookTypeOK
  <2>2. get_right_pair_state(b, merged, right) = [book |-> d, state |-> Len(b.pairs) + 1]
    BY <1>3, <2>1 DEF get_right_pair_state
  <2>3. Gets(b, [book |-> d, state |-> Len(b.pairs) + 1], P, V)
    BY CreateAndStamp
  <2>4. QED
    BY <2>2, <2>3
<1>4. QED
  BY <1>1, <1>2, <1>3

-----------------------------------------------------------------------------
(* add_edge and build_edge: an edge joins a group of its pair, in one of   *)
(* three ways.                                                             *)

\* The pair's group in that word exists.
JoinsGroup(b, c, s, group) ==
    /\ group \in Used(b) /\ b.group_state[group] = s
    /\ c.group_state = b.group_state
    /\ c.group_count = [b.group_count EXCEPT ![group] = @ + 1]
    /\ c.free_head = b.free_head

\* The head of the free list becomes the pair's group.
RecyclesGroup(b, c, s, group) ==
    /\ group = b.free_head /\ group # no_position
    /\ c.group_state = [b.group_state EXCEPT ![group] = s]
    /\ c.group_count = [b.group_count EXCEPT ![group] = 1]
    /\ c.free_head = b.group_count[group]

\* A group more than there were becomes the pair's group.
OpensGroup(b, c, s, group) ==
    /\ group = Len(b.group_count) + 1
    /\ c.group_state = Append(b.group_state, s)
    /\ c.group_count = Append(b.group_count, 1)
    /\ c.free_head = b.free_head

EdgeAdded(b, c, start, s, group) ==
    /\ c.edge_group = [b.edge_group EXCEPT ![start] = group]
    /\ c.left_cache = b.left_cache /\ c.right_cache = b.right_cache
    /\ c.same_cache = b.same_cache /\ c.born = b.born
    /\ DOMAIN c.pairs = DOMAIN b.pairs
    /\ \A k \in DOMAIN b.pairs :
          /\ c.pairs[k].key = b.pairs[k].key
          /\ IF k = s THEN c.pairs[k].last_group = group
             ELSE /\ c.pairs[k].last_word = b.pairs[k].last_word
                  /\ c.pairs[k].last_group = b.pairs[k].last_group
    /\ \/ JoinsGroup(b, c, s, group)
       \/ RecyclesGroup(b, c, s, group)
       \/ OpensGroup(b, c, s, group)

LEMMA AddedKeepsGroups ==
    ASSUME NEW P, IsFiniteSet(P), NEW b, BookOK(b, P), NEW start \in P,
           b.edge_group[start] = no_position,
           NEW s \in DOMAIN b.pairs, NEW c, NEW group, EdgeAdded(b, c, start, s, group)
    PROVE  GroupsSound(c)
<1>1. /\ c.edge_group = [b.edge_group EXCEPT ![start] = group]
      /\ c.left_cache = b.left_cache /\ c.right_cache = b.right_cache
      /\ c.same_cache = b.same_cache /\ c.born = b.born
      /\ DOMAIN c.pairs = DOMAIN b.pairs
      /\ \A k \in DOMAIN b.pairs :
            IF k = s THEN c.pairs[k].last_group = group
            ELSE /\ c.pairs[k].last_word = b.pairs[k].last_word
                 /\ c.pairs[k].last_group = b.pairs[k].last_group
  BY DEF EdgeAdded
<1>2. /\ b.edge_group \in [P -> Nat \cup {no_position}]
      /\ b.group_state \in Seq(Nat) /\ b.group_count \in Seq(Nat \cup {no_position})
      /\ DOMAIN b.group_state = DOMAIN b.group_count
      /\ no_position \notin Nat
      /\ DOMAIN b.edge_group = P /\ DOMAIN c.edge_group = P
  BY <1>1, NoPositionAssumption DEF BookOK, BookTypeOK, GroupsSound, IdsInRange
<1>3. /\ b.free_head \in Unused(b) \cup {no_position}
      /\ \A h \in Unused(b) :
            /\ b.group_count[h] \in Unused(b) \cup {no_position}
            /\ b.group_count[h] # no_position =>
                  /\ b.group_count[h] # b.free_head
                  /\ \A i \in Unused(b) : b.group_count[i] = b.group_count[h] => i = h
  BY DEF BookOK, GroupsSound, FreeListSound
<1>4. \A h : h # no_position =>
         Members(c, h) = IF h = group THEN Members(b, h) \cup {start} ELSE Members(b, h)
  BY <1>1, <1>2 DEF Members
<1>4a. \A h \in DOMAIN b.group_count : h # no_position
  BY <1>2
<1>4b. \A h : h # no_position =>
         (Members(c, h) # {} <=> h = group \/ Members(b, h) # {})
  BY <1>4
<1>5. \A h : h # no_position => start \notin Members(b, h) /\ IsFiniteSet(Members(b, h))
  BY <1>2, FS_Subset DEF Members
<1>6. \A h : h # no_position =>
         /\ Cardinality(Members(b, h)) \in Nat
         /\ Cardinality(Members(b, h) \cup {start}) = Cardinality(Members(b, h)) + 1
  BY <1>5, FS_CardinalityType, FS_AddElement
<1>7. /\ \A h \in Used(b) : b.group_count[h] = Cardinality(Members(b, h))
      /\ \A k \in DOMAIN b.pairs :
            b.pairs[k].last_word # no_position =>
               b.pairs[k].last_group \in Used(b) /\ b.group_state[b.pairs[k].last_group] = k
  BY DEF BookOK, GroupsSound, UsedCounted, CacheSound
<1>8. /\ \A p \in P : b.edge_group[p] # no_position => b.edge_group[p] \in DOMAIN b.group_count
      /\ \A h \in DOMAIN b.group_count : b.group_state[h] \in DOMAIN b.pairs
  BY <1>2 DEF BookOK, GroupsSound, IdsInRange
<1>9. CASE JoinsGroup(b, c, s, group)
  <2>1. /\ group \in Used(b) /\ group \in DOMAIN b.group_count /\ group # no_position
        /\ b.group_state[group] = s
        /\ c.group_state = b.group_state /\ c.free_head = b.free_head
        /\ DOMAIN c.group_count = DOMAIN b.group_count
        /\ \A h \in DOMAIN b.group_count :
              c.group_count[h] = IF h = group THEN b.group_count[h] + 1 ELSE b.group_count[h]
    BY <1>2, <1>9 DEF JoinsGroup, Used
  <2>2. Used(c) = Used(b)
    BY <1>4a, <1>4b, <2>1 DEF Used
  <2>3. Unused(c) = Unused(b) /\ group \notin Unused(b) /\ Unused(b) \subseteq DOMAIN b.group_count
    BY <2>1, <2>2 DEF Unused
  <2>4. IdsInRange(c)
    BY <1>1, <1>2, <1>8, <2>1 DEF BookOK, GroupsSound, IdsInRange
  <2>5. UsedCounted(c)
    <3>1. \A h \in Used(b) : h \in DOMAIN b.group_count /\ h # no_position
      BY <1>2 DEF Used
    <3>2. QED
      BY <1>4, <1>6, <1>7, <2>1, <2>2, <3>1 DEF UsedCounted
  <2>6. FreeListSound(c)
    BY <1>3, <2>1, <2>3 DEF FreeListSound
  <2>7. CacheSound(c)
    BY <1>1, <1>7, <2>1, <2>2 DEF CacheSound
  <2>8. QED
    BY <2>4, <2>5, <2>6, <2>7 DEF GroupsSound
<1>10. CASE RecyclesGroup(b, c, s, group)
  <2>1. group \in Unused(b) /\ group \in DOMAIN b.group_count /\ group # no_position
    BY <1>3, <1>10 DEF RecyclesGroup, Unused
  <2>2. /\ c.free_head = b.group_count[group] /\ group = b.free_head
        /\ DOMAIN c.group_state = DOMAIN b.group_state
        /\ \A h \in DOMAIN b.group_state :
              c.group_state[h] = IF h = group THEN s ELSE b.group_state[h]
        /\ DOMAIN c.group_count = DOMAIN b.group_count
        /\ \A h \in DOMAIN b.group_count :
              c.group_count[h] = IF h = group THEN 1 ELSE b.group_count[h]
    BY <1>2, <1>10, <2>1 DEF RecyclesGroup
  <2>3. Members(b, group) = {}
    BY <2>1 DEF Used, Unused
  <2>4. Used(c) = Used(b) \cup {group} /\ group \notin Used(b)
    BY <1>4a, <1>4b, <2>1, <2>2, <2>3 DEF Used
  <2>5. Unused(c) = Unused(b) \ {group} /\ Unused(b) \subseteq DOMAIN b.group_count
    BY <2>1, <2>2, <2>4 DEF Unused
  <2>6. IdsInRange(c)
    BY <1>1, <1>2, <1>8, <2>1, <2>2 DEF BookOK, GroupsSound, IdsInRange
  <2>7. UsedCounted(c)
    <3>1. \A h \in Used(b) : h \in DOMAIN b.group_count /\ h # no_position
      BY <1>2 DEF Used
    <3>2. Cardinality(Members(c, group)) = 1
      <4>1. Cardinality(Members(b, group)) = 0
        BY <2>3, FS_EmptySet
      <4>2. Cardinality(Members(c, group)) = Cardinality(Members(b, group)) + 1
        BY <1>4, <1>6, <2>1
      <4>3. QED
        BY <4>1, <4>2
    <3>3. QED
      BY <1>4, <1>7, <2>1, <2>2, <2>4, <3>1, <3>2 DEF UsedCounted
  <2>8. FreeListSound(c)
    BY <1>3, <2>1, <2>2, <2>5 DEF FreeListSound
  <2>9. CacheSound(c)
    BY <1>1, <1>2, <1>7, <2>1, <2>2, <2>4 DEF CacheSound, Used
  <2>10. QED
    BY <2>6, <2>7, <2>8, <2>9 DEF GroupsSound
<1>11. CASE OpensGroup(b, c, s, group)
  <2>1. /\ group = Len(b.group_count) + 1 /\ c.free_head = b.free_head
        /\ group \notin DOMAIN b.group_count /\ group # no_position
        /\ DOMAIN c.group_state = DOMAIN b.group_state \cup {group}
        /\ \A h \in DOMAIN b.group_state : c.group_state[h] = b.group_state[h]
        /\ c.group_state[group] = s
        /\ DOMAIN c.group_count = DOMAIN b.group_count \cup {group}
        /\ \A h \in DOMAIN b.group_count : c.group_count[h] = b.group_count[h]
        /\ c.group_count[group] = 1
    <3>1. Len(b.group_state) = Len(b.group_count)
      BY <1>2
    <3>2. QED
      BY <1>2, <1>11, <3>1 DEF OpensGroup
  <2>2. Members(b, group) = {}
    BY <1>2, <1>8, <2>1 DEF Members
  <2>3. Used(c) = Used(b) \cup {group} /\ group \notin Used(b)
    BY <1>4a, <1>4b, <2>1, <2>2 DEF Used
  <2>4. Unused(c) = Unused(b) /\ Unused(b) \subseteq DOMAIN b.group_count
    BY <2>1, <2>3 DEF Unused
  <2>5. IdsInRange(c)
    BY <1>1, <1>2, <1>8, <2>1 DEF BookOK, GroupsSound, IdsInRange
  <2>6. UsedCounted(c)
    <3>1. \A h \in Used(b) : h \in DOMAIN b.group_count /\ h # no_position /\ h # group
      BY <1>2, <2>1 DEF Used
    <3>2. Cardinality(Members(c, group)) = 1
      <4>1. Cardinality(Members(b, group)) = 0
        BY <2>2, FS_EmptySet
      <4>2. Cardinality(Members(c, group)) = Cardinality(Members(b, group)) + 1
        BY <1>4, <1>6, <2>1
      <4>3. QED
        BY <4>1, <4>2
    <3>3. QED
      BY <1>4, <1>7, <2>1, <2>3, <3>1, <3>2 DEF UsedCounted
  <2>7. FreeListSound(c)
    BY <1>3, <2>1, <2>4 DEF FreeListSound
  <2>8. CacheSound(c)
    <3>1. \A h \in Used(b) : h \in DOMAIN b.group_state /\ h # group
      BY <1>2, <2>3 DEF Used
    <3>2. QED
      BY <1>1, <1>7, <2>1, <2>3, <3>1 DEF CacheSound
  <2>9. QED
    BY <2>5, <2>6, <2>7, <2>8 DEF GroupsSound
<1>12. QED
  BY <1>9, <1>10, <1>11 DEF EdgeAdded

\* What get_word_group leaves behind: the group of pair s, with no edge yet if the
\* word has not had one.
GroupGot(b, g, s, group) ==
    /\ g.edge_group = b.edge_group
    /\ g.left_cache = b.left_cache /\ g.right_cache = b.right_cache
    /\ g.same_cache = b.same_cache /\ g.born = b.born
    /\ DOMAIN g.pairs = DOMAIN b.pairs
    /\ \A k \in DOMAIN b.pairs :
          /\ g.pairs[k].key = b.pairs[k].key /\ g.pairs[k].count = b.pairs[k].count
          /\ IF k = s THEN g.pairs[k].last_group = group
             ELSE /\ g.pairs[k].last_word = b.pairs[k].last_word
                  /\ g.pairs[k].last_group = b.pairs[k].last_group
    /\ group \in DOMAIN g.group_count /\ g.group_count[group] \in Nat
    /\ \/ /\ group \in Used(b) /\ b.group_state[group] = s
          /\ g.group_state = b.group_state /\ g.group_count = b.group_count
          /\ g.free_head = b.free_head
       \/ /\ group = b.free_head /\ group # no_position /\ group \in DOMAIN b.group_count
          /\ g.group_state = [b.group_state EXCEPT ![group] = s]
          /\ g.group_count = [b.group_count EXCEPT ![group] = 0]
          /\ g.free_head = b.group_count[group]
       \/ /\ group = Len(b.group_count) + 1
          /\ g.group_state = Append(b.group_state, s)
          /\ g.group_count = Append(b.group_count, 0)
          /\ g.free_head = b.free_head

LEMMA PairWithGroup ==
    ASSUME NEW P, NEW b, BookTypeOK(b, P), NEW s \in DOMAIN b.pairs,
           NEW word \in Nat, NEW group \in Nat
    PROVE  LET pr == [b.pairs EXCEPT ![s] = WithGroup(b.pairs[s], word, group)]
           IN  /\ pr \in Seq(Pair(P)) /\ DOMAIN pr = DOMAIN b.pairs
               /\ \A k \in DOMAIN b.pairs :
                     /\ pr[k].key = b.pairs[k].key /\ pr[k].count = b.pairs[k].count
                     /\ IF k = s THEN pr[k].last_group = group
                        ELSE /\ pr[k].last_word = b.pairs[k].last_word
                             /\ pr[k].last_group = b.pairs[k].last_group
<1> DEFINE q  == WithGroup(b.pairs[s], word, group)
           pr == [b.pairs EXCEPT ![s] = q]
<1>1. b.pairs[s] \in Pair(P)
  BY PairUpdate
<1>2. /\ q \in Pair(P) /\ q.last_group = group
      /\ q.key = b.pairs[s].key /\ q.count = b.pairs[s].count
  BY <1>1 DEF Pair, WithGroup
<1> HIDE DEF q
<1>3. pr \in Seq(Pair(P))
  BY <1>2, PairUpdate
<1>4. DOMAIN pr = DOMAIN b.pairs /\ \A k \in DOMAIN b.pairs : pr[k] = IF k = s THEN q ELSE b.pairs[k]
  OBVIOUS
<1>5. QED
  BY <1>2, <1>3, <1>4 DEF q

LEMMA WordGroup ==
    ASSUME NEW P, IsFiniteSet(P), NEW b, BookOK(b, P), NEW s \in DOMAIN b.pairs, NEW word \in Nat
    PROVE  LET g == get_word_group(b, s, word)
           IN  BookTypeOK(g, P) /\ GroupGot(b, g, s, g.pairs[s].last_group)
<1> DEFINE g  == get_word_group(b, s, word)
           fh == b.free_head
<1>1. /\ b.pairs \in Seq(Pair(P)) /\ b.pairs[s] \in Pair(P)
      /\ b.group_state \in Seq(Nat) /\ b.group_count \in Seq(Nat \cup {no_position})
      /\ DOMAIN b.group_state = DOMAIN b.group_count /\ no_position \notin Nat
      /\ s \in Nat /\ DOMAIN b.edge_group = P
  BY PairUpdate, NoPositionAssumption DEF BookOK, BookTypeOK, GroupsSound, IdsInRange
<1>2. CASE b.pairs[s].last_word = word
  <2>1. g = b
    BY <1>2 DEF get_word_group
  <2> DEFINE group == b.pairs[s].last_group
  <2>2. group \in Used(b) /\ b.group_state[group] = s
    BY <1>1, <1>2 DEF BookOK, GroupsSound, CacheSound
  <2> HIDE DEF group, g
  <2>3. group \in DOMAIN b.group_count /\ b.group_count[group] = Cardinality(Members(b, group))
    BY <2>2 DEF BookOK, GroupsSound, UsedCounted, Used
  <2>4. IsFiniteSet(Members(b, group))
    BY <1>1, FS_Subset DEF Members
  <2>5. b.group_count[group] \in Nat
    BY <2>3, <2>4, FS_CardinalityType
  <2>6. BookTypeOK(g, P) /\ GroupGot(b, g, s, group)
    BY <2>1, <2>2, <2>3, <2>5 DEF BookOK, GroupGot, group
  <2>7. QED
    BY <2>1, <2>6 DEF g, group
<1>3. CASE b.pairs[s].last_word # word /\ fh # no_position
  <2> DEFINE pr == [b.pairs EXCEPT ![s] = WithGroup(b.pairs[s], word, fh)]
             gs == [b.group_state EXCEPT ![fh] = s]
             gc == [b.group_count EXCEPT ![fh] = 0]
             d  == [b EXCEPT !.pairs = pr, !.group_state = gs, !.group_count = gc,
                             !.free_head = b.group_count[fh]]
             nb == [b EXCEPT !.free_head = b.group_count[fh], !.group_count = gc, !.group_state = gs]
  <2>1. fh \in DOMAIN b.group_count /\ fh \in Nat /\ b.group_count[fh] \in Nat \cup {no_position}
    BY <1>1, <1>3 DEF BookOK, GroupsSound, FreeListSound, Unused
  <2>2. /\ pr \in Seq(Pair(P)) /\ DOMAIN pr = DOMAIN b.pairs
        /\ \A k \in DOMAIN b.pairs :
              /\ pr[k].key = b.pairs[k].key /\ pr[k].count = b.pairs[k].count
              /\ IF k = s THEN pr[k].last_group = fh
                 ELSE /\ pr[k].last_word = b.pairs[k].last_word
                      /\ pr[k].last_group = b.pairs[k].last_group
    BY <2>1, PairWithGroup DEF BookOK
  <2>3. gs \in Seq(Nat) /\ gc \in Seq(Nat \cup {no_position})
    BY <1>1, <2>1, SeqUpdate
  <2>4. DOMAIN gc = DOMAIN b.group_count /\ gc[fh] = 0
    BY <2>1
  <2>5. g = [nb EXCEPT !.pairs = [nb.pairs EXCEPT ![s] = WithGroup(nb.pairs[s], word, fh)]]
    BY <1>3 DEF get_word_group, NewGroup
  <2>6. nb.pairs = b.pairs
    <3> HIDE DEF gs, gc, fh
    <3> QED BY DEF BookOK, BookTypeOK
  <2>7. g = d
    <3> HIDE DEF g, gs, gc, fh
    <3> QED BY <2>5, <2>6 DEF BookOK, BookTypeOK
  <2> HIDE DEF pr, gs, gc, g, nb
  <2>8. BookTypeOK(d, P)
    BY <2>1, <2>2, <2>3 DEF BookOK, BookTypeOK
  <2>9. /\ d.pairs = pr /\ d.group_state = gs /\ d.group_count = gc
        /\ d.free_head = b.group_count[fh]
        /\ d.edge_group = b.edge_group /\ d.left_cache = b.left_cache
        /\ d.right_cache = b.right_cache /\ d.same_cache = b.same_cache /\ d.born = b.born
    BY DEF BookOK, BookTypeOK
  <2> HIDE DEF d
  <2>10. GroupGot(b, d, s, fh)
    BY <1>3, <2>1, <2>2, <2>4, <2>9 DEF GroupGot, gs, gc
  <2>11. d.pairs[s].last_group = fh
    BY <2>2, <2>9
  <2>12. QED
    BY <2>7, <2>8, <2>10, <2>11 DEF g
<1>4. CASE b.pairs[s].last_word # word /\ fh = no_position
  <2> DEFINE n  == Len(b.group_state) + 1
             pr == [b.pairs EXCEPT ![s] = WithGroup(b.pairs[s], word, n)]
             gs == Append(b.group_state, s)
             gc == Append(b.group_count, 0)
             d  == [b EXCEPT !.pairs = pr, !.group_state = gs, !.group_count = gc]
             nb == [b EXCEPT !.group_state = gs, !.group_count = gc]
  <2>1. n = Len(b.group_count) + 1 /\ n \in Nat
    <3>1. Len(b.group_state) = Len(b.group_count)
      BY <1>1
    <3>2. Len(b.group_state) \in Nat
      BY <1>1
    <3>3. QED
      BY <3>1, <3>2
  <2>2. /\ pr \in Seq(Pair(P)) /\ DOMAIN pr = DOMAIN b.pairs
        /\ \A k \in DOMAIN b.pairs :
              /\ pr[k].key = b.pairs[k].key /\ pr[k].count = b.pairs[k].count
              /\ IF k = s THEN pr[k].last_group = n
                 ELSE /\ pr[k].last_word = b.pairs[k].last_word
                      /\ pr[k].last_group = b.pairs[k].last_group
    BY <2>1, PairWithGroup DEF BookOK
  <2>3. gs \in Seq(Nat) /\ gc \in Seq(Nat \cup {no_position})
    BY <1>1
  <2>4. n \in DOMAIN gc /\ gc[n] = 0
    BY <1>1, <2>1
  <2>5. g = [nb EXCEPT !.pairs = [nb.pairs EXCEPT ![s] = WithGroup(nb.pairs[s], word, n)]]
    BY <1>4 DEF get_word_group, NewGroup
  <2>6. nb.pairs = b.pairs
    <3> HIDE DEF gs, gc
    <3> QED BY DEF BookOK, BookTypeOK
  <2>7. g = d
    <3> HIDE DEF g, gs, gc, n
    <3> QED BY <2>5, <2>6 DEF BookOK, BookTypeOK
  <2> HIDE DEF pr, gs, gc, g, nb, n
  <2>8. BookTypeOK(d, P)
    BY <2>2, <2>3 DEF BookOK, BookTypeOK
  <2>9. /\ d.pairs = pr /\ d.group_state = gs /\ d.group_count = gc
        /\ d.free_head = b.free_head
        /\ d.edge_group = b.edge_group /\ d.left_cache = b.left_cache
        /\ d.right_cache = b.right_cache /\ d.same_cache = b.same_cache /\ d.born = b.born
    BY DEF BookOK, BookTypeOK
  <2> HIDE DEF d
  <2>10. GroupGot(b, d, s, n)
    BY <2>1, <2>2, <2>4, <2>9 DEF GroupGot, gs, gc
  <2>11. d.pairs[s].last_group = n
    BY <2>2, <2>9
  <2>12. QED
    BY <2>7, <2>8, <2>10, <2>11 DEF g
<1>5. QED
  BY <1>2, <1>3, <1>4

\* add_edge keeps the book sound when no edge starts at start yet, and changes the
\* count of its own pair only.
LEMMA AddEdge ==
    ASSUME NEW P, IsFiniteSet(P), NEW b, BookOK(b, P), NEW start \in P,
           b.edge_group[start] = no_position,
           NEW s \in DOMAIN b.pairs, NEW word \in Nat, NEW f \in Nat
    PROVE  LET c == add_edge(b, start, s, word, f)
           IN  /\ BookOK(c, P)
               /\ DOMAIN c.pairs = DOMAIN b.pairs
               /\ \A k \in DOMAIN b.pairs : c.pairs[k].key = b.pairs[k].key
               /\ \A p \in P \ {start} : c.edge_group[p] = b.edge_group[p]
               /\ SameStamps(b, c)
               /\ \A k \in DOMAIN b.pairs \ {s} : c.pairs[k].count = b.pairs[k].count
               /\ EdgeAdded(b, c, start, s, c.pairs[s].last_group)
<1> DEFINE g     == get_word_group(b, s, word)
           group == g.pairs[s].last_group
           n     == IF g.group_count[group] = 0 THEN 1 ELSE 0
           q     == Counted(g.pairs[s], f, n)
           pr    == [g.pairs EXCEPT ![s] = q]
           gc    == [g.group_count EXCEPT ![group] = @ + 1]
           eg    == [g.edge_group EXCEPT ![start] = group]
           a     == [g EXCEPT !.pairs = pr, !.group_count = gc, !.edge_group = eg]
           c     == link_append(a, s, start)
<1>1. BookTypeOK(g, P) /\ GroupGot(b, g, s, group)
  BY WordGroup
<1>2. c = add_edge(b, start, s, word, f)
  BY DEF add_edge
<1> HIDE DEF g
<1>3. /\ g.pairs \in Seq(Pair(P)) /\ g.group_count \in Seq(Nat \cup {no_position})
      /\ g.edge_group \in [P -> Nat \cup {no_position}] /\ s \in DOMAIN g.pairs
      /\ group \in DOMAIN g.group_count /\ g.group_count[group] + 1 \in Nat /\ group \in Nat
  BY <1>1 DEF BookTypeOK, GroupGot
<1>4. g.pairs[s] \in Pair(P)
  BY <1>3
<1>5. /\ q \in Pair(P) /\ q.key = g.pairs[s].key
      /\ q.last_word = g.pairs[s].last_word /\ q.last_group = g.pairs[s].last_group
  <2>1. n \in Nat
    OBVIOUS
  <2> HIDE DEF n
  <2>2. g.pairs[s].count + f \in Nat /\ g.pairs[s].word_count + n \in Nat
    BY <1>4, <2>1 DEF Pair
  <2>3. QED
    BY <1>4, <2>2 DEF Counted, Pair
<1> HIDE DEF q
<1>6. /\ pr \in Seq(Pair(P)) /\ DOMAIN pr = DOMAIN g.pairs
      /\ \A k \in DOMAIN g.pairs : /\ pr[k].key = g.pairs[k].key
                                   /\ k # s => pr[k].count = g.pairs[k].count
                                   /\ pr[k].last_word = g.pairs[k].last_word
                                   /\ pr[k].last_group = g.pairs[k].last_group
  <2>1. \A k \in DOMAIN g.pairs : pr[k] = IF k = s THEN q ELSE g.pairs[k]
    BY <1>3
  <2>2. pr \in Seq(Pair(P))
    BY <1>3, <1>5, SeqUpdate
  <2>3. QED
    BY <1>3, <1>5, <2>1, <2>2
<1>7. gc \in Seq(Nat \cup {no_position})
  BY <1>3, SeqUpdate
<1>8. eg \in [P -> Nat \cup {no_position}]
  BY <1>3
<1> HIDE DEF group, pr, gc, eg
<1>9. BookTypeOK(a, P)
  BY <1>1, <1>6, <1>7, <1>8 DEF BookTypeOK
<1>10. /\ a.pairs = pr /\ a.group_count = gc /\ a.edge_group = eg
       /\ a.group_state = g.group_state /\ a.free_head = g.free_head
       /\ a.left_cache = g.left_cache /\ a.right_cache = g.right_cache
       /\ a.same_cache = g.same_cache /\ a.born = g.born
  BY <1>1 DEF BookTypeOK
<1> HIDE DEF a
<1>11. BookTypeOK(c, P) /\ SameButLists(a, c)
  BY <1>3, <1>6, <1>9, <1>10, LinkAppend
<1> HIDE DEF c
<1>12. /\ c.group_count = gc /\ c.edge_group = eg
       /\ c.group_state = g.group_state /\ c.free_head = g.free_head
       /\ c.left_cache = g.left_cache /\ c.right_cache = g.right_cache
       /\ c.same_cache = g.same_cache /\ c.born = g.born
       /\ DOMAIN c.pairs = DOMAIN b.pairs
       /\ \A k \in DOMAIN b.pairs : /\ c.pairs[k].key = g.pairs[k].key
                                    /\ k # s => c.pairs[k].count = g.pairs[k].count
                                    /\ c.pairs[k].last_word = g.pairs[k].last_word
                                    /\ c.pairs[k].last_group = g.pairs[k].last_group
  BY <1>1, <1>6, <1>10, <1>11 DEF SameButLists, SamePair, GroupGot
<1>13. EdgeAdded(b, c, start, s, group)
  <2>1. /\ c.edge_group = [b.edge_group EXCEPT ![start] = group]
        /\ c.left_cache = b.left_cache /\ c.right_cache = b.right_cache
        /\ c.same_cache = b.same_cache /\ c.born = b.born
        /\ \A k \in DOMAIN b.pairs :
              /\ c.pairs[k].key = b.pairs[k].key
              /\ IF k = s THEN c.pairs[k].last_group = group
                 ELSE /\ c.pairs[k].last_word = b.pairs[k].last_word
                      /\ c.pairs[k].last_group = b.pairs[k].last_group
    BY <1>1, <1>12 DEF GroupGot, eg
  <2>2. b.group_count \in Seq(Nat \cup {no_position})
    BY DEF BookOK, BookTypeOK
  <2>3. \/ JoinsGroup(b, c, s, group)
        \/ RecyclesGroup(b, c, s, group)
        \/ OpensGroup(b, c, s, group)
    <3>1. CASE /\ group \in Used(b) /\ b.group_state[group] = s
               /\ g.group_state = b.group_state /\ g.group_count = b.group_count
               /\ g.free_head = b.free_head
      BY <1>12, <3>1 DEF JoinsGroup, gc
    <3>2. CASE /\ group = b.free_head /\ group # no_position /\ group \in DOMAIN b.group_count
               /\ g.group_state = [b.group_state EXCEPT ![group] = s]
               /\ g.group_count = [b.group_count EXCEPT ![group] = 0]
               /\ g.free_head = b.group_count[group]
      <4>1. gc = [b.group_count EXCEPT ![group] = 1]
        BY <2>2, <3>2 DEF gc
      <4>2. QED
        BY <1>12, <3>2, <4>1 DEF RecyclesGroup
    <3>3. CASE /\ group = Len(b.group_count) + 1
               /\ g.group_state = Append(b.group_state, s)
               /\ g.group_count = Append(b.group_count, 0)
               /\ g.free_head = b.free_head
      <4>1. gc = [Append(b.group_count, 0) EXCEPT ![Len(b.group_count) + 1] = 1]
        <5>1. g.group_count[group] = 0 /\ group = Len(b.group_count) + 1
          BY <2>2, <3>3
        <5>2. gc = [g.group_count EXCEPT ![group] = 1]
          <6> HIDE DEF group
          <6> QED BY <5>1 DEF gc
        <5>3. QED
          BY <3>3, <5>1, <5>2
      <4>2. gc = Append(b.group_count, 1)
        <5> DEFINE S    == Nat \cup {no_position}
                   seq  == b.group_count
                   none == 0
                   one  == 1
        <5>1. seq \in Seq(S) /\ none \in S /\ one \in S
          BY <2>2
        <5> HIDE DEF S, seq, none, one
        <5>2. [Append(seq, none) EXCEPT ![Len(seq) + 1] = one] = Append(seq, one)
          BY <5>1, AppendReplaced
        <5>3. QED
          BY <4>1, <5>2 DEF seq, none, one
      <4>3. QED
        BY <1>12, <3>3, <4>2 DEF OpensGroup
    <3>4. QED
      BY <1>1, <3>1, <3>2, <3>3 DEF GroupGot
  <2>4. QED
    BY <1>12, <2>1, <2>3 DEF EdgeAdded
<1>14. GroupsSound(c)
  BY <1>13, AddedKeepsGroups
<1>15. \A p \in P \ {start} : c.edge_group[p] = b.edge_group[p]
  BY <1>13 DEF EdgeAdded, BookOK, BookTypeOK
<1>16. \A k \in DOMAIN b.pairs : c.pairs[k].key = b.pairs[k].key
  BY <1>13 DEF EdgeAdded
<1>17. SameStamps(b, c)
  BY <1>13 DEF EdgeAdded, SameStamps
<1>18. \A k \in DOMAIN b.pairs \ {s} : c.pairs[k].count = b.pairs[k].count
  BY <1>1, <1>12 DEF GroupGot
<1>19. EdgeAdded(b, c, start, s, c.pairs[s].last_group)
  BY <1>13 DEF EdgeAdded
<1>20. QED
  BY <1>2, <1>11, <1>12, <1>14, <1>15, <1>16, <1>17, <1>18, <1>19 DEF BookOK

\* The book in which build_state finds the pair of a key, and that pair.
BuildBook(b, key) ==
    IF {k \in DOMAIN b.pairs : b.pairs[k].key = key} # {} THEN b ELSE create_pair_state(b, key)

BuildPair(b, key) ==
    IF {k \in DOMAIN b.pairs : b.pairs[k].key = key} # {}
    THEN CHOOSE k \in {k \in DOMAIN b.pairs : b.pairs[k].key = key} : TRUE
    ELSE Len(BuildBook(b, key).pairs)

\* So does build_state's own version of it, which creates the pair it needs.
LEMMA BuildEdge ==
    ASSUME NEW P, IsFiniteSet(P), NEW b, BookOK(b, P), NEW start \in P,
           b.edge_group[start] = no_position,
           NEW V \in SUBSET Nat, KeysIn(b, V), NEW key \in V \X V,
           NEW word \in Nat, NEW f \in Nat
    PROVE  LET e == build_edge(b, start, key, word, f)
           IN  /\ BookOK(e, P) /\ KeysIn(e, V)
               /\ DOMAIN b.pairs \subseteq DOMAIN e.pairs
               /\ \A p \in P \ {start} : e.edge_group[p] = b.edge_group[p]
               /\ EdgeAdded(BuildBook(b, key), e, start, BuildPair(b, key),
                            e.pairs[BuildPair(b, key)].last_group)
<1> DEFINE known == {k \in DOMAIN b.pairs : b.pairs[k].key = key}
           c     == IF known # {} THEN b ELSE create_pair_state(b, key)
           s     == IF known # {} THEN CHOOSE k \in known : TRUE ELSE Len(c.pairs)
           fresh == c.pairs[s].last_word # word
           group == IF fresh THEN Len(c.group_state) + 1 ELSE c.pairs[s].last_group
           gs    == IF fresh THEN Append(c.group_state, s) ELSE c.group_state
           gc    == IF fresh THEN Append(c.group_count, 1)
                    ELSE [c.group_count EXCEPT ![group] = @ + 1]
           n     == IF fresh THEN 1 ELSE 0
           q     == WithGroup(Counted(c.pairs[s], f, n), word, group)
           pr    == [c.pairs EXCEPT ![s] = q]
           eg    == [c.edge_group EXCEPT ![start] = group]
           a     == [c EXCEPT !.pairs = pr, !.group_state = gs, !.group_count = gc, !.edge_group = eg]
           e     == link_append(a, s, start)
<1>1. e = build_edge(b, start, key, word, f)
  BY DEF build_edge
<1>2. BookOK(c, P) /\ KeysIn(c, V) /\ Extends(b, c) /\ s \in DOMAIN c.pairs
  <2>1. CASE known # {}
    <3>1. c = b /\ s \in known
      BY <2>1
    <3>2. QED
      BY <3>1 DEF Extends
  <2>2. CASE known = {}
    <3>1. c = create_pair_state(b, key) /\ s = Len(c.pairs)
      BY <2>2
    <3> HIDE DEF c, s
    <3>2. QED
      BY <3>1, CreatePair
  <2>3. QED
    BY <2>1, <2>2
<1> HIDE DEF known, c, s
<1>3. /\ c.pairs \in Seq(Pair(P)) /\ c.pairs[s] \in Pair(P) /\ s \in Nat
      /\ c.group_state \in Seq(Nat) /\ c.group_count \in Seq(Nat \cup {no_position})
      /\ c.edge_group \in [P -> Nat \cup {no_position}]
      /\ DOMAIN c.group_state = DOMAIN c.group_count /\ no_position \notin Nat
  BY <1>2, PairUpdate, NoPositionAssumption DEF BookOK, BookTypeOK, GroupsSound, IdsInRange
<1>4. Len(c.group_state) = Len(c.group_count) /\ Len(c.group_count) \in Nat
  BY <1>3
<1>5. ~fresh => /\ group \in Used(c) /\ c.group_state[group] = s
                /\ group \in DOMAIN c.group_count /\ c.group_count[group] \in Nat
                /\ group \in Nat
  <2> SUFFICES ASSUME ~fresh
               PROVE  /\ group \in Used(c) /\ c.group_state[group] = s
                      /\ group \in DOMAIN c.group_count /\ c.group_count[group] \in Nat
                      /\ group \in Nat
    OBVIOUS
  <2>1. group = c.pairs[s].last_group /\ c.pairs[s].last_word = word
    OBVIOUS
  <2> HIDE DEF group
  <2>2. group \in Used(c) /\ c.group_state[group] = s
    BY <1>2, <1>3, <2>1 DEF BookOK, GroupsSound, CacheSound
  <2>3. group \in DOMAIN c.group_count /\ c.group_count[group] = Cardinality(Members(c, group))
    BY <1>2, <2>2 DEF BookOK, GroupsSound, UsedCounted, Used
  <2>4. IsFiniteSet(Members(c, group))
    BY <1>3, FS_Subset DEF Members
  <2>5. c.group_count[group] \in Nat
    BY <2>3, <2>4, FS_CardinalityType
  <2>6. group \in Nat
    BY <1>3, <2>3
  <2>7. QED
    BY <2>2, <2>3, <2>5, <2>6
<1>6. group \in Nat
  <2>1. CASE fresh
    <3>1. group = Len(c.group_count) + 1
      BY <1>4, <2>1
    <3> HIDE DEF group
    <3>2. QED
      BY <1>4, <3>1
  <2>2. CASE ~fresh
    BY <1>5, <2>2
  <2>3. QED
    BY <2>1, <2>2
<1>7. q \in Pair(P) /\ q.key = c.pairs[s].key /\ q.last_group = group
  <2>1. n \in Nat
    OBVIOUS
  <2> HIDE DEF n, group
  <2>2. c.pairs[s].count + f \in Nat /\ c.pairs[s].word_count + n \in Nat
    <3>1. c.pairs[s].count \in Nat /\ c.pairs[s].word_count \in Nat
      BY <1>3 DEF Pair
    <3>2. QED
      BY <2>1, <3>1
  <2> DEFINE counted == Counted(c.pairs[s], f, n)
  <2>3. counted \in Pair(P) /\ counted.key = c.pairs[s].key
    BY <1>3, <2>2 DEF Counted, Pair
  <2>4. q = WithGroup(counted, word, group)
    OBVIOUS
  <2> HIDE DEF counted, q
  <2>5. QED
    BY <1>6, <2>3, <2>4 DEF WithGroup, Pair
<1>8. gs \in Seq(Nat)
  BY <1>3
<1>9. gc \in Seq(Nat \cup {no_position})
  <2>1. CASE fresh
    BY <1>3, <2>1
  <2>2. CASE ~fresh
    <3>1. c.group_count[group] + 1 \in Nat
      BY <1>5, <2>2
    <3>2. gc = [c.group_count EXCEPT ![group] = @ + 1]
      BY <2>2
    <3> HIDE DEF gc, group
    <3>3. QED
      BY <1>3, <1>5, <2>2, <3>1, <3>2, SeqUpdate
  <2>3. QED
    BY <2>1, <2>2
<1> HIDE DEF q, group
<1>10. eg \in [P -> Nat \cup {no_position}]
  BY <1>3, <1>6
<1>11. /\ pr \in Seq(Pair(P)) /\ DOMAIN pr = DOMAIN c.pairs
       /\ \A k \in DOMAIN c.pairs :
             /\ pr[k].key = c.pairs[k].key
             /\ IF k = s THEN pr[k].last_group = group
                ELSE /\ pr[k].last_word = c.pairs[k].last_word
                     /\ pr[k].last_group = c.pairs[k].last_group
  <2>1. \A k \in DOMAIN c.pairs : pr[k] = IF k = s THEN q ELSE c.pairs[k]
    BY <1>2, <1>3
  <2>2. pr \in Seq(Pair(P))
    BY <1>2, <1>3, <1>7, SeqUpdate
  <2>3. QED
    BY <1>2, <1>3, <1>7, <2>1, <2>2
<1>12. \/ /\ ~fresh /\ gs = c.group_state
          /\ gc = [c.group_count EXCEPT ![group] = @ + 1]
       \/ /\ fresh /\ group = Len(c.group_count) + 1
          /\ gs = Append(c.group_state, s) /\ gc = Append(c.group_count, 1)
  BY <1>4 DEF group
<1> HIDE DEF gs, gc, pr, eg, fresh
<1>13. BookTypeOK(a, P)
  BY <1>2, <1>8, <1>9, <1>10, <1>11 DEF BookOK, BookTypeOK
<1>14. /\ a.pairs = pr /\ a.group_count = gc /\ a.edge_group = eg
       /\ a.group_state = gs /\ a.free_head = c.free_head
       /\ a.left_cache = c.left_cache /\ a.right_cache = c.right_cache
       /\ a.same_cache = c.same_cache /\ a.born = c.born
  BY <1>2 DEF BookOK, BookTypeOK
<1> HIDE DEF a
<1>15. BookTypeOK(e, P) /\ SameButLists(a, e)
  BY <1>2, <1>11, <1>13, <1>14, LinkAppend
<1> HIDE DEF e
<1>16. /\ e.group_count = gc /\ e.edge_group = eg
       /\ e.group_state = gs /\ e.free_head = c.free_head
       /\ e.left_cache = c.left_cache /\ e.right_cache = c.right_cache
       /\ e.same_cache = c.same_cache /\ e.born = c.born
       /\ DOMAIN e.pairs = DOMAIN c.pairs
       /\ \A k \in DOMAIN c.pairs : /\ e.pairs[k].key = pr[k].key
                                    /\ e.pairs[k].last_word = pr[k].last_word
                                    /\ e.pairs[k].last_group = pr[k].last_group
  BY <1>11, <1>14, <1>15 DEF SameButLists, SamePair
<1>17. \/ JoinsGroup(c, e, s, group)
       \/ RecyclesGroup(c, e, s, group)
       \/ OpensGroup(c, e, s, group)
  BY <1>5, <1>12, <1>16 DEF JoinsGroup, OpensGroup
<1>18. \A k \in DOMAIN c.pairs :
          /\ e.pairs[k].key = c.pairs[k].key
          /\ IF k = s THEN e.pairs[k].last_group = group
             ELSE /\ e.pairs[k].last_word = c.pairs[k].last_word
                  /\ e.pairs[k].last_group = c.pairs[k].last_group
  BY <1>11, <1>16
<1>19. EdgeAdded(c, e, start, s, group)
  BY <1>16, <1>17, <1>18 DEF EdgeAdded, eg
<1>20. c.edge_group = b.edge_group
  BY <1>2 DEF Extends
<1>21. GroupsSound(e)
  BY <1>2, <1>19, <1>20, AddedKeepsGroups
<1>22. KeysIn(e, V)
  BY <1>2, <1>16, <1>18 DEF KeysIn
<1>23. DOMAIN b.pairs \subseteq DOMAIN e.pairs
  BY <1>2, <1>16 DEF Extends
<1>24. \A p \in P \ {start} : e.edge_group[p] = b.edge_group[p]
  BY <1>3, <1>16, <1>20 DEF eg
<1>25. c = BuildBook(b, key) /\ s = BuildPair(b, key)
  BY DEF c, s, known, BuildBook, BuildPair
<1>26. EdgeAdded(c, e, start, s, e.pairs[s].last_group)
  BY <1>2, <1>18, <1>19
<1>27. QED
  BY <1>1, <1>15, <1>21, <1>22, <1>23, <1>24, <1>25, <1>26 DEF BookOK

-----------------------------------------------------------------------------
\* The edges registered in pair s, and the groups they are in.
EdgesOf(b, s) ==
    {p \in DOMAIN b.edge_group :
        b.edge_group[p] # no_position /\ b.group_state[b.edge_group[p]] = s}

GroupsOf(b, s) == {g \in Used(b) : b.group_state[g] = s}

-----------------------------------------------------------------------------
(* The operations field by field.                                          *)

\* The links after the members prev and succ have become neighbours, and after
\* position has become the last member behind tail.
Closed(b, c, prev, succ) ==
    /\ c.pos_next = IF prev = no_position THEN b.pos_next ELSE [b.pos_next EXCEPT ![prev] = succ]
    /\ c.pos_prev = IF succ = no_position THEN b.pos_prev ELSE [b.pos_prev EXCEPT ![succ] = prev]

Appended(b, c, tail, position) ==
    /\ c.pos_prev = [b.pos_prev EXCEPT ![position] = tail]
    /\ c.pos_next = IF tail = no_position
                    THEN [b.pos_next EXCEPT ![position] = no_position]
                    ELSE [b.pos_next EXCEPT ![position] = no_position, ![tail] = position]

LEMMA LinkRemoveFields ==
    ASSUME NEW P, NEW b, BookTypeOK(b, P), NEW s \in DOMAIN b.pairs, NEW p \in P
    PROVE  LET c == link_remove(b, s, p)
           IN  /\ Closed(b, c, b.pos_prev[p], b.pos_next[p])
               /\ c.pairs = [b.pairs EXCEPT ![s] = WithoutMember(@, b.pos_prev[p], b.pos_next[p])]
<1> DEFINE prev == b.pos_prev[p]
           succ == b.pos_next[p]
           nn == IF prev = no_position THEN b.pos_next ELSE [b.pos_next EXCEPT ![prev] = succ]
           np == IF succ = no_position THEN b.pos_prev ELSE [b.pos_prev EXCEPT ![succ] = prev]
           pr == [b.pairs EXCEPT ![s] = WithoutMember(@, prev, succ)]
           c  == [b EXCEPT !.pos_next = nn, !.pos_prev = np, !.pairs = pr]
<1>1. link_remove(b, s, p) = c
  BY DEF link_remove
<1>2. c.pos_next = nn /\ c.pos_prev = np /\ c.pairs = pr
  <2> HIDE DEF nn, np, pr
  <2> QED BY DEF BookTypeOK
<1> HIDE DEF c
<1>3. QED
  BY <1>1, <1>2 DEF Closed

LEMMA LinkAppendFields ==
    ASSUME NEW P, NEW b, BookTypeOK(b, P), NEW s \in DOMAIN b.pairs, NEW p \in P
    PROVE  LET c == link_append(b, s, p)
           IN  /\ Appended(b, c, b.pairs[s].positions_tail, p)
               /\ c.pairs = [b.pairs EXCEPT ![s] = WithTail(@, p)]
<1> DEFINE tail == b.pairs[s].positions_tail
           np == [b.pos_prev EXCEPT ![p] = tail]
           nn == IF tail = no_position
                 THEN [b.pos_next EXCEPT ![p] = no_position]
                 ELSE [b.pos_next EXCEPT ![p] = no_position, ![tail] = p]
           pr == [b.pairs EXCEPT ![s] = WithTail(@, p)]
           c  == [b EXCEPT !.pos_prev = np, !.pos_next = nn, !.pairs = pr]
<1>1. link_append(b, s, p) = c
  BY DEF link_append
<1>2. c.pos_next = nn /\ c.pos_prev = np /\ c.pairs = pr
  <2> HIDE DEF nn, np, pr
  <2> QED BY DEF BookTypeOK
<1> HIDE DEF c
<1>3. QED
  BY <1>1, <1>2 DEF Appended

\* What remove_edge does to the pair of the edge.
PairReduced(q, r, f, prev, succ, last) ==
    /\ r.count = q.count - f
    /\ r.word_count = IF last THEN q.word_count - 1 ELSE q.word_count
    /\ r.positions_head = IF prev = no_position THEN succ ELSE q.positions_head
    /\ r.positions_tail = IF succ = no_position THEN prev ELSE q.positions_tail

LEMMA PairReducedFields ==
    ASSUME NEW P, NEW q \in Pair(P), NEW f, NEW prev, NEW succ, NEW g
    PROVE  LET m == WithoutMember([q EXCEPT !.count = @ - f], prev, succ)
           IN  /\ PairReduced(q, m, f, prev, succ, FALSE)
               /\ PairReduced(q, WithoutGroup(m, g), f, prev, succ, TRUE)
BY DEF Pair, WithoutMember, WithoutGroup, PairReduced

LEMMA RemoveShape ==
    ASSUME NEW P, IsFiniteSet(P), NEW b, BookOK(b, P), NEW start \in P, NEW f \in Nat,
           ~RemoveAborts(b, start, f)
    PROVE  LET c    == remove_edge(b, start, f)
               g    == b.edge_group[start]
               s    == b.group_state[g]
               last == b.group_count[g] = 1
           IN  /\ s \in DOMAIN b.pairs
               /\ Closed(b, c, b.pos_prev[start], b.pos_next[start])
               /\ \A k \in DOMAIN b.pairs \ {s} : c.pairs[k] = b.pairs[k]
               /\ PairReduced(b.pairs[s], c.pairs[s], f, b.pos_prev[start], b.pos_next[start], last)
<1> DEFINE c    == remove_edge(b, start, f)
           g    == b.edge_group[start]
           s    == b.group_state[g]
           last == b.group_count[g] = 1
           prev == b.pos_prev[start]
           succ == b.pos_next[start]
           q    == [b.pairs[s] EXCEPT !.count = @ - f]
           pr   == [b.pairs EXCEPT ![s] = q]
           gc   == [b.group_count EXCEPT ![g] = @ - 1]
           eg   == [b.edge_group EXCEPT ![start] = no_position]
           b1   == [b EXCEPT !.pairs = pr, !.group_count = gc, !.edge_group = eg]
           u    == link_remove(b1, s, start)
           m    == WithoutMember(q, prev, succ)
           um   == [pr EXCEPT ![s] = m]
<1>1. g \in DOMAIN b.group_count /\ s \in DOMAIN b.pairs /\ g \in Nat /\ DOMAIN b.edge_group = P
  BY DEF RemoveAborts, BookOK, BookTypeOK, GroupsSound, IdsInRange
<1>2. b.pairs[s] \in Pair(P) /\ b.pairs \in Seq(Pair(P))
  BY <1>1, PairUpdate DEF BookOK, BookTypeOK
<1>3. u.pairs = um /\ Closed(b, u, prev, succ)
  <2> DEFINE nn == IF prev = no_position THEN b.pos_next ELSE [b.pos_next EXCEPT ![prev] = succ]
             np == IF succ = no_position THEN b.pos_prev ELSE [b.pos_prev EXCEPT ![succ] = prev]
             v  == [b1 EXCEPT !.pos_next = nn, !.pos_prev = np, !.pairs = um]
  <2>1. /\ b1.pairs = pr /\ b1.pos_prev = b.pos_prev /\ b1.pos_next = b.pos_next
    <3> HIDE DEF pr, gc, eg
    <3> QED BY DEF BookOK, BookTypeOK
  <2>2. pr[s] = q
    BY <1>1
  <2>3. u = [b1 EXCEPT !.pos_next = IF b1.pos_prev[start] = no_position THEN @
                                    ELSE [@ EXCEPT ![b1.pos_prev[start]] = b1.pos_next[start]],
                       !.pos_prev = IF b1.pos_next[start] = no_position THEN @
                                    ELSE [@ EXCEPT ![b1.pos_next[start]] = b1.pos_prev[start]],
                       !.pairs[s] = WithoutMember(@, b1.pos_prev[start], b1.pos_next[start])]
    BY DEF link_remove
  <2>4. u = v
    <3> HIDE DEF pr, gc, eg, b1, s, q
    <3> QED BY <2>1, <2>2, <2>3
  <2>5. v.pairs = um /\ v.pos_next = nn /\ v.pos_prev = np
    <3> HIDE DEF pr, gc, eg, nn, np, um
    <3> QED BY DEF BookOK, BookTypeOK
  <2> HIDE DEF u, v, um, b1
  <2>6. QED
    BY <2>4, <2>5 DEF Closed
<1>4. c = IF last THEN FreeGroup(u, g) ELSE u
  BY DEF remove_edge, Unlinked
<1>5. CASE ~last
  <2>1. c = u /\ c.pairs = um
    BY <1>3, <1>4, <1>5
  <2>2. um[s] = m /\ \A k \in DOMAIN b.pairs \ {s} : um[k] = b.pairs[k]
    BY <1>1
  <2>3. PairReduced(b.pairs[s], m, f, prev, succ, FALSE)
    <3> DEFINE bs == b.pairs[s]
    <3>1. bs \in Pair(P)
      BY <1>2
    <3> HIDE DEF bs
    <3>2. PairReduced(bs, WithoutMember([bs EXCEPT !.count = @ - f], prev, succ), f, prev, succ, FALSE)
      BY <3>1, PairReducedFields
    <3>3. QED
      BY <3>2 DEF bs
  <2> HIDE DEF um, m, u, c
  <2>4. c.pairs[s] = m /\ \A k \in DOMAIN b.pairs \ {s} : c.pairs[k] = b.pairs[k]
    BY <2>1, <2>2
  <2>5. Closed(b, c, prev, succ)
    BY <1>3, <2>1
  <2>6. PairReduced(b.pairs[s], c.pairs[s], f, prev, succ, last)
    BY <1>5, <2>3, <2>4 DEF PairReduced
  <2>7. QED
    BY <1>1, <2>4, <2>5, <2>6 DEF c
<1>6. CASE last
  <2> DEFINE x  == WithoutGroup(m, g)
             ux == [u.pairs EXCEPT ![s] = x]
  <2>1. c.pairs = ux /\ c.pos_next = u.pos_next /\ c.pos_prev = u.pos_prev
    <3>1. c = FreeGroup(u, g)
      BY <1>4, <1>6
    <3>2. SameButLists(b1, u) /\ BookTypeOK(u, P) /\ b1.group_state = b.group_state
      <4>1. BookTypeOK(b1, P) /\ b1.pairs = pr /\ b1.group_state = b.group_state
        <5>1. q \in Pair(P)
          <6> DEFINE bs == b.pairs[s]
                     n  == bs.count - f
          <6>1. bs \in Pair(P) /\ ~(bs.count < f)
            BY <1>2 DEF RemoveAborts
          <6>2. n \in Nat
            BY <6>1 DEF Pair
          <6> HIDE DEF bs, n
          <6>3. [bs EXCEPT !.count = n] \in Pair(P)
            BY <6>1, <6>2, PairCount
          <6>4. QED
            BY <6>3 DEF bs, n
        <5> HIDE DEF q
        <5>2. pr \in Seq(Pair(P))
          BY <1>1, <1>2, <5>1, SeqUpdate
        <5>3. gc \in Seq(Nat \cup {no_position})
          <6>1. b.group_count \in Seq(Nat \cup {no_position})
            BY DEF BookOK, BookTypeOK
          <6>2. b.group_count[g] = 1
            BY <1>6
          <6>3. b.group_count[g] - 1 \in Nat
            BY <6>2
          <6>4. QED
            BY <1>1, <6>1, <6>3, SeqUpdate
        <5>4. eg \in [P -> Nat \cup {no_position}]
          BY <1>1 DEF BookOK, BookTypeOK
        <5> HIDE DEF pr, gc, eg
        <5>5. QED
          BY <5>2, <5>3, <5>4 DEF BookOK, BookTypeOK
      <4> HIDE DEF b1
      <4>2. DOMAIN pr = DOMAIN b.pairs
        BY <1>1, <1>2
      <4>3. QED
        BY <1>1, <4>1, <4>2, LinkRemove
    <3>3. u.group_state = b.group_state
      BY <3>2 DEF SameButLists
    <3> DEFINE c2 == [u EXCEPT !.pairs[s] = WithoutGroup(@, g),
                               !.group_count[g] = u.free_head, !.free_head = g]
    <3>4. c = c2
      <4> HIDE DEF u, c
      <4> QED BY <3>1, <3>3 DEF FreeGroup
    <3>5. u.pairs[s] = m
      <4>1. um[s] = m
        BY <1>1, <1>2
      <4> HIDE DEF u, um, m
      <4> QED BY <1>3, <4>1
    <3> HIDE DEF u, c, m
    <3>6. c2.pairs = [u.pairs EXCEPT ![s] = WithoutGroup(u.pairs[s], g)]
          /\ c2.pos_next = u.pos_next /\ c2.pos_prev = u.pos_prev
      BY <3>2 DEF BookTypeOK
    <3>7. QED
      BY <3>4, <3>5, <3>6
  <2>2. um[s] = m /\ (\A k \in DOMAIN b.pairs \ {s} : um[k] = b.pairs[k]) /\ DOMAIN um = DOMAIN b.pairs
    BY <1>1, <1>2
  <2>3. PairReduced(b.pairs[s], x, f, prev, succ, TRUE)
    <3> DEFINE bs == b.pairs[s]
    <3>1. bs \in Pair(P)
      BY <1>2
    <3> HIDE DEF bs, g
    <3>2. PairReduced(bs, WithoutGroup(WithoutMember([bs EXCEPT !.count = @ - f], prev, succ), g),
                      f, prev, succ, TRUE)
      BY <3>1, PairReducedFields
    <3>3. QED
      BY <3>2 DEF bs
  <2> HIDE DEF um, m, u, c, x
  <2>4. c.pairs[s] = x /\ \A k \in DOMAIN b.pairs \ {s} : c.pairs[k] = b.pairs[k]
    BY <1>1, <1>3, <2>1, <2>2
  <2>5. Closed(b, c, prev, succ)
    BY <1>3, <2>1 DEF Closed
  <2>6. PairReduced(b.pairs[s], c.pairs[s], f, prev, succ, last)
    BY <1>6, <2>3, <2>4 DEF PairReduced
  <2>7. QED
    BY <1>1, <2>4, <2>5, <2>6 DEF c
<1>7. QED
  BY <1>5, <1>6

LEMMA WordGroupFields ==
    ASSUME NEW P, IsFiniteSet(P), NEW b, BookOK(b, P), NEW s \in DOMAIN b.pairs, NEW word \in Nat
    PROVE  LET g     == get_word_group(b, s, word)
               group == g.pairs[s].last_group
           IN  /\ g.pos_next = b.pos_next /\ g.pos_prev = b.pos_prev
               /\ \A k \in DOMAIN b.pairs \ {s} : g.pairs[k] = b.pairs[k]
               /\ IF b.pairs[s].last_word = word
                  THEN g = b /\ group \in Used(b)
                  ELSE /\ g.pairs[s] = WithGroup(b.pairs[s], word, group)
                       /\ g.group_count[group] = 0 /\ group \notin Used(b)
<1> DEFINE g     == get_word_group(b, s, word)
           group == g.pairs[s].last_group
           fh    == b.free_head
           bs    == b.pairs[s]
<1>1. /\ b.pairs \in Seq(Pair(P)) /\ bs \in Pair(P) /\ s \in Nat
      /\ b.group_state \in Seq(Nat) /\ b.group_count \in Seq(Nat \cup {no_position})
      /\ DOMAIN b.group_state = DOMAIN b.group_count /\ no_position \notin Nat
  BY PairUpdate, NoPositionAssumption DEF BookOK, BookTypeOK, GroupsSound, IdsInRange
<1>2. CASE bs.last_word = word
  <2>1. g = b
    BY <1>2 DEF get_word_group
  <2>2. bs.last_group \in Used(b)
    BY <1>1, <1>2 DEF BookOK, GroupsSound, CacheSound
  <2>3. QED
    BY <1>2, <2>1, <2>2
<1>3. CASE bs.last_word # word
  <2> DEFINE new == NewGroup(b, s)
             n   == new.group
             x   == WithGroup(bs, word, n)
             pr  == [b.pairs EXCEPT ![s] = x]
             gs  == new.book.group_state
             gc  == new.book.group_count
             d   == [b EXCEPT !.pairs = pr, !.group_state = gs, !.group_count = gc,
                              !.free_head = new.book.free_head]
  <2>1. /\ new.book = [b EXCEPT !.group_state = gs, !.group_count = gc,
                                !.free_head = new.book.free_head]
        /\ n \notin Used(b) /\ gc[n] = 0
    <3>1. CASE fh # no_position
      <4> DEFINE gs1 == [b.group_state EXCEPT ![fh] = s]
                 gc1 == [b.group_count EXCEPT ![fh] = 0]
                 f1  == b.group_count[fh]
                 nb  == [b EXCEPT !.free_head = f1, !.group_count = gc1, !.group_state = gs1]
      <4>1. new = [book |-> nb, group |-> fh]
        BY <3>1 DEF NewGroup
      <4>2. fh \in Unused(b)
        BY <3>1 DEF BookOK, GroupsSound, FreeListSound
      <4>3. fh \in DOMAIN b.group_count /\ fh \notin Used(b)
        BY <4>2 DEF Unused
      <4>4. gc1[fh] = 0
        BY <4>3
      <4>5. new.book = nb /\ n = fh
        BY <4>1
      <4> HIDE DEF gs1, gc1, f1, fh, new
      <4>6. nb.group_state = gs1 /\ nb.group_count = gc1 /\ nb.free_head = f1
        BY DEF BookOK, BookTypeOK
      <4>7. nb = [b EXCEPT !.group_state = gs1, !.group_count = gc1, !.free_head = f1]
        BY DEF BookOK, BookTypeOK
      <4>8. QED
        BY <4>3, <4>4, <4>5, <4>6, <4>7
    <3>2. CASE fh = no_position
      <4> DEFINE gs1 == Append(b.group_state, s)
                 gc1 == Append(b.group_count, 0)
                 g1  == Len(b.group_state) + 1
                 nb  == [b EXCEPT !.group_state = gs1, !.group_count = gc1]
      <4>1. new = [book |-> nb, group |-> g1]
        BY <3>2 DEF NewGroup
      <4>2. g1 \notin DOMAIN b.group_count /\ gc1[g1] = 0
        BY <1>1
      <4>3. g1 \notin Used(b)
        BY <4>2 DEF Used
      <4>4. new.book = nb /\ n = g1
        BY <4>1
      <4> HIDE DEF gs1, gc1, g1, new
      <4>5. nb.group_state = gs1 /\ nb.group_count = gc1 /\ nb.free_head = b.free_head
        BY DEF BookOK, BookTypeOK
      <4>6. nb = [b EXCEPT !.group_state = gs1, !.group_count = gc1, !.free_head = b.free_head]
        BY DEF BookOK, BookTypeOK
      <4>7. QED
        BY <4>2, <4>3, <4>4, <4>5, <4>6
    <3>3. QED
      BY <3>1, <3>2
  <2>2. g = [new.book EXCEPT !.pairs[s] = WithGroup(@, word, n)]
    BY <1>3 DEF get_word_group
  <2>3. g = d
    <3> HIDE DEF new, gs, gc, g
    <3>1. new.book.pairs = b.pairs
      BY <2>1 DEF BookOK, BookTypeOK
    <3>2. QED
      BY <2>1, <2>2, <3>1 DEF BookOK, BookTypeOK
  <2>4. d.pairs = pr /\ d.pos_next = b.pos_next /\ d.pos_prev = b.pos_prev /\ d.group_count = gc
    <3> HIDE DEF pr, gs, gc, new
    <3> QED BY DEF BookOK, BookTypeOK
  <2>5. pr[s] = x /\ \A k \in DOMAIN b.pairs \ {s} : pr[k] = b.pairs[k]
    <3> HIDE DEF x
    <3> QED BY <1>1
  <2>6. x.last_group = n
    <3> HIDE DEF n
    <3> QED BY <1>1 DEF WithGroup, Pair
  <2> HIDE DEF d, pr, g
  <2>7. group = n
    BY <2>3, <2>4, <2>5, <2>6
  <2> HIDE DEF group, n
  <2>8. QED
    BY <1>3, <2>1, <2>3, <2>4, <2>5, <2>7 DEF g, group
<1>4. QED
  BY <1>2, <1>3

\* What a new edge does to its pair.
PairExtended(q, r, f, word, group, start) ==
    /\ r.key = q.key
    /\ r.count = q.count + f
    /\ r.word_count = q.word_count + (IF q.last_word = word THEN 0 ELSE 1)
    /\ r.last_word = word /\ r.last_group = group
    /\ r.positions_head = IF q.positions_tail = no_position THEN start ELSE q.positions_head
    /\ r.positions_tail = start

LEMMA PairExtendedFields ==
    ASSUME NEW P, NEW q \in Pair(P), NEW f, NEW start, NEW word, NEW group
    PROVE  /\ q.last_word = word /\ q.last_group = group
                => PairExtended(q, WithTail(Counted(q, f, 0), start), f, word, group, start)
           /\ q.last_word # word
                => /\ PairExtended(q, WithTail(Counted(WithGroup(q, word, group), f, 1), start),
                                   f, word, group, start)
                   /\ PairExtended(q, WithTail(WithGroup(Counted(q, f, 1), word, group), start),
                                   f, word, group, start)
<1>1. q.word_count + 0 = q.word_count
  BY DEF Pair
<1>2. QED
  BY <1>1 DEF Pair, WithTail, Counted, WithGroup, PairExtended

\* The edge at start is a new member of pair s: it joins the pair's group in its
\* word, or gets a group that had no member, and it ends the pair's list.
EdgeInserted(b, c, start, s, word, f) ==
    LET group == c.pairs[s].last_group
    IN  /\ EdgeAdded(b, c, start, s, group)
        /\ Appended(b, c, b.pairs[s].positions_tail, start)
        /\ \A k \in DOMAIN b.pairs \ {s} : c.pairs[k] = b.pairs[k]
        /\ PairExtended(b.pairs[s], c.pairs[s], f, word, group, start)
        /\ IF b.pairs[s].last_word = word
           THEN group = b.pairs[s].last_group /\ group \in Used(b)
           ELSE group \notin Used(b)

LEMMA AddShape ==
    ASSUME NEW P, IsFiniteSet(P), NEW b, BookOK(b, P), NEW start \in P,
           b.edge_group[start] = no_position,
           NEW s \in DOMAIN b.pairs, NEW word \in Nat, NEW f \in Nat
    PROVE  EdgeInserted(b, add_edge(b, start, s, word, f), start, s, word, f)
<1> DEFINE g     == get_word_group(b, s, word)
           group == g.pairs[s].last_group
           n     == IF g.group_count[group] = 0 THEN 1 ELSE 0
           q     == Counted(g.pairs[s], f, n)
           pr    == [g.pairs EXCEPT ![s] = q]
           gc    == [g.group_count EXCEPT ![group] = @ + 1]
           eg    == [g.edge_group EXCEPT ![start] = group]
           a     == [g EXCEPT !.pairs = pr, !.group_count = gc, !.edge_group = eg]
           c     == link_append(a, s, start)
           bs    == b.pairs[s]
<1>1. BookTypeOK(g, P) /\ GroupGot(b, g, s, group)
  BY WordGroup
<1>2. /\ g.pos_next = b.pos_next /\ g.pos_prev = b.pos_prev
      /\ \A k \in DOMAIN b.pairs \ {s} : g.pairs[k] = b.pairs[k]
      /\ IF b.pairs[s].last_word = word
         THEN g = b /\ group \in Used(b)
         ELSE /\ g.pairs[s] = WithGroup(b.pairs[s], word, group)
              /\ g.group_count[group] = 0 /\ group \notin Used(b)
  BY WordGroupFields
<1>3. c = add_edge(b, start, s, word, f)
  BY DEF add_edge
<1>4. EdgeAdded(b, c, start, s, c.pairs[s].last_group)
  BY <1>3, AddEdge
<1>5. bs \in Pair(P)
  BY PairUpdate DEF BookOK
<1>6. q = IF bs.last_word = word THEN Counted(bs, f, 0) ELSE Counted(WithGroup(bs, word, group), f, 1)
  <2>1. CASE bs.last_word = word
    <3>1. g = b /\ group \in Used(b)
      BY <1>2, <2>1
    <3>2. b.group_count[group] # 0
      <4>1. IsFiniteSet(Members(b, group)) /\ Members(b, group) # {}
        BY <3>1, FS_Subset DEF Members, Used, BookOK, BookTypeOK
      <4>2. Cardinality(Members(b, group)) # 0
        BY <4>1, FS_EmptySet
      <4>3. QED
        BY <3>1, <4>2 DEF BookOK, GroupsSound, UsedCounted
    <3>3. n = 0
      BY <3>1, <3>2
    <3> HIDE DEF n
    <3>4. QED
      BY <2>1, <3>1, <3>3
  <2>2. CASE bs.last_word # word
    <3>1. n = 1 /\ g.pairs[s] = WithGroup(bs, word, group)
      BY <1>2, <2>2
    <3> HIDE DEF n, g, group
    <3>2. QED
      BY <2>2, <3>1
  <2>3. QED
    BY <2>1, <2>2
<1> HIDE DEF g
<1>7. /\ g.pairs \in Seq(Pair(P)) /\ s \in DOMAIN g.pairs /\ DOMAIN g.pairs = DOMAIN b.pairs
  BY <1>1 DEF BookTypeOK, GroupGot
<1>8. pr[s] = q /\ (\A k \in DOMAIN b.pairs \ {s} : pr[k] = g.pairs[k]) /\ DOMAIN pr = DOMAIN b.pairs
  <2> HIDE DEF q
  <2> QED BY <1>7
<1>9. bs.last_word = word => group = bs.last_group
  BY <1>2 DEF group
<1>10. q.positions_tail = bs.positions_tail
  <2> HIDE DEF q, group, bs
  <2> QED BY <1>5, <1>6 DEF Counted, WithGroup, Pair
<1>11. /\ BookTypeOK(a, P) /\ a.pairs = pr /\ a.pos_next = b.pos_next /\ a.pos_prev = b.pos_prev
  <2>1. /\ g.group_count \in Seq(Nat \cup {no_position})
        /\ g.edge_group \in [P -> Nat \cup {no_position}]
        /\ group \in DOMAIN g.group_count /\ g.group_count[group] + 1 \in Nat /\ group \in Nat
    BY <1>1 DEF BookTypeOK, GroupGot
  <2>2. q \in Pair(P)
    <3>1. n \in Nat /\ g.pairs[s] \in Pair(P)
      BY <1>7
    <3> HIDE DEF n
    <3>2. g.pairs[s].count + f \in Nat /\ g.pairs[s].word_count + n \in Nat
      BY <3>1 DEF Pair
    <3>3. QED
      BY <3>1, <3>2 DEF Counted, Pair
  <2> HIDE DEF q
  <2>3. pr \in Seq(Pair(P))
    BY <1>7, <2>2, SeqUpdate
  <2>4. gc \in Seq(Nat \cup {no_position})
    BY <2>1, SeqUpdate
  <2>5. eg \in [P -> Nat \cup {no_position}]
    BY <2>1
  <2> HIDE DEF pr, gc, eg
  <2>6. QED
    BY <1>1, <1>2, <2>3, <2>4, <2>5 DEF BookTypeOK
<1>12. /\ Appended(a, c, a.pairs[s].positions_tail, start)
       /\ c.pairs = [a.pairs EXCEPT ![s] = WithTail(@, start)]
  <2>1. s \in DOMAIN a.pairs
    BY <1>8, <1>11
  <2> HIDE DEF a
  <2>2. QED
    BY <1>11, <2>1, LinkAppendFields
<1>13. Appended(b, c, bs.positions_tail, start)
  <2> HIDE DEF a, c, pr, q
  <2> QED BY <1>8, <1>10, <1>11, <1>12 DEF Appended
<1>14. /\ \A k \in DOMAIN b.pairs \ {s} : c.pairs[k] = b.pairs[k]
       /\ c.pairs[s] = WithTail(q, start)
  <2> HIDE DEF a, c, pr, q
  <2> QED BY <1>2, <1>8, <1>11, <1>12
<1>15. PairExtended(bs, WithTail(q, start), f, word, group, start)
  <2> HIDE DEF q, group, bs
  <2> QED BY <1>5, <1>6, <1>9, PairExtendedFields
<1> HIDE DEF c, q, bs
<1>16. c.pairs[s].last_group = group
  BY <1>14, <1>15 DEF PairExtended
<1>17. EdgeInserted(b, c, start, s, word, f)
  <2> HIDE DEF group
  <2> QED BY <1>2, <1>4, <1>9, <1>13, <1>14, <1>15, <1>16 DEF EdgeInserted, bs
<1>18. QED
  BY <1>3, <1>17

\* build_state inserts its edge the same way, in a book that has the pair.
LEMMA BuildShape ==
    ASSUME NEW P, IsFiniteSet(P), NEW b, BookOK(b, P), NEW start \in P,
           b.edge_group[start] = no_position,
           NEW V \in SUBSET Nat, KeysIn(b, V), NEW key \in V \X V,
           NEW word \in Nat, NEW f \in Nat
    PROVE  LET c == BuildBook(b, key)
               s == BuildPair(b, key)
           IN  /\ BookOK(c, P) /\ c.edge_group = b.edge_group
               /\ s \in DOMAIN c.pairs /\ c.pairs[s].key = key
               /\ EdgeInserted(c, build_edge(b, start, key, word, f), start, s, word, f)
<1> DEFINE known == {k \in DOMAIN b.pairs : b.pairs[k].key = key}
           c     == IF known # {} THEN b ELSE create_pair_state(b, key)
           s     == IF known # {} THEN CHOOSE k \in known : TRUE ELSE Len(c.pairs)
           cs    == c.pairs[s]
           fresh == cs.last_word # word
           group == IF fresh THEN Len(c.group_state) + 1 ELSE cs.last_group
           gs    == IF fresh THEN Append(c.group_state, s) ELSE c.group_state
           gc    == IF fresh THEN Append(c.group_count, 1)
                    ELSE [c.group_count EXCEPT ![group] = @ + 1]
           n     == IF fresh THEN 1 ELSE 0
           q     == WithGroup(Counted(cs, f, n), word, group)
           pr    == [c.pairs EXCEPT ![s] = q]
           eg    == [c.edge_group EXCEPT ![start] = group]
           a     == [c EXCEPT !.pairs = pr, !.group_state = gs, !.group_count = gc, !.edge_group = eg]
           e     == link_append(a, s, start)
<1>1. e = build_edge(b, start, key, word, f)
  BY DEF build_edge
<1>2. c = BuildBook(b, key) /\ s = BuildPair(b, key)
  BY DEF BuildBook, BuildPair
<1>3. EdgeAdded(c, e, start, s, e.pairs[s].last_group)
  <2> HIDE DEF c, s, e
  <2> QED BY <1>1, <1>2, BuildEdge
<1>4. BookOK(c, P) /\ Extends(b, c) /\ s \in DOMAIN c.pairs /\ c.pairs[s].key = key
  <2>1. CASE known # {}
    <3>1. c = b /\ s \in known
      BY <2>1
    <3>2. QED
      BY <3>1 DEF Extends
  <2>2. CASE known = {}
    <3> DEFINE d == create_pair_state(b, key)
    <3>1. c = d /\ s = Len(d.pairs)
      BY <2>2
    <3>2. d.pairs = Append(b.pairs, NewPair(key)) /\ b.pairs \in Seq(Pair(P))
      BY DEF create_pair_state, BookOK, BookTypeOK
    <3>3. BookOK(d, P) /\ Extends(b, d)
      BY CreatePair
    <3> HIDE DEF d, c, s
    <3>4. Len(d.pairs) \in DOMAIN d.pairs /\ d.pairs[Len(d.pairs)] = NewPair(key)
      BY <3>2
    <3>5. QED
      BY <3>1, <3>3, <3>4 DEF NewPair
  <2>3. QED
    BY <2>1, <2>2
<1> HIDE DEF known, c, s
<1>5. /\ c.pairs \in Seq(Pair(P)) /\ cs \in Pair(P) /\ s \in Nat
      /\ c.group_state \in Seq(Nat) /\ c.group_count \in Seq(Nat \cup {no_position})
      /\ c.edge_group \in [P -> Nat \cup {no_position}]
      /\ DOMAIN c.group_state = DOMAIN c.group_count /\ no_position \notin Nat
  BY <1>4, PairUpdate, NoPositionAssumption DEF BookOK, BookTypeOK, GroupsSound, IdsInRange
<1> HIDE DEF cs
<1>6. IF fresh THEN group = Len(c.group_state) + 1 /\ group \notin Used(c)
      ELSE group = cs.last_group /\ group \in Used(c)
  <2>1. CASE fresh
    <3>1. group = Len(c.group_state) + 1
      BY <2>1
    <3>2. group \notin DOMAIN c.group_count
      <4> HIDE DEF group
      <4> QED BY <1>5, <3>1
    <3>3. QED
      BY <2>1, <3>1, <3>2 DEF Used
  <2>2. CASE ~fresh
    <3>1. group = cs.last_group /\ cs.last_word = word
      BY <2>2
    <3>2. cs.last_group \in Used(c)
      BY <1>4, <1>5, <3>1 DEF BookOK, GroupsSound, CacheSound, cs
    <3>3. QED
      BY <2>2, <3>1, <3>2
  <2>3. QED
    BY <2>1, <2>2
<1>7. group \in Nat
  BY <1>5, <1>6 DEF Used
<1> HIDE DEF group
<1>8. q \in Pair(P) /\ q.positions_tail = cs.positions_tail
  <2>1. n \in Nat
    OBVIOUS
  <2> HIDE DEF n
  <2>2. cs.count + f \in Nat /\ cs.word_count + n \in Nat
    BY <1>5, <2>1 DEF Pair
  <2> DEFINE counted == Counted(cs, f, n)
  <2>3. counted \in Pair(P) /\ counted.positions_tail = cs.positions_tail
    BY <1>5, <2>2 DEF Counted, Pair
  <2> HIDE DEF counted
  <2>4. QED
    BY <1>7, <2>3 DEF WithGroup, Pair, counted
<1>9. PairExtended(cs, WithTail(q, start), f, word, group, start)
  <2>1. CASE fresh
    BY <1>5, <2>1, PairExtendedFields
  <2>2. CASE ~fresh
    <3>1. cs.last_word = word /\ cs.last_group = group /\ n = 0
      BY <1>6, <2>2
    <3>2. WithGroup(Counted(cs, f, n), word, group) = Counted(cs, f, 0)
      <4> HIDE DEF n
      <4> QED BY <1>5, <3>1 DEF WithGroup, Counted, Pair
    <3>3. PairExtended(cs, WithTail(Counted(cs, f, 0), start), f, word, group, start)
      BY <1>5, <3>1, PairExtendedFields
    <3>4. QED
      BY <3>2, <3>3
  <2>3. QED
    BY <2>1, <2>2
<1>10. pr \in Seq(Pair(P)) /\ pr[s] = q /\ (\A k \in DOMAIN c.pairs \ {s} : pr[k] = c.pairs[k])
       /\ DOMAIN pr = DOMAIN c.pairs
  <2> HIDE DEF q
  <2> QED BY <1>4, <1>5, <1>8, SeqUpdate
<1>11. gs \in Seq(Nat) /\ gc \in Seq(Nat \cup {no_position}) /\ eg \in [P -> Nat \cup {no_position}]
  <2>1. gs \in Seq(Nat)
    BY <1>5
  <2>2. gc \in Seq(Nat \cup {no_position})
    <3>1. CASE fresh
      BY <1>5, <3>1
    <3>2. CASE ~fresh
      <4>1. group \in DOMAIN c.group_count /\ c.group_count[group] = Cardinality(Members(c, group))
        BY <1>4, <1>6, <3>2 DEF BookOK, GroupsSound, UsedCounted, Used
      <4>2. IsFiniteSet(Members(c, group))
        BY <1>5, FS_Subset DEF Members
      <4>3. c.group_count[group] + 1 \in Nat
        BY <4>1, <4>2, FS_CardinalityType
      <4>4. [c.group_count EXCEPT ![group] = c.group_count[group] + 1] \in Seq(Nat \cup {no_position})
        BY <1>5, <4>1, <4>3, SeqUpdate
      <4>5. QED
        BY <3>2, <4>4
    <3>3. QED
      BY <3>1, <3>2
  <2>3. eg \in [P -> Nat \cup {no_position}]
    BY <1>5, <1>7
  <2>4. QED
    BY <2>1, <2>2, <2>3
<1>12. /\ BookTypeOK(a, P) /\ a.pairs = pr /\ a.pos_next = c.pos_next /\ a.pos_prev = c.pos_prev
  <2> HIDE DEF pr, gs, gc, eg
  <2> QED BY <1>4, <1>10, <1>11 DEF BookOK, BookTypeOK
<1>13. /\ Appended(a, e, a.pairs[s].positions_tail, start)
       /\ e.pairs = [a.pairs EXCEPT ![s] = WithTail(@, start)]
  <2>1. s \in DOMAIN a.pairs
    BY <1>4, <1>10, <1>12
  <2> HIDE DEF a
  <2>2. QED
    BY <1>12, <2>1, LinkAppendFields
<1>14. Appended(c, e, cs.positions_tail, start)
  <2> HIDE DEF a, pr, q, e
  <2> QED BY <1>8, <1>10, <1>12, <1>13 DEF Appended
<1>15. /\ \A k \in DOMAIN c.pairs \ {s} : e.pairs[k] = c.pairs[k]
       /\ e.pairs[s] = WithTail(q, start)
  <2> HIDE DEF a, pr, q, e
  <2> QED BY <1>4, <1>10, <1>12, <1>13
<1> HIDE DEF e, q
<1>16. e.pairs[s].last_group = group
  BY <1>9, <1>15 DEF PairExtended, q
<1>17. EdgeInserted(c, e, start, s, word, f)
  <2>1. EdgeAdded(c, e, start, s, group)
    BY <1>3, <1>16
  <2>2. PairExtended(cs, e.pairs[s], f, word, group, start)
    BY <1>9, <1>15 DEF q
  <2>3. QED
    BY <1>6, <1>14, <1>15, <1>16, <2>1, <2>2 DEF EdgeInserted, cs
<1>18. QED
  BY <1>1, <1>2, <1>4, <1>17 DEF Extends

-----------------------------------------------------------------------------
(* Lists: the members of a pair in the order of their ranks.               *)

FirstOf(E, rank, p) == p \in E /\ \A r \in E : rank[p] <= rank[r]

LastOf(E, rank, p) == p \in E /\ \A r \in E : rank[r] <= rank[p]

\* q is the next member after p.
Adjacent(E, rank, p, q) ==
    /\ p \in E /\ q \in E /\ rank[p] < rank[q]
    /\ \A r \in E : rank[r] <= rank[p] \/ rank[q] <= rank[r]

\* The links lead from each member to the next and to the one before.
Linked(E, rank, nx, pv) ==
    /\ \A p, q \in E : rank[p] = rank[q] => p = q
    /\ \A p \in E : IF nx[p] = no_position THEN LastOf(E, rank, p) ELSE Adjacent(E, rank, p, nx[p])
    /\ \A p \in E : IF pv[p] = no_position THEN FirstOf(E, rank, p) ELSE Adjacent(E, rank, pv[p], p)

\* A pair's ends name its first and its last member, if it has any.
EndsAt(E, rank, pair) ==
    E # {} => FirstOf(E, rank, pair.positions_head) /\ LastOf(E, rank, pair.positions_tail)

EndsEmpty(E, pair) ==
    E = {} => pair.positions_head = no_position /\ pair.positions_tail = no_position

\* The members of one word are together and from left to right, and those of the
\* last word come last.
Sorted(E, rank, last_word) ==
    /\ \A p, q \in E : p[1] = q[1] /\ p[2] < q[2] => rank[p] < rank[q]
    /\ \A p, q, r \in E : rank[p] < rank[q] /\ rank[q] < rank[r] /\ p[1] = r[1] => q[1] = p[1]
    /\ last_word # no_position =>
         \A p, q \in E : p[1] = last_word /\ rank[p] < rank[q] => q[1] = p[1]

LinksTyped(P, rank, nx, pv) ==
    /\ no_position \notin P /\ rank \in [P -> Nat]
    /\ nx \in [P -> P \cup {no_position}] /\ pv \in [P -> P \cup {no_position}]

LEMMA LinksClose ==
    ASSUME NEW P, NEW E \in SUBSET P, NEW rank, NEW nx, NEW pv, LinksTyped(P, rank, nx, pv),
           Linked(E, rank, nx, pv), NEW p \in E,
           NEW nx2, nx2 = IF pv[p] = no_position THEN nx ELSE [nx EXCEPT ![pv[p]] = nx[p]],
           NEW pv2, pv2 = IF nx[p] = no_position THEN pv ELSE [pv EXCEPT ![nx[p]] = pv[p]]
    PROVE  Linked(E \ {p}, rank, nx2, pv2)
<1> DEFINE D == E \ {p}
           a == pv[p]
           z == nx[p]
<1> USE DEF LinksTyped
<1>1. /\ \A q \in E : rank[q] \in Nat
      /\ IF a = no_position THEN FirstOf(E, rank, p) ELSE Adjacent(E, rank, a, p)
      /\ IF z = no_position THEN LastOf(E, rank, p) ELSE Adjacent(E, rank, p, z)
      /\ \A q \in E : rank[p] = rank[q] => p = q
  BY DEF Linked
<1>2. /\ a # no_position => a \in D
      /\ z # no_position => z \in D
  BY <1>1 DEF Adjacent
<1>3. \A q \in D : IF nx2[q] = no_position THEN LastOf(D, rank, q) ELSE Adjacent(D, rank, q, nx2[q])
  <2> SUFFICES ASSUME NEW q \in D
               PROVE  IF nx2[q] = no_position THEN LastOf(D, rank, q) ELSE Adjacent(D, rank, q, nx2[q])
    OBVIOUS
  <2>1. CASE q = a
    <3>1. nx2[q] = z
      BY <1>2, <2>1
    <3>2. CASE z = no_position
      BY <1>1, <1>2, <2>1, <3>1, <3>2 DEF LastOf, Adjacent
    <3>3. CASE z # no_position
      BY <1>1, <1>2, <2>1, <3>1, <3>3 DEF Adjacent
    <3>4. QED
      BY <3>2, <3>3
  <2>2. CASE q # a
    <3>1. nx2[q] = nx[q]
      BY <2>2
    <3>2. IF nx[q] = no_position THEN LastOf(E, rank, q) ELSE Adjacent(E, rank, q, nx[q])
      BY DEF Linked
    <3>3. nx[q] # p
      <4>1. SUFFICES ASSUME nx[q] = p PROVE FALSE
        OBVIOUS
      <4>2. Adjacent(E, rank, q, p)
        BY <3>2, <4>1
      <4>3. a # no_position /\ Adjacent(E, rank, a, p)
        BY <1>1, <4>2 DEF Adjacent, FirstOf
      <4>4. rank[q] = rank[a]
        BY <1>1, <4>2, <4>3 DEF Adjacent
      <4>5. QED
        BY <2>2, <4>3, <4>4 DEF Linked, Adjacent
    <3>4. QED
      BY <3>1, <3>2, <3>3 DEF LastOf, Adjacent
  <2>3. QED
    BY <2>1, <2>2
<1>4. \A q \in D : IF pv2[q] = no_position THEN FirstOf(D, rank, q) ELSE Adjacent(D, rank, pv2[q], q)
  <2> SUFFICES ASSUME NEW q \in D
               PROVE  IF pv2[q] = no_position THEN FirstOf(D, rank, q) ELSE Adjacent(D, rank, pv2[q], q)
    OBVIOUS
  <2>1. CASE q = z
    <3>1. pv2[q] = a
      BY <1>2, <2>1
    <3>2. CASE a = no_position
      BY <1>1, <1>2, <2>1, <3>1, <3>2 DEF FirstOf, Adjacent
    <3>3. CASE a # no_position
      BY <1>1, <1>2, <2>1, <3>1, <3>3 DEF Adjacent
    <3>4. QED
      BY <3>2, <3>3
  <2>2. CASE q # z
    <3>1. pv2[q] = pv[q]
      BY <2>2
    <3>2. IF pv[q] = no_position THEN FirstOf(E, rank, q) ELSE Adjacent(E, rank, pv[q], q)
      BY DEF Linked
    <3>3. pv[q] # p
      <4>1. SUFFICES ASSUME pv[q] = p PROVE FALSE
        OBVIOUS
      <4>2. Adjacent(E, rank, p, q)
        BY <3>2, <4>1
      <4>3. z # no_position /\ Adjacent(E, rank, p, z)
        BY <1>1, <4>2 DEF Adjacent, LastOf
      <4>4. rank[q] = rank[z]
        BY <1>1, <4>2, <4>3 DEF Adjacent
      <4>5. QED
        BY <2>2, <4>3, <4>4 DEF Linked, Adjacent
    <3>4. QED
      BY <3>1, <3>2, <3>3 DEF FirstOf, Adjacent
  <2>3. QED
    BY <2>1, <2>2
<1>5. QED
  BY <1>3, <1>4 DEF Linked

\* A pair's ends after the member between prev and succ has left.
EndsClosed(pair, pair2, prev, succ) ==
    /\ pair2.positions_head = IF prev = no_position THEN succ ELSE pair.positions_head
    /\ pair2.positions_tail = IF succ = no_position THEN prev ELSE pair.positions_tail

LEMMA EndsClose ==
    ASSUME NEW P, NEW E \in SUBSET P, NEW rank, NEW nx, NEW pv, LinksTyped(P, rank, nx, pv),
           Linked(E, rank, nx, pv), NEW p \in E,
           NEW pair, NEW pair2, EndsClosed(pair, pair2, pv[p], nx[p])
    PROVE  /\ EndsAt(E, rank, pair) => EndsAt(E \ {p}, rank, pair2)
           /\ EndsEmpty(E \ {p}, pair2)
<1> USE DEF LinksTyped, EndsClosed
<1>1. /\ \A q \in E : rank[q] \in Nat
      /\ IF pv[p] = no_position THEN FirstOf(E, rank, p) ELSE Adjacent(E, rank, pv[p], p)
      /\ IF nx[p] = no_position THEN LastOf(E, rank, p) ELSE Adjacent(E, rank, p, nx[p])
      /\ \A q \in E : rank[p] = rank[q] => p = q
  BY DEF Linked
<1>2. EndsEmpty(E \ {p}, pair2)
  BY <1>1 DEF EndsEmpty, Adjacent
<1>3. ASSUME EndsAt(E, rank, pair), E \ {p} # {}
      PROVE  FirstOf(E \ {p}, rank, pair2.positions_head)
  <2>1. CASE pv[p] = no_position
    <3>1. nx[p] # no_position
      BY <1>1, <1>3, <2>1 DEF FirstOf, LastOf
    <3>2. QED
      BY <1>1, <2>1, <3>1 DEF FirstOf, Adjacent
  <2>2. CASE pv[p] # no_position
    BY <1>1, <1>3, <2>2 DEF EndsAt, FirstOf, Adjacent
  <2>3. QED
    BY <2>1, <2>2
<1>4. ASSUME EndsAt(E, rank, pair), E \ {p} # {}
      PROVE  LastOf(E \ {p}, rank, pair2.positions_tail)
  <2>1. CASE nx[p] = no_position
    <3>1. pv[p] # no_position
      BY <1>1, <1>4, <2>1 DEF FirstOf, LastOf
    <3>2. QED
      BY <1>1, <2>1, <3>1 DEF LastOf, Adjacent
  <2>2. CASE nx[p] # no_position
    BY <1>1, <1>4, <2>2 DEF EndsAt, LastOf, Adjacent
  <2>3. QED
    BY <2>1, <2>2
<1>5. QED
  BY <1>2, <1>3, <1>4 DEF EndsAt

LEMMA SortedSubset ==
    ASSUME NEW E, NEW D \in SUBSET E, NEW rank, NEW last, Sorted(E, rank, last),
           NEW last2 \in {last, no_position}
    PROVE  Sorted(D, rank, last2)
BY DEF Sorted

\* A rank behind every member's.
Behind(E, rank, n) == \A q \in E : rank[q] < n

LEMMA LinksAppend ==
    ASSUME NEW P, NEW E \in SUBSET P, NEW rank, NEW b, NEW c,
           LinksTyped(P, rank, b.pos_next, b.pos_prev),
           Linked(E, rank, b.pos_next, b.pos_prev), NEW p \in P, p \notin E,
           NEW pair, EndsAt(E, rank, pair), EndsEmpty(E, pair),
           NEW n \in Nat, Behind(E, rank, n), Appended(b, c, pair.positions_tail, p)
    PROVE  Linked(E \cup {p}, [rank EXCEPT ![p] = n], c.pos_next, c.pos_prev)
<1> DEFINE D == E \cup {p}
           t == pair.positions_tail
           nx == b.pos_next
           pv == b.pos_prev
           nx2 == c.pos_next
           pv2 == c.pos_prev
           k == [rank EXCEPT ![p] = n]
<1> USE DEF LinksTyped
<1>1. k[p] = n /\ \A q \in E : k[q] = rank[q] /\ rank[q] \in Nat /\ rank[q] < n
  BY DEF Behind
<1>2. IF E = {} THEN t = no_position ELSE LastOf(E, rank, t)
  BY DEF EndsAt, EndsEmpty
<1>3. t # no_position => t \in E /\ t # p
  BY <1>2 DEF LastOf
<1>4. nx2[p] = no_position /\ pv2[p] = t
  BY <1>3 DEF Appended
<1>5. \A q \in E : pv2[q] = pv[q] /\ nx2[q] = IF q = t THEN p ELSE nx[q]
  BY <1>3 DEF Appended
<1>0. LinksTyped(P, rank, nx, pv) /\ Linked(E, rank, nx, pv)
  OBVIOUS
<1> HIDE DEF k, nx, pv, nx2, pv2
<1>6. \A q, r \in D : k[q] = k[r] => q = r
  BY <1>0, <1>1 DEF Linked
<1>7. \A q \in D : IF nx2[q] = no_position THEN LastOf(D, k, q) ELSE Adjacent(D, k, q, nx2[q])
  <2> SUFFICES ASSUME NEW q \in D
               PROVE  IF nx2[q] = no_position THEN LastOf(D, k, q) ELSE Adjacent(D, k, q, nx2[q])
    OBVIOUS
  <2>1. CASE q = p
    BY <1>1, <1>4, <2>1 DEF LastOf
  <2>2. CASE q # p /\ q = t
    BY <1>1, <1>2, <1>5, <2>2 DEF LastOf, Adjacent
  <2>3. CASE q # p /\ q # t
    <3>1. q \in E /\ nx2[q] = nx[q]
      BY <1>5, <2>3
    <3>2. LastOf(E, rank, t)
      BY <1>2, <3>1
    <3>3. nx[q] # no_position
      <4>1. SUFFICES ASSUME nx[q] = no_position PROVE FALSE
        OBVIOUS
      <4>2. LastOf(E, rank, q)
        BY <1>0, <3>1, <4>1 DEF Linked
      <4>3. rank[q] = rank[t] /\ t \in E
        BY <1>1, <3>2, <4>2 DEF LastOf
      <4>4. QED
        BY <1>0, <2>3, <3>1, <4>3 DEF Linked
    <3>4. Adjacent(E, rank, q, nx[q])
      BY <1>0, <3>1, <3>3 DEF Linked
    <3>5. QED
      BY <1>1, <3>1, <3>3, <3>4 DEF Adjacent
  <2>4. QED
    BY <2>1, <2>2, <2>3
<1>8. \A q \in D : IF pv2[q] = no_position THEN FirstOf(D, k, q) ELSE Adjacent(D, k, pv2[q], q)
  <2> SUFFICES ASSUME NEW q \in D
               PROVE  IF pv2[q] = no_position THEN FirstOf(D, k, q) ELSE Adjacent(D, k, pv2[q], q)
    OBVIOUS
  <2>1. CASE q = p
    BY <1>1, <1>2, <1>3, <1>4, <2>1 DEF FirstOf, LastOf, Adjacent
  <2>2. CASE q # p
    <3>1. q \in E /\ pv2[q] = pv[q]
      BY <1>5, <2>2
    <3>2. IF pv[q] = no_position THEN FirstOf(E, rank, q) ELSE Adjacent(E, rank, pv[q], q)
      BY <1>0, <3>1 DEF Linked
    <3>3. QED
      BY <1>1, <3>1, <3>2 DEF FirstOf, Adjacent
  <2>3. QED
    BY <2>1, <2>2
<1>9. QED
  BY <1>6, <1>7, <1>8 DEF Linked, k, nx2, pv2

LEMMA EndsAppend ==
    ASSUME NEW P, NEW E \in SUBSET P, NEW rank \in [P -> Nat], NEW p \in P, p \notin E,
           no_position \notin P,
           NEW pair, EndsAt(E, rank, pair), EndsEmpty(E, pair),
           NEW n \in Nat, Behind(E, rank, n), NEW pair2,
           pair2.positions_head = IF pair.positions_tail = no_position THEN p ELSE pair.positions_head,
           pair2.positions_tail = p
    PROVE  EndsAt(E \cup {p}, [rank EXCEPT ![p] = n], pair2)
<1>1. E # {} => pair.positions_tail # no_position
  BY DEF EndsAt, LastOf
<1>2. QED
  BY <1>1 DEF EndsAt, EndsEmpty, FirstOf, LastOf, Behind

\* A member of the last word that is further right than the others of its word.
LEMMA SortedAppend ==
    ASSUME NEW P \in SUBSET (Nat \X Nat), NEW E \in SUBSET P, NEW rank \in [P -> Nat],
           NEW p \in P, p \notin E, NEW last, Sorted(E, rank, last), no_position \notin Nat,
           \A q \in E : q[1] = p[1] => q[2] < p[2] /\ last = p[1],
           NEW n \in Nat, Behind(E, rank, n)
    PROVE  Sorted(E \cup {p}, [rank EXCEPT ![p] = n], p[1])
<1> DEFINE D == E \cup {p}
           k == [rank EXCEPT ![p] = n]
<1>1. k[p] = n /\ \A q \in E : k[q] = rank[q] /\ rank[q] \in Nat /\ rank[q] < n
  BY DEF Behind
<1>2. \A q \in D : q[1] \in Nat /\ q[2] \in Nat
  OBVIOUS
<1> HIDE DEF k
<1>3. \A q, r \in D : q[1] = r[1] /\ q[2] < r[2] => k[q] < k[r]
  BY <1>1, <1>2 DEF Sorted
<1>4. \A q, r \in E : q[1] = p[1] /\ rank[q] < rank[r] => r[1] = q[1]
  BY <1>2 DEF Sorted
<1>5. \A q, r, u \in D : k[q] < k[r] /\ k[r] < k[u] /\ q[1] = u[1] => r[1] = q[1]
  <2> SUFFICES ASSUME NEW q \in D, NEW r \in D, NEW u \in D,
                      k[q] < k[r], k[r] < k[u], q[1] = u[1]
               PROVE  r[1] = q[1]
    OBVIOUS
  <2>1. q # p /\ r # p
    BY <1>1
  <2>2. CASE u = p
    BY <1>1, <1>4, <2>1, <2>2
  <2>3. CASE u # p
    BY <1>1, <2>1, <2>3 DEF Sorted
  <2>4. QED
    BY <2>2, <2>3
<1>6. \A q, r \in D : q[1] = p[1] /\ k[q] < k[r] => r[1] = q[1]
  BY <1>1, <1>4
<1>7. QED
  BY <1>3, <1>5, <1>6 DEF Sorted, k

-----------------------------------------------------------------------------
(* What is registered in a book: counts, groups, lists.                    *)

\* The key of the pair that the edge at p is registered in.
KeyOf(b, p) ==
    IF b.edge_group[p] = no_position THEN no_position
    ELSE b.pairs[b.group_state[b.edge_group[p]]].key

\* The counts of a pair are what counting its edges and its groups afresh gives.
CountsSound(b, F) ==
    \A s \in DOMAIN b.pairs : /\ b.pairs[s].count = Weight(EdgesOf(b, s), F)
                              /\ b.pairs[s].word_count = Cardinality(GroupsOf(b, s))

\* Two edges share a group exactly if they are the same pair in the same word.
GroupsPerWord(b) ==
    \A p, q \in DOMAIN b.edge_group :
        b.edge_group[p] # no_position /\ b.edge_group[q] # no_position =>
            (b.edge_group[p] = b.edge_group[q] <=>
                b.group_state[b.edge_group[p]] = b.group_state[b.edge_group[q]] /\ p[1] = q[1])

\* The group a pair has in its one-slot cache is the one of its last word.
LastGroups(b) ==
    \A s \in DOMAIN b.pairs :
        b.pairs[s].last_word # no_position =>
            \A p \in Members(b, b.pairs[s].last_group) : p[1] = b.pairs[s].last_word

\* The lists, ordered by the ranks; those of the pairs in S have their ends.
ListsSound(b, S, rank) ==
    \A s \in DOMAIN b.pairs :
        /\ Linked(EdgesOf(b, s), rank, b.pos_next, b.pos_prev)
        /\ Sorted(EdgesOf(b, s), rank, b.pairs[s].last_word)
        /\ EndsEmpty(EdgesOf(b, s), b.pairs[s])
        /\ s \in S => EndsAt(EdgesOf(b, s), rank, b.pairs[s])

Ordered(b, P, S) == \E rank \in [P -> Nat] : ListsSound(b, S, rank)

\* The positions of an input.
Slots(P) == P \subseteq Nat \X Nat /\ no_position \notin P /\ IsFiniteSet(P)

Exact(b, F) == CountsSound(b, F) /\ GroupsPerWord(b) /\ LastGroups(b)

LEMMA GroupFacts ==
    ASSUME NEW P, IsFiniteSet(P), NEW b, BookOK(b, P)
    PROVE  /\ DOMAIN b.edge_group = P /\ no_position \notin Nat
           /\ \A p \in P : b.edge_group[p] # no_position =>
                 /\ b.edge_group[p] \in Used(b) /\ b.edge_group[p] \in DOMAIN b.group_state
                 /\ b.group_state[b.edge_group[p]] \in DOMAIN b.pairs
           /\ IsFiniteSet(Used(b)) /\ Used(b) \subseteq DOMAIN b.group_count
           /\ \A g \in Used(b) : /\ b.group_count[g] = Cardinality(Members(b, g))
                                 /\ b.group_count[g] \in Nat \ {0}
           /\ \A s : /\ EdgesOf(b, s) \in SUBSET P /\ IsFiniteSet(EdgesOf(b, s))
                     /\ IsFiniteSet(GroupsOf(b, s)) /\ Cardinality(GroupsOf(b, s)) \in Nat
<1>1. DOMAIN b.edge_group = P /\ no_position \notin Nat /\ b.group_count \in Seq(Nat \cup {no_position})
  BY NoPositionAssumption DEF BookOK, BookTypeOK
<1>2. \A p \in P : b.edge_group[p] # no_position =>
         /\ b.edge_group[p] \in Used(b) /\ b.edge_group[p] \in DOMAIN b.group_state
         /\ b.group_state[b.edge_group[p]] \in DOMAIN b.pairs
  BY <1>1 DEF BookOK, GroupsSound, IdsInRange, Used, Members
<1>3. Used(b) \subseteq DOMAIN b.group_count
  BY DEF Used
<1>4. IsFiniteSet(DOMAIN b.group_count)
  <2>1. DOMAIN b.group_count = 1..Len(b.group_count) /\ Len(b.group_count) \in Nat
    BY <1>1
  <2>2. IsFiniteSet(1..Len(b.group_count))
    BY <2>1, FS_Interval
  <2>3. QED
    BY <2>1, <2>2
<1>5. IsFiniteSet(Used(b))
  BY <1>3, <1>4, FS_Subset
<1>6. \A g \in Used(b) : /\ b.group_count[g] = Cardinality(Members(b, g))
                         /\ b.group_count[g] \in Nat \ {0}
  <2> TAKE g \in Used(b)
  <2>1. b.group_count[g] = Cardinality(Members(b, g))
    BY DEF BookOK, GroupsSound, UsedCounted
  <2>2. IsFiniteSet(Members(b, g)) /\ Members(b, g) # {}
    BY <1>1, FS_Subset DEF Members, Used
  <2>3. QED
    BY <2>1, <2>2, FS_CardinalityType, FS_EmptySet
<1>7. \A s : EdgesOf(b, s) \in SUBSET P /\ IsFiniteSet(EdgesOf(b, s))
  BY <1>1, FS_Subset DEF EdgesOf
<1>8. \A s : IsFiniteSet(GroupsOf(b, s)) /\ Cardinality(GroupsOf(b, s)) \in Nat
  BY <1>5, FS_Subset, FS_CardinalityType DEF GroupsOf
<1>9. QED
  BY <1>1, <1>2, <1>3, <1>5, <1>6, <1>7, <1>8

LEMMA RemovedSets ==
    ASSUME NEW P, IsFiniteSet(P), NEW b, BookOK(b, P), NEW start \in P,
           b.edge_group[start] # no_position, NEW c, EdgeRemoved(b, c, start)
    PROVE  LET g == b.edge_group[start]
               s == b.group_state[g]
           IN  /\ EdgesOf(c, s) = EdgesOf(b, s) \ {start} /\ start \in EdgesOf(b, s)
               /\ \A k : k # s => EdgesOf(c, k) = EdgesOf(b, k) /\ start \notin EdgesOf(b, k)
               /\ \A p \in P : KeyOf(c, p) = IF p = start THEN no_position ELSE KeyOf(b, p)
               /\ \A h \in Nat : Members(c, h) = Members(b, h) \ {start}
               /\ Used(c) = IF b.group_count[g] = 1 THEN Used(b) \ {g} ELSE Used(b)
<1> DEFINE g == b.edge_group[start]
           s == b.group_state[g]
<1>1. /\ DOMAIN b.edge_group = P /\ no_position \notin Nat /\ g \in Used(b)
      /\ \A p \in P : b.edge_group[p] # no_position => b.group_state[b.edge_group[p]] \in DOMAIN b.pairs
      /\ b.group_count[g] = Cardinality(Members(b, g))
      /\ b.edge_group \in [P -> Nat \cup {no_position}]
  <2>1. b.edge_group \in [P -> Nat \cup {no_position}]
    BY DEF BookOK, BookTypeOK
  <2>2. QED
    BY <2>1, GroupFacts
<1>2. /\ c.edge_group = [b.edge_group EXCEPT ![start] = no_position]
      /\ c.group_state = b.group_state /\ DOMAIN c.group_count = DOMAIN b.group_count
      /\ DOMAIN c.pairs = DOMAIN b.pairs
      /\ \A k \in DOMAIN b.pairs : c.pairs[k].key = b.pairs[k].key
  BY DEF EdgeRemoved
<1>3. /\ DOMAIN c.edge_group = P
      /\ \A p \in P : c.edge_group[p] = IF p = start THEN no_position ELSE b.edge_group[p]
  BY <1>1, <1>2
<1>4. \A k : EdgesOf(c, k) = EdgesOf(b, k) \ {start}
  BY <1>1, <1>2, <1>3 DEF EdgesOf
<1>5. start \in EdgesOf(b, s) /\ \A k : k # s => start \notin EdgesOf(b, k)
  BY <1>1 DEF EdgesOf
<1>6. \A p \in P : KeyOf(c, p) = IF p = start THEN no_position ELSE KeyOf(b, p)
  BY <1>1, <1>2, <1>3 DEF KeyOf
<1>7. \A h \in Nat : Members(c, h) = Members(b, h) \ {start}
  BY <1>1, <1>3 DEF Members
<1>8. start \in Members(b, g) /\ g \in Nat /\ \A h : h # g => start \notin Members(b, h)
  BY <1>1 DEF Members
<1>9. Members(b, g) \ {start} = {} <=> b.group_count[g] = 1
  <2> DEFINE M == Members(b, g)
  <2>1. IsFiniteSet(M) /\ start \in M
    BY <1>1, <1>8, FS_Subset DEF Members
  <2> HIDE DEF M
  <2>2. IsFiniteSet(M \ {start}) /\ Cardinality(M \ {start}) = Cardinality(M) - 1
    BY <2>1, FS_RemoveElement
  <2>3. Cardinality(M \ {start}) = 0 <=> M \ {start} = {}
    BY <2>2, FS_EmptySet
  <2>4. Cardinality(M) \in Nat
    BY <2>1, FS_CardinalityType
  <2>5. QED
    BY <1>1, <2>2, <2>3, <2>4 DEF M
<1>10. DOMAIN b.group_count \subseteq Nat
  BY DEF BookOK, BookTypeOK
<1>11. Used(c) = IF b.group_count[g] = 1 THEN Used(b) \ {g} ELSE Used(b)
  <2>1. \A h \in DOMAIN b.group_count : h # g => Members(c, h) = Members(b, h)
    BY <1>7, <1>8, <1>10
  <2>2. Members(c, g) = {} <=> b.group_count[g] = 1
    BY <1>7, <1>8, <1>9
  <2>3. Members(b, g) # {} /\ g \in DOMAIN b.group_count
    BY <1>1, <1>8 DEF Used
  <2>4. QED
    BY <1>2, <2>1, <2>2, <2>3 DEF Used
<1>12. QED
  BY <1>4, <1>5, <1>6, <1>7, <1>11

\* A registered edge can always be taken out, and the counts stay exact.
LEMMA RemoveAllowed ==
    ASSUME NEW P, IsFiniteSet(P), NEW b, BookOK(b, P), NEW F \in [P -> Nat], Exact(b, F),
           NEW start \in P, b.edge_group[start] # no_position
    PROVE  ~RemoveAborts(b, start, F[start])
<1> DEFINE g == b.edge_group[start]
           s == b.group_state[g]
           E == EdgesOf(b, s)
<1>1. /\ g \in Used(b) /\ s \in DOMAIN b.pairs /\ DOMAIN b.edge_group = P
      /\ b.group_count[g] \in Nat \ {0} /\ E \in SUBSET P /\ IsFiniteSet(E)
      /\ IsFiniteSet(GroupsOf(b, s)) /\ Cardinality(GroupsOf(b, s)) \in Nat
  BY GroupFacts
<1>2. b.pairs[s].count = Weight(E, F) /\ b.pairs[s].word_count = Cardinality(GroupsOf(b, s))
  BY <1>1 DEF Exact, CountsSound
<1>3. start \in E
  BY <1>1 DEF EdgesOf
<1> HIDE DEF E
<1>4. F[start] <= Weight(E, F) /\ F[start] \in Nat /\ Weight(E, F) \in Nat
  <2>1. F[start] <= Weight(E, F) /\ F[start] \in Nat
    BY <1>1, <1>3, WeightRemove
  <2>2. Weight(E, F) \in Nat
    BY <1>1, WeightedFinite
  <2>3. QED
    BY <2>1, <2>2
<1>5. b.pairs[s].word_count # 0
  <2>1. GroupsOf(b, s) # {}
    BY <1>1 DEF GroupsOf
  <2>2. QED
    BY <1>1, <1>2, <2>1, FS_EmptySet
<1>6. b.group_count[g] # 0 /\ ~(b.pairs[s].count < F[start])
  BY <1>1, <1>2, <1>4
<1>7. QED
  BY <1>5, <1>6 DEF RemoveAborts

LEMMA RemoveCounts ==
    ASSUME NEW P, IsFiniteSet(P), NEW b, BookOK(b, P), NEW F \in [P -> Nat], Exact(b, F),
           NEW start \in P, b.edge_group[start] # no_position
    PROVE  CountsSound(remove_edge(b, start, F[start]), F)
<1> DEFINE g == b.edge_group[start]
           s == b.group_state[g]
           f == F[start]
           c == remove_edge(b, start, f)
           last == b.group_count[g] = 1
<1>1. ~RemoveAborts(b, start, f) /\ f \in Nat
  BY RemoveAllowed
<1>2. BookTypeOK(c, P) /\ EdgeRemoved(b, c, start)
  BY <1>1, RemoveFields
<1>3. /\ s \in DOMAIN b.pairs
      /\ \A k \in DOMAIN b.pairs \ {s} : c.pairs[k] = b.pairs[k]
      /\ PairReduced(b.pairs[s], c.pairs[s], f, b.pos_prev[start], b.pos_next[start], last)
  BY <1>1, RemoveShape
<1>4. /\ EdgesOf(c, s) = EdgesOf(b, s) \ {start} /\ start \in EdgesOf(b, s)
      /\ \A k : k # s => EdgesOf(c, k) = EdgesOf(b, k)
      /\ Used(c) = IF last THEN Used(b) \ {g} ELSE Used(b)
  BY <1>2, RemovedSets
<1>5. /\ EdgesOf(b, s) \in SUBSET P /\ IsFiniteSet(EdgesOf(b, s))
      /\ IsFiniteSet(GroupsOf(b, s)) /\ Cardinality(GroupsOf(b, s)) \in Nat /\ g \in Used(b)
  BY GroupFacts
<1> HIDE DEF c, last
<1>6. c.group_state = b.group_state /\ DOMAIN c.pairs = DOMAIN b.pairs
  BY <1>2 DEF EdgeRemoved
<1>7. c.pairs[s].count = Weight(EdgesOf(c, s), F)
  <2>1. Weight(EdgesOf(b, s) \ {start}, F) = Weight(EdgesOf(b, s), F) - F[start]
    <3> DEFINE E == EdgesOf(b, s)
    <3>1. E \in SUBSET P /\ IsFiniteSet(E) /\ start \in E
      BY <1>4, <1>5
    <3> HIDE DEF E
    <3>2. Weight(E \ {start}, F) = Weight(E, F) - F[start]
      BY <3>1, WeightRemove
    <3>3. QED
      BY <3>2 DEF E
  <2>2. b.pairs[s].count = Weight(EdgesOf(b, s), F)
    BY <1>3 DEF Exact, CountsSound
  <2>3. QED
    BY <1>3, <1>4, <2>1, <2>2 DEF PairReduced
<1>8. c.pairs[s].word_count = Cardinality(GroupsOf(c, s))
  <2>1. b.pairs[s].word_count = Cardinality(GroupsOf(b, s))
    BY <1>3 DEF Exact, CountsSound
  <2>2. CASE last
    <3> DEFINE G == GroupsOf(b, s)
    <3>1. GroupsOf(c, s) = G \ {g} /\ g \in G /\ IsFiniteSet(G)
      BY <1>4, <1>5, <1>6, <2>2 DEF GroupsOf
    <3> HIDE DEF G, g
    <3>2. Cardinality(G \ {g}) = Cardinality(G) - 1
      BY <3>1, FS_RemoveElement
    <3>3. QED
      BY <1>3, <2>1, <2>2, <3>1, <3>2 DEF PairReduced, G
  <2>3. CASE ~last
    <3>1. GroupsOf(c, s) = GroupsOf(b, s)
      BY <1>4, <1>6, <2>3 DEF GroupsOf
    <3>2. QED
      BY <1>3, <2>1, <2>3, <3>1 DEF PairReduced
  <2>4. QED
    BY <2>2, <2>3
<1>9. ASSUME NEW k \in DOMAIN b.pairs \ {s}
      PROVE  /\ c.pairs[k].count = Weight(EdgesOf(c, k), F)
             /\ c.pairs[k].word_count = Cardinality(GroupsOf(c, k))
  <2>1. GroupsOf(c, k) = GroupsOf(b, k)
    BY <1>4, <1>6 DEF GroupsOf
  <2>2. QED
    BY <1>3, <1>4, <2>1 DEF Exact, CountsSound
<1>10. CountsSound(c, F)
  BY <1>6, <1>7, <1>8, <1>9 DEF CountsSound
<1>11. QED
  BY <1>10 DEF c

\* The book c registers what b does but for the edge at start; a pair that still has
\* edges in its last word has not forgotten it.
EdgeTaken(b, c, start) ==
    LET s == b.group_state[b.edge_group[start]]
    IN  /\ s \in DOMAIN b.pairs /\ start \in EdgesOf(b, s)
        /\ EdgesOf(c, s) = EdgesOf(b, s) \ {start}
        /\ \A k : k # s => EdgesOf(c, k) = EdgesOf(b, k) /\ start \notin EdgesOf(b, k)
        /\ \A p \in DOMAIN b.edge_group : KeyOf(c, p) = IF p = start THEN no_position ELSE KeyOf(b, p)
        /\ \A k \in DOMAIN b.pairs : \A q \in EdgesOf(c, k) :
              b.pairs[k].last_word = q[1] => c.pairs[k].last_word = q[1]

LEMMA RemoveExact ==
    ASSUME NEW P, Slots(P), NEW b, BookOK(b, P), NEW F \in [P -> Nat], Exact(b, F),
           NEW start \in P, b.edge_group[start] # no_position
    PROVE  LET c == remove_edge(b, start, F[start])
           IN  /\ BookOK(c, P) /\ Exact(c, F)
               /\ EdgeRemoved(b, c, start) /\ EdgeTaken(b, c, start)
<1> DEFINE g == b.edge_group[start]
           s == b.group_state[g]
           f == F[start]
           c == remove_edge(b, start, f)
           last == b.group_count[g] = 1
<1>0. P \subseteq Nat \X Nat /\ IsFiniteSet(P)
  BY DEF Slots
<1>1. ~RemoveAborts(b, start, f) /\ f \in Nat
  BY <1>0, RemoveAllowed
<1>2. BookTypeOK(c, P) /\ EdgeRemoved(b, c, start) /\ GroupsSound(c)
  BY <1>0, <1>1, RemoveFields, RemoveKeepsGroups
<1>3. CountsSound(c, F)
  BY <1>0, RemoveCounts
<1>4. /\ EdgesOf(c, s) = EdgesOf(b, s) \ {start} /\ start \in EdgesOf(b, s)
      /\ \A k : k # s => EdgesOf(c, k) = EdgesOf(b, k) /\ start \notin EdgesOf(b, k)
      /\ \A p \in P : KeyOf(c, p) = IF p = start THEN no_position ELSE KeyOf(b, p)
      /\ \A h \in Nat : Members(c, h) = Members(b, h) \ {start}
      /\ Used(c) = IF last THEN Used(b) \ {g} ELSE Used(b)
  BY <1>0, <1>2, RemovedSets
<1>5. /\ s \in DOMAIN b.pairs /\ g \in Used(b) /\ g \in Nat /\ DOMAIN b.edge_group = P
      /\ no_position \notin Nat /\ Used(b) \subseteq Nat
  <2>1. DOMAIN b.group_count \subseteq Nat
    BY DEF BookOK, BookTypeOK
  <2>2. QED
    BY <1>0, <2>1, GroupFacts
<1> HIDE DEF c, last
<1>6. /\ c.group_state = b.group_state /\ DOMAIN c.pairs = DOMAIN b.pairs /\ DOMAIN c.edge_group = P
      /\ \A p \in P : c.edge_group[p] = IF p = start THEN no_position ELSE b.edge_group[p]
      /\ \A k \in DOMAIN b.pairs :
            IF last /\ k = s /\ b.pairs[k].last_group = g
            THEN c.pairs[k].last_word = no_position
            ELSE /\ c.pairs[k].last_word = b.pairs[k].last_word
                 /\ c.pairs[k].last_group = b.pairs[k].last_group
  BY <1>2, <1>5 DEF EdgeRemoved, last
<1>7. GroupsPerWord(c)
  BY <1>6, <1>5 DEF GroupsPerWord, Exact
<1>8. LastGroups(c)
  <2> SUFFICES ASSUME NEW k \in DOMAIN b.pairs, c.pairs[k].last_word # no_position,
                      NEW p \in Members(c, c.pairs[k].last_group)
               PROVE  p[1] = c.pairs[k].last_word
    BY <1>6 DEF LastGroups
  <2>1. /\ c.pairs[k].last_word = b.pairs[k].last_word
        /\ c.pairs[k].last_group = b.pairs[k].last_group
    BY <1>6
  <2>2. p \in P /\ c.edge_group[p] = b.pairs[k].last_group
    BY <1>6, <2>1 DEF Members
  <2>3. b.pairs[k].last_group \in Used(b)
    BY <2>1 DEF BookOK, GroupsSound, CacheSound
  <2>4. p \in Members(b, b.pairs[k].last_group)
    BY <1>5, <1>6, <2>2, <2>3 DEF Members
  <2>5. QED
    BY <2>1, <2>4 DEF LastGroups, Exact
<1>9. ASSUME NEW k \in DOMAIN b.pairs, NEW q \in EdgesOf(c, k), b.pairs[k].last_word = q[1]
      PROVE  c.pairs[k].last_word = q[1]
  <2> SUFFICES ASSUME last, k = s, b.pairs[k].last_group = g PROVE FALSE
    BY <1>6, <1>9
  <2>1. q \in EdgesOf(b, s) /\ q # start
    BY <1>4, <1>9
  <2>2. q \in P /\ b.edge_group[q] # no_position /\ b.group_state[b.edge_group[q]] = s
    BY <1>5, <2>1 DEF EdgesOf
  <2>3. q[1] # no_position
    BY <1>0, <1>5, <2>2
  <2>4. \A p \in Members(b, g) : p[1] = q[1]
    BY <1>9, <2>3 DEF LastGroups, Exact
  <2>5. start[1] = q[1]
    BY <1>5, <2>4 DEF Members
  <2>6. b.edge_group[q] = g
    BY <1>5, <2>2, <2>5 DEF GroupsPerWord, Exact
  <2>7. q \in Members(b, g) \ {start}
    BY <1>5, <2>1, <2>2, <2>6 DEF Members
  <2>8. q \in Members(c, g) /\ g \in DOMAIN b.group_count
    BY <1>4, <1>5, <2>7 DEF Used
  <2>9. g \in Used(c)
    BY <1>2, <2>8 DEF Used, EdgeRemoved
  <2>10. QED
    BY <1>4, <2>9
<1>10. EdgeTaken(b, c, start)
  BY <1>4, <1>5, <1>9 DEF EdgeTaken
<1>11. QED
  BY <1>2, <1>3, <1>7, <1>8, <1>10 DEF BookOK, Exact, c

LEMMA RemoveLists ==
    ASSUME NEW P, Slots(P), NEW b, BookOK(b, P), NEW F \in [P -> Nat], Exact(b, F),
           NEW start \in P, b.edge_group[start] # no_position,
           NEW S, NEW rank \in [P -> Nat], ListsSound(b, S, rank)
    PROVE  ListsSound(remove_edge(b, start, F[start]), S, rank)
<1> DEFINE g == b.edge_group[start]
           s == b.group_state[g]
           f == F[start]
           c == remove_edge(b, start, f)
           E == EdgesOf(b, s)
           prev == b.pos_prev[start]
           succ == b.pos_next[start]
<1>0. no_position \notin P /\ IsFiniteSet(P)
  BY DEF Slots
<1>1. ~RemoveAborts(b, start, f) /\ f \in Nat
  BY <1>0, RemoveAllowed
<1>2. /\ s \in DOMAIN b.pairs
      /\ Closed(b, c, prev, succ)
      /\ \A k \in DOMAIN b.pairs \ {s} : c.pairs[k] = b.pairs[k]
      /\ PairReduced(b.pairs[s], c.pairs[s], f, prev, succ, b.group_count[g] = 1)
  BY <1>0, <1>1, RemoveShape
<1>3. /\ EdgeRemoved(b, c, start)
      /\ EdgesOf(c, s) = E \ {start} /\ start \in E
      /\ \A k : k # s => EdgesOf(c, k) = EdgesOf(b, k) /\ start \notin EdgesOf(b, k)
  <2>1. EdgeRemoved(b, c, start) /\ EdgeTaken(b, c, start)
    BY RemoveExact
  <2> HIDE DEF c
  <2>2. QED
    BY <2>1 DEF EdgeTaken
<1>4. E \in SUBSET P /\ \A k : EdgesOf(b, k) \in SUBSET P
  BY <1>0, GroupFacts
<1>5. /\ b.pos_next \in [P -> P \cup {no_position}] /\ b.pos_prev \in [P -> P \cup {no_position}]
      /\ LinksTyped(P, rank, b.pos_next, b.pos_prev)
  BY <1>0 DEF BookOK, BookTypeOK, LinksTyped
<1>6. /\ Linked(E, rank, b.pos_next, b.pos_prev)
      /\ Sorted(E, rank, b.pairs[s].last_word)
      /\ s \in S => EndsAt(E, rank, b.pairs[s])
  BY <1>2 DEF ListsSound
<1>7. /\ DOMAIN c.pairs = DOMAIN b.pairs
      /\ \A k \in DOMAIN b.pairs : c.pairs[k].last_word \in {b.pairs[k].last_word, no_position}
  BY <1>3 DEF EdgeRemoved
<1> HIDE DEF c, s, E
<1>8. /\ c.pos_next = IF prev = no_position THEN b.pos_next ELSE [b.pos_next EXCEPT ![prev] = succ]
      /\ c.pos_prev = IF succ = no_position THEN b.pos_prev ELSE [b.pos_prev EXCEPT ![succ] = prev]
  BY <1>2 DEF Closed
<1>9. Linked(E \ {start}, rank, c.pos_next, c.pos_prev)
  BY <1>3, <1>4, <1>5, <1>6, <1>8, LinksClose
<1>10. /\ EndsAt(E, rank, b.pairs[s]) => EndsAt(E \ {start}, rank, c.pairs[s])
       /\ EndsEmpty(E \ {start}, c.pairs[s])
  <2> DEFINE bs == b.pairs[s]
             cs == c.pairs[s]
             nx == b.pos_next
             pv == b.pos_prev
  <2>0. /\ LinksTyped(P, rank, nx, pv)
        /\ Linked(E, rank, nx, pv) /\ prev = pv[start] /\ succ = nx[start]
    BY <1>5, <1>6
  <2>1. EndsClosed(bs, cs, prev, succ)
    BY <1>2 DEF PairReduced, EndsClosed
  <2> HIDE DEF bs, cs, nx, pv, prev, succ
  <2>2. /\ EndsAt(E, rank, bs) => EndsAt(E \ {start}, rank, cs)
        /\ EndsEmpty(E \ {start}, cs)
    BY <1>3, <1>4, <2>0, <2>1, EndsClose
  <2>3. QED
    BY <2>2 DEF bs, cs
<1>11. Sorted(E \ {start}, rank, c.pairs[s].last_word)
  <2> DEFINE l1 == b.pairs[s].last_word
             l2 == c.pairs[s].last_word
  <2>1. l2 \in {l1, no_position} /\ Sorted(E, rank, l1) /\ E \ {start} \in SUBSET E
    BY <1>2, <1>6, <1>7
  <2> HIDE DEF l1, l2
  <2>2. Sorted(E \ {start}, rank, l2)
    BY <2>1, SortedSubset
  <2>3. QED
    BY <2>2 DEF l2
<1>12. /\ prev # no_position => prev \in E
       /\ succ # no_position => succ \in E
  BY <1>3, <1>6 DEF Linked, Adjacent
<1>13. ASSUME NEW k \in DOMAIN b.pairs, k # s
       PROVE  Linked(EdgesOf(b, k), rank, c.pos_next, c.pos_prev)
  <2> DEFINE D == EdgesOf(b, k)
  <2>1. D \in SUBSET P /\ Linked(D, rank, b.pos_next, b.pos_prev)
    BY <1>4 DEF ListsSound
  <2>2. D \cap E = {}
    BY <1>13 DEF EdgesOf, E
  <2> HIDE DEF D
  <2>3. \A q \in D : c.pos_next[q] = b.pos_next[q] /\ c.pos_prev[q] = b.pos_prev[q]
    BY <1>5, <1>8, <1>12, <2>1, <2>2
  <2> DEFINE nx  == b.pos_next
             pv  == b.pos_prev
             nx2 == c.pos_next
             pv2 == c.pos_prev
  <2>4. /\ Linked(D, rank, nx, pv)
        /\ \A q \in D : rank[q] = rank[q] /\ nx2[q] = nx[q] /\ pv2[q] = pv[q]
    BY <2>1, <2>3
  <2> HIDE DEF nx, pv, nx2, pv2
  <2>5. Linked(D, rank, nx2, pv2)
    BY <2>4 DEF Linked, LastOf, FirstOf, Adjacent
  <2>6. QED
    BY <2>5 DEF D, nx2, pv2
<1>14. ListsSound(c, S, rank)
  <2> SUFFICES ASSUME NEW k \in DOMAIN b.pairs
               PROVE  /\ Linked(EdgesOf(c, k), rank, c.pos_next, c.pos_prev)
                      /\ Sorted(EdgesOf(c, k), rank, c.pairs[k].last_word)
                      /\ EndsEmpty(EdgesOf(c, k), c.pairs[k])
                      /\ k \in S => EndsAt(EdgesOf(c, k), rank, c.pairs[k])
    BY <1>7 DEF ListsSound
  <2>1. CASE k = s
    BY <1>3, <1>6, <1>9, <1>10, <1>11, <2>1
  <2>2. CASE k # s
    BY <1>2, <1>3, <1>13, <2>2 DEF ListsSound
  <2>3. QED
    BY <2>1, <2>2
<1>15. QED
  BY <1>14 DEF c

-----------------------------------------------------------------------------
(* A new edge.                                                             *)

\* The sets of c after the edge at start has joined pair s of b.
EdgeIn(b, c, start, s, group) ==
    /\ EdgesOf(c, s) = EdgesOf(b, s) \cup {start}
    /\ \A k : k # s => EdgesOf(c, k) = EdgesOf(b, k)
    /\ \A k : start \notin EdgesOf(b, k)
    /\ \A p \in DOMAIN b.edge_group : KeyOf(c, p) = IF p = start THEN b.pairs[s].key ELSE KeyOf(b, p)
    /\ Used(c) = Used(b) \cup {group}
    /\ c.group_state[group] = s /\ group \in Nat
    /\ \A h \in Used(b) : c.group_state[h] = b.group_state[h]
    /\ c.edge_group = [b.edge_group EXCEPT ![start] = group]

LEMMA InsertedSets ==
    ASSUME NEW P, IsFiniteSet(P), NEW b, BookOK(b, P), NEW start \in P,
           b.edge_group[start] = no_position,
           NEW s \in DOMAIN b.pairs, NEW word, NEW f, NEW c, EdgeInserted(b, c, start, s, word, f)
    PROVE  EdgeIn(b, c, start, s, c.pairs[s].last_group)
<1> DEFINE group == c.pairs[s].last_group
<1>1. EdgeAdded(b, c, start, s, group)
      /\ (b.pairs[s].last_word # word => group \notin Used(b))
  BY DEF EdgeInserted
<1>2. /\ DOMAIN b.edge_group = P /\ no_position \notin Nat
      /\ \A p \in P : b.edge_group[p] # no_position => b.edge_group[p] \in Used(b)
      /\ Used(b) \subseteq DOMAIN b.group_count
  BY GroupFacts
<1>3. /\ b.group_count \in Seq(Nat \cup {no_position}) /\ b.group_state \in Seq(Nat)
      /\ DOMAIN b.group_state = DOMAIN b.group_count
      /\ b.edge_group \in [P -> Nat \cup {no_position}]
      /\ b.free_head = no_position \/ b.free_head \in Unused(b)
  BY DEF BookOK, BookTypeOK, GroupsSound, IdsInRange, FreeListSound
<1> HIDE DEF group
<1>4. /\ c.edge_group = [b.edge_group EXCEPT ![start] = group]
      /\ DOMAIN c.pairs = DOMAIN b.pairs
      /\ \A k \in DOMAIN b.pairs : c.pairs[k].key = b.pairs[k].key
      /\ \/ JoinsGroup(b, c, s, group)
         \/ RecyclesGroup(b, c, s, group)
         \/ OpensGroup(b, c, s, group)
  BY <1>1 DEF EdgeAdded
<1>5. /\ group \in DOMAIN c.group_count /\ group \in Nat /\ c.group_state[group] = s
      /\ \A h \in Used(b) : c.group_state[h] = b.group_state[h]
      /\ DOMAIN b.group_count \subseteq DOMAIN c.group_count
      /\ DOMAIN c.group_count \subseteq DOMAIN b.group_count \cup {group}
  <2>1. CASE JoinsGroup(b, c, s, group)
    BY <1>2, <1>3, <2>1 DEF JoinsGroup
  <2>2. CASE RecyclesGroup(b, c, s, group)
    <3>1. group \in DOMAIN b.group_count /\ group \notin Used(b)
      BY <1>3, <2>2 DEF RecyclesGroup, Unused
    <3>2. QED
      BY <1>2, <1>3, <2>2, <3>1 DEF RecyclesGroup
  <2>3. CASE OpensGroup(b, c, s, group)
    <3>1. /\ group = Len(b.group_count) + 1 /\ c.group_state = Append(b.group_state, s)
          /\ c.group_count = Append(b.group_count, 1) /\ Len(b.group_state) = Len(b.group_count)
          /\ Len(b.group_count) \in Nat /\ DOMAIN b.group_count = 1..Len(b.group_count)
      BY <1>3, <2>3 DEF OpensGroup
    <3>2. /\ DOMAIN c.group_count = 1..(Len(b.group_count) + 1) /\ c.group_state[group] = s
          /\ \A h \in DOMAIN b.group_state : c.group_state[h] = b.group_state[h]
      BY <1>3, <3>1
    <3>3. QED
      BY <1>2, <1>3, <3>1, <3>2
  <2>4. QED
    BY <1>4, <2>1, <2>2, <2>3
<1>6. /\ DOMAIN c.edge_group = P
      /\ \A p \in P : c.edge_group[p] = IF p = start THEN group ELSE b.edge_group[p]
  BY <1>2, <1>4
<1>7. Used(c) = Used(b) \cup {group}
  <2>1. \A h \in Nat : Members(c, h) = Members(b, h) \cup (IF h = group THEN {start} ELSE {})
    BY <1>2, <1>5, <1>6 DEF Members
  <2>2. DOMAIN c.group_count \subseteq Nat
    BY <1>3, <1>5
  <2>3. Members(b, group) # {} => group \in Used(b)
    <3>1. SUFFICES ASSUME NEW p \in Members(b, group) PROVE group \in Used(b)
      OBVIOUS
    <3>2. p \in P /\ b.edge_group[p] = group
      BY <1>2 DEF Members
    <3>3. QED
      BY <1>2, <1>5, <3>2
  <2>4. ASSUME NEW h \in Used(c) PROVE h \in Used(b) \cup {group}
    BY <1>5, <2>1, <2>2, <2>4 DEF Used
  <2>5. ASSUME NEW h \in Used(b) \cup {group} PROVE h \in Used(c)
    BY <1>5, <2>1, <2>2, <2>5 DEF Used
  <2>6. QED
    BY <2>4, <2>5
<1>8. /\ EdgesOf(c, s) = EdgesOf(b, s) \cup {start}
      /\ \A k : k # s => EdgesOf(c, k) = EdgesOf(b, k)
      /\ \A k : start \notin EdgesOf(b, k)
  BY <1>2, <1>5, <1>6 DEF EdgesOf
<1>9. \A p \in P : KeyOf(c, p) = IF p = start THEN b.pairs[s].key ELSE KeyOf(b, p)
  <2> SUFFICES ASSUME NEW p \in P PROVE KeyOf(c, p) = IF p = start THEN b.pairs[s].key ELSE KeyOf(b, p)
    OBVIOUS
  <2>1. CASE p = start
    BY <1>2, <1>4, <1>5, <1>6, <2>1 DEF KeyOf
  <2>2. CASE p # start
    <3>1. b.edge_group[p] # no_position => b.group_state[b.edge_group[p]] \in DOMAIN b.pairs
      BY GroupFacts
    <3>2. QED
      BY <1>2, <1>4, <1>5, <1>6, <2>2, <3>1 DEF KeyOf
  <2>3. QED
    BY <2>1, <2>2
<1>10. QED
  BY <1>2, <1>4, <1>5, <1>7, <1>8, <1>9 DEF group, EdgeIn

\* An edge at start may go to the end of the list of pair s: the pair's edges in the
\* word are all further left, and the word is its last one.
Appendable(b, s, start) ==
    \A q \in EdgesOf(b, s) :
        q[1] = start[1] => q[2] < start[2] /\ b.pairs[s].last_word = start[1]

\* The book c registers what b does, and the edge at start in pair s.
EdgePut(b, c, start, s) ==
    /\ DOMAIN c.pairs = DOMAIN b.pairs
    /\ \A k \in DOMAIN b.pairs : c.pairs[k].key = b.pairs[k].key
    /\ EdgesOf(c, s) = EdgesOf(b, s) \cup {start}
    /\ \A k : start \notin EdgesOf(b, k)
    /\ \A k : k # s => EdgesOf(c, k) = EdgesOf(b, k)
    /\ \A p \in DOMAIN b.edge_group : KeyOf(c, p) = IF p = start THEN b.pairs[s].key ELSE KeyOf(b, p)
    /\ c.pairs[s].last_word = start[1]
    /\ \A k \in DOMAIN b.pairs \ {s} : c.pairs[k].last_word = b.pairs[k].last_word

LEMMA InsertCounts ==
    ASSUME NEW P, Slots(P), NEW b, BookOK(b, P), NEW F \in [P -> Nat], Exact(b, F),
           NEW start \in P, b.edge_group[start] = no_position, NEW s \in DOMAIN b.pairs,
           NEW c, EdgeInserted(b, c, start, s, start[1], F[start])
    PROVE  CountsSound(c, F)
<1> DEFINE group == c.pairs[s].last_group
           E == EdgesOf(b, s)
           G == GroupsOf(b, s)
<1>0. IsFiniteSet(P)
  BY DEF Slots
<1>1. /\ E \in SUBSET P /\ IsFiniteSet(E) /\ IsFiniteSet(G) /\ Cardinality(G) \in Nat
      /\ F[start] \in Nat
  BY <1>0, GroupFacts
<1>2. /\ EdgesOf(c, s) = E \cup {start} /\ start \notin E
      /\ \A k : k # s => EdgesOf(c, k) = EdgesOf(b, k)
      /\ Used(c) = Used(b) \cup {group} /\ c.group_state[group] = s
      /\ \A h \in Used(b) : c.group_state[h] = b.group_state[h]
  <2>1. EdgeIn(b, c, start, s, group)
    BY <1>0, InsertedSets
  <2> HIDE DEF group
  <2>2. QED
    BY <2>1 DEF EdgeIn
<1>3. /\ \A k \in DOMAIN b.pairs \ {s} : c.pairs[k] = b.pairs[k]
      /\ PairExtended(b.pairs[s], c.pairs[s], F[start], start[1], group, start)
      /\ IF b.pairs[s].last_word = start[1]
         THEN group = b.pairs[s].last_group /\ group \in Used(b)
         ELSE group \notin Used(b)
      /\ DOMAIN c.pairs = DOMAIN b.pairs
  BY DEF EdgeInserted, EdgeAdded
<1>4. b.pairs[s].count = Weight(E, F) /\ b.pairs[s].word_count = Cardinality(G)
  BY DEF Exact, CountsSound
<1>5. c.pairs[s].count = Weight(EdgesOf(c, s), F)
  <2> HIDE DEF E
  <2>1. Weight(E \cup {start}, F) = Weight(E, F) + F[start]
    BY <1>1, <1>2, WeightAdd
  <2>2. QED
    BY <1>2, <1>3, <1>4, <2>1 DEF PairExtended
<1>6. c.pairs[s].word_count = Cardinality(GroupsOf(c, s))
  <2>1. CASE group \in Used(b)
    <3>1. GroupsOf(c, s) = G
      BY <1>2, <2>1 DEF GroupsOf
    <3>2. c.pairs[s].word_count = b.pairs[s].word_count + 0
      BY <1>3, <2>1 DEF PairExtended
    <3>3. QED
      BY <1>1, <1>4, <3>1, <3>2
  <2>2. CASE group \notin Used(b)
    <3>1. GroupsOf(c, s) = G \cup {group} /\ group \notin G
      BY <1>2, <2>2 DEF GroupsOf
    <3>2. c.pairs[s].word_count = b.pairs[s].word_count + 1
      BY <1>3, <2>2 DEF PairExtended
    <3> HIDE DEF G, group
    <3>3. Cardinality(G \cup {group}) = Cardinality(G) + 1
      BY <1>1, <3>1, FS_AddElement
    <3>4. QED
      BY <1>4, <3>1, <3>2, <3>3
  <2>3. QED
    BY <2>1, <2>2
<1>7. ASSUME NEW k \in DOMAIN b.pairs \ {s}
      PROVE  /\ c.pairs[k].count = Weight(EdgesOf(c, k), F)
             /\ c.pairs[k].word_count = Cardinality(GroupsOf(c, k))
  <2>1. GroupsOf(c, k) = GroupsOf(b, k)
    BY <1>2 DEF GroupsOf
  <2>2. QED
    BY <1>2, <1>3, <2>1 DEF Exact, CountsSound
<1>8. QED
  BY <1>3, <1>5, <1>6, <1>7 DEF CountsSound

LEMMA InsertExact ==
    ASSUME NEW P, Slots(P), NEW b, BookOK(b, P), NEW F \in [P -> Nat], Exact(b, F),
           NEW start \in P, b.edge_group[start] = no_position, NEW s \in DOMAIN b.pairs,
           Appendable(b, s, start),
           NEW c, EdgeInserted(b, c, start, s, start[1], F[start])
    PROVE  Exact(c, F) /\ EdgePut(b, c, start, s)
<1> DEFINE group == c.pairs[s].last_group
           w == start[1]
<1>0. P \subseteq Nat \X Nat /\ IsFiniteSet(P)
  BY DEF Slots
<1>1. /\ DOMAIN b.edge_group = P /\ no_position \notin Nat /\ w \in Nat
      /\ \A p \in P : b.edge_group[p] # no_position => b.edge_group[p] \in Used(b)
      /\ b.edge_group \in [P -> Nat \cup {no_position}]
  <2>1. b.edge_group \in [P -> Nat \cup {no_position}] /\ w \in Nat
    BY <1>0 DEF BookOK, BookTypeOK
  <2>2. QED
    BY <1>0, <2>1, GroupFacts
<1>2. /\ EdgesOf(c, s) = EdgesOf(b, s) \cup {start}
      /\ \A k : k # s => EdgesOf(c, k) = EdgesOf(b, k)
      /\ \A k : start \notin EdgesOf(b, k)
      /\ \A p \in P : KeyOf(c, p) = IF p = start THEN b.pairs[s].key ELSE KeyOf(b, p)
      /\ Used(c) = Used(b) \cup {group} /\ c.group_state[group] = s /\ group \in Nat
      /\ \A h \in Used(b) : c.group_state[h] = b.group_state[h]
      /\ c.edge_group = [b.edge_group EXCEPT ![start] = group]
  <2>1. EdgeIn(b, c, start, s, group)
    BY <1>0, InsertedSets
  <2> HIDE DEF group
  <2>2. QED
    BY <1>1, <2>1 DEF EdgeIn
<1>3. /\ \A k \in DOMAIN b.pairs \ {s} : c.pairs[k] = b.pairs[k]
      /\ c.pairs[s].last_word = w
      /\ IF b.pairs[s].last_word = w
         THEN group = b.pairs[s].last_group /\ group \in Used(b)
         ELSE group \notin Used(b)
      /\ DOMAIN c.pairs = DOMAIN b.pairs
      /\ \A k \in DOMAIN b.pairs : c.pairs[k].key = b.pairs[k].key
  BY DEF EdgeInserted, EdgeAdded, PairExtended
<1> HIDE DEF group, w
<1>4. /\ DOMAIN c.edge_group = P
      /\ \A p \in P : c.edge_group[p] = IF p = start THEN group ELSE b.edge_group[p]
  BY <1>1, <1>2
<1>5. group \in Used(b) =>
         /\ b.group_state[group] = s
         /\ \A q \in P : b.edge_group[q] = group => q[1] = w
         /\ \E q \in P : b.edge_group[q] = group
  <2> SUFFICES ASSUME group \in Used(b)
               PROVE  /\ b.group_state[group] = s
                      /\ \A q \in P : b.edge_group[q] = group => q[1] = w
                      /\ \E q \in P : b.edge_group[q] = group
    OBVIOUS
  <2>1. b.pairs[s].last_word = w /\ group = b.pairs[s].last_group /\ w # no_position
    BY <1>1, <1>3
  <2>2. b.group_state[group] = s
    BY <2>1 DEF BookOK, GroupsSound, CacheSound
  <2>3. \A q \in Members(b, group) : q[1] = w
    BY <2>1 DEF Exact, LastGroups
  <2>4. Members(b, group) # {}
    BY DEF Used
  <2>5. QED
    BY <1>1, <2>2, <2>3, <2>4 DEF Members
<1>6. \A q \in P : b.edge_group[q] # no_position /\ b.group_state[b.edge_group[q]] = s /\ q[1] = w
                      => group \in Used(b)
  BY <1>1, <1>3 DEF Appendable, EdgesOf, w
<1>7. ASSUME NEW q \in P, q # start, c.edge_group[q] # no_position
      PROVE  c.edge_group[q] = group <=> c.group_state[c.edge_group[q]] = s /\ q[1] = w
  <2>1. /\ c.edge_group[q] = b.edge_group[q] /\ b.edge_group[q] \in Used(b)
        /\ c.group_state[b.edge_group[q]] = b.group_state[b.edge_group[q]]
    BY <1>1, <1>2, <1>4, <1>7
  <2>2. b.edge_group[q] = group => b.group_state[b.edge_group[q]] = s /\ q[1] = w
    BY <1>5, <2>1
  <2>3. ASSUME b.group_state[b.edge_group[q]] = s, q[1] = w
        PROVE  b.edge_group[q] = group
    <3>1. PICK m \in P : b.edge_group[m] = group
      BY <1>5, <1>6, <1>7, <2>1, <2>3
    <3>2. m[1] = w /\ b.group_state[group] = s
      BY <1>1, <1>5, <1>6, <1>7, <2>1, <2>3, <3>1
    <3>3. group # no_position
      BY <1>1, <1>2
    <3>4. QED
      BY <1>1, <1>7, <2>1, <2>3, <3>1, <3>2, <3>3 DEF Exact, GroupsPerWord
  <2>4. QED
    BY <2>1, <2>2, <2>3
<1>8. GroupsPerWord(c)
  <2> SUFFICES ASSUME NEW p \in P, NEW q \in P,
                      c.edge_group[p] # no_position, c.edge_group[q] # no_position
               PROVE  c.edge_group[p] = c.edge_group[q] <=>
                         c.group_state[c.edge_group[p]] = c.group_state[c.edge_group[q]] /\ p[1] = q[1]
    BY <1>4 DEF GroupsPerWord
  <2>1. CASE p = start /\ q = start
    BY <2>1
  <2>2. CASE p = start /\ q # start
    <3>1. c.edge_group[p] = group /\ p[1] = w
      BY <1>4, <2>2 DEF w
    <3>2. QED
      BY <1>2, <1>7, <2>2, <3>1
  <2>3. CASE p # start /\ q = start
    <3>1. c.edge_group[q] = group /\ q[1] = w
      BY <1>4, <2>3 DEF w
    <3>2. QED
      BY <1>2, <1>7, <2>3, <3>1
  <2>4. CASE p # start /\ q # start
    <3>1. /\ c.edge_group[p] = b.edge_group[p] /\ b.edge_group[p] \in Used(b)
          /\ c.edge_group[q] = b.edge_group[q] /\ b.edge_group[q] \in Used(b)
      BY <1>1, <1>4, <2>4
    <3>2. QED
      BY <1>1, <1>2, <3>1 DEF Exact, GroupsPerWord
  <2>5. QED
    BY <2>1, <2>2, <2>3, <2>4
<1>9. LastGroups(c)
  <2> SUFFICES ASSUME NEW k \in DOMAIN b.pairs, c.pairs[k].last_word # no_position,
                      NEW p \in P, c.edge_group[p] = c.pairs[k].last_group
               PROVE  p[1] = c.pairs[k].last_word
    BY <1>3, <1>4 DEF LastGroups, Members
  <2>1. CASE k = s
    <3>1. c.edge_group[p] = group /\ c.pairs[k].last_word = w
      BY <1>3, <2>1 DEF group
    <3>2. CASE p = start
      BY <3>1, <3>2 DEF w
    <3>3. CASE p # start
      <4>1. b.edge_group[p] = group /\ group # no_position
        BY <1>1, <1>2, <1>4, <3>1, <3>3
      <4>2. group \in Used(b)
        BY <1>1, <4>1
      <4>3. QED
        BY <1>5, <3>1, <4>1, <4>2
    <3>4. QED
      BY <3>2, <3>3
  <2>2. CASE k # s
    <3>1. c.pairs[k] = b.pairs[k]
      BY <1>3, <2>2
    <3>2. b.pairs[k].last_group \in Used(b) /\ b.group_state[b.pairs[k].last_group] = k
      BY <3>1 DEF BookOK, GroupsSound, CacheSound
    <3>3. p # start
      BY <1>4, <1>5, <2>2, <3>1, <3>2
    <3>4. p \in Members(b, b.pairs[k].last_group)
      BY <1>1, <1>4, <3>1, <3>3 DEF Members
    <3>5. QED
      BY <3>1, <3>4 DEF Exact, LastGroups
  <2>3. QED
    BY <2>1, <2>2
<1>10. CountsSound(c, F)
  BY InsertCounts
<1>11. EdgePut(b, c, start, s)
  BY <1>1, <1>2, <1>3 DEF EdgePut, w
<1>12. QED
  BY <1>8, <1>9, <1>10, <1>11 DEF Exact

LEMMA InsertLists ==
    ASSUME NEW P, Slots(P), NEW b, BookOK(b, P),
           NEW start \in P, b.edge_group[start] = no_position, NEW s \in DOMAIN b.pairs,
           Appendable(b, s, start), NEW f,
           NEW c, EdgeInserted(b, c, start, s, start[1], f),
           NEW S, s \in S, NEW rank \in [P -> Nat], ListsSound(b, S, rank)
    PROVE  Ordered(c, P, S)
<1> DEFINE E == EdgesOf(b, s)
           w == start[1]
           bs == b.pairs[s]
           cs == c.pairs[s]
           tail == bs.positions_tail
<1>0. P \subseteq Nat \X Nat /\ no_position \notin P /\ IsFiniteSet(P) /\ no_position \notin Nat
  BY NoPositionAssumption DEF Slots
<1>1. /\ EdgesOf(c, s) = E \cup {start} /\ start \notin E
      /\ \A k : k # s => EdgesOf(c, k) = EdgesOf(b, k) /\ start \notin EdgesOf(b, k)
  <2>1. EdgeIn(b, c, start, s, cs.last_group)
    BY <1>0, InsertedSets
  <2> HIDE DEF cs
  <2>2. QED
    BY <2>1 DEF EdgeIn
<1>2. /\ Appended(b, c, tail, start)
      /\ \A k \in DOMAIN b.pairs \ {s} : c.pairs[k] = b.pairs[k]
      /\ PairExtended(bs, cs, f, w, cs.last_group, start)
      /\ DOMAIN c.pairs = DOMAIN b.pairs
  BY DEF EdgeInserted, EdgeAdded
<1>3. E \in SUBSET P /\ \A k : EdgesOf(b, k) \in SUBSET P
  BY <1>0, GroupFacts
<1>4. /\ Linked(E, rank, b.pos_next, b.pos_prev) /\ Sorted(E, rank, bs.last_word)
      /\ EndsAt(E, rank, bs) /\ EndsEmpty(E, bs)
  BY DEF ListsSound
<1>5. LinksTyped(P, rank, b.pos_next, b.pos_prev)
  BY <1>0 DEF BookOK, BookTypeOK, LinksTyped
<1> DEFINE n == IF E = {} THEN 0 ELSE rank[tail] + 1
           rk == [rank EXCEPT ![start] = n]
<1>6. n \in Nat /\ Behind(E, rank, n)
  <2>1. CASE E = {}
    BY <2>1 DEF Behind
  <2>2. CASE E # {}
    <3>1. LastOf(E, rank, tail)
      BY <1>4, <2>2 DEF EndsAt
    <3>2. n = rank[tail] + 1
      BY <2>2
    <3> HIDE DEF n, tail, E
    <3>3. tail \in P /\ \A q \in E : rank[q] <= rank[tail] /\ rank[q] \in Nat /\ rank[tail] \in Nat
      BY <1>3, <3>1 DEF LastOf
    <3>4. QED
      BY <3>2, <3>3 DEF Behind
  <2>3. QED
    BY <2>1, <2>2
<1> HIDE DEF n
<1>7. rk \in [P -> Nat]
  BY <1>6
<1>8. /\ c.pos_prev = [b.pos_prev EXCEPT ![start] = tail]
      /\ c.pos_next = IF tail = no_position
                      THEN [b.pos_next EXCEPT ![start] = no_position]
                      ELSE [b.pos_next EXCEPT ![start] = no_position, ![tail] = start]
  BY <1>2 DEF Appended
<1>9. /\ cs.positions_head = IF tail = no_position THEN start ELSE bs.positions_head
      /\ cs.positions_tail = start /\ cs.last_word = w
  BY <1>2 DEF PairExtended
<1>10. Linked(E \cup {start}, rk, c.pos_next, c.pos_prev)
  <2> HIDE DEF E, bs
  <2>1. Linked(E \cup {start}, [rank EXCEPT ![start] = n], c.pos_next, c.pos_prev)
    BY <1>1, <1>2, <1>3, <1>4, <1>5, <1>6, LinksAppend
  <2>2. QED
    BY <2>1 DEF rk
<1>11. EndsAt(E \cup {start}, rk, cs)
  <2> HIDE DEF E, bs, cs, rk
  <2>1. EndsAt(E \cup {start}, [rank EXCEPT ![start] = n], cs)
    BY <1>0, <1>1, <1>3, <1>4, <1>6, <1>9, EndsAppend
  <2>2. QED
    BY <2>1 DEF rk
<1>12. Sorted(E \cup {start}, rk, w)
  <2> DEFINE last == bs.last_word
  <2>1. Sorted(E, rank, last) /\ \A q \in E : q[1] = start[1] => q[2] < start[2] /\ last = start[1]
    BY <1>4 DEF Appendable
  <2> HIDE DEF E, last
  <2>2. QED
    BY <1>0, <1>1, <1>3, <1>6, <2>1, SortedAppend
<1>13. tail # no_position => tail \in E
  BY <1>4 DEF EndsAt, EndsEmpty, LastOf
<1>14. ASSUME NEW k \in DOMAIN b.pairs, k # s
       PROVE  /\ Linked(EdgesOf(b, k), rk, c.pos_next, c.pos_prev)
              /\ Sorted(EdgesOf(b, k), rk, b.pairs[k].last_word)
              /\ k \in S => EndsAt(EdgesOf(b, k), rk, b.pairs[k])
  <2> DEFINE D == EdgesOf(b, k)
  <2>1. /\ D \in SUBSET P /\ Linked(D, rank, b.pos_next, b.pos_prev) /\ start \notin D
        /\ Sorted(D, rank, b.pairs[k].last_word)
        /\ k \in S => EndsAt(D, rank, b.pairs[k])
    BY <1>1, <1>3, <1>14 DEF ListsSound
  <2>2. D \cap E = {}
    BY <1>14 DEF EdgesOf
  <2>3. b.pos_next \in [P -> P \cup {no_position}] /\ b.pos_prev \in [P -> P \cup {no_position}]
    BY <1>5 DEF LinksTyped
  <2> HIDE DEF D, E, tail
  <2>4. \A q \in D : rk[q] = rank[q] /\ c.pos_next[q] = b.pos_next[q] /\ c.pos_prev[q] = b.pos_prev[q]
    BY <1>8, <1>13, <2>1, <2>2, <2>3
  <2> HIDE DEF rk
  <2>5. Linked(D, rk, c.pos_next, c.pos_prev)
    BY <2>1, <2>4 DEF Linked, LastOf, FirstOf, Adjacent
  <2>6. Sorted(D, rk, b.pairs[k].last_word)
    BY <2>1, <2>4 DEF Sorted
  <2>7. k \in S => EndsAt(D, rk, b.pairs[k])
    BY <2>1, <2>4 DEF EndsAt, FirstOf, LastOf
  <2>8. QED
    BY <2>5, <2>6, <2>7 DEF D
<1>15. ListsSound(c, S, rk)
  <2> HIDE DEF rk, w
  <2> SUFFICES ASSUME NEW k \in DOMAIN b.pairs
               PROVE  /\ Linked(EdgesOf(c, k), rk, c.pos_next, c.pos_prev)
                      /\ Sorted(EdgesOf(c, k), rk, c.pairs[k].last_word)
                      /\ EndsEmpty(EdgesOf(c, k), c.pairs[k])
                      /\ k \in S => EndsAt(EdgesOf(c, k), rk, c.pairs[k])
    BY <1>2 DEF ListsSound
  <2>1. CASE k = s
    <3>1. EndsEmpty(E \cup {start}, cs)
      BY DEF EndsEmpty
    <3>2. QED
      BY <1>1, <1>9, <1>10, <1>11, <1>12, <2>1, <3>1
  <2>2. CASE k # s
    BY <1>1, <1>2, <1>14, <2>2 DEF ListsSound
  <2>3. QED
    BY <2>1, <2>2
<1>16. QED
  <2> HIDE DEF rk
  <2> QED BY <1>7, <1>15 DEF Ordered

-----------------------------------------------------------------------------
(* Exact books.                                                            *)

\* A book over the positions P whose counts and groups are exact for the frequencies
\* F, and whose lists are in order; those of the pairs in S have their ends.
Sound(b, P, F, S) == BookOK(b, P) /\ Exact(b, F) /\ Ordered(b, P, S)

\* An edge leaves.
LEMMA TakeEdge ==
    ASSUME NEW P, Slots(P), NEW F \in [P -> Nat], NEW b, NEW S, Sound(b, P, F, S),
           NEW start \in P, b.edge_group[start] # no_position
    PROVE  LET c == remove_edge(b, start, F[start])
           IN  Sound(c, P, F, S) /\ EdgeRemoved(b, c, start) /\ EdgeTaken(b, c, start)
<1> DEFINE c == remove_edge(b, start, F[start])
<1>1. BookOK(b, P) /\ Exact(b, F)
  BY DEF Sound
<1>2. PICK rank \in [P -> Nat] : ListsSound(b, S, rank)
  BY DEF Sound, Ordered
<1>3. BookOK(c, P) /\ Exact(c, F) /\ EdgeRemoved(b, c, start) /\ EdgeTaken(b, c, start)
  BY <1>1, RemoveExact
<1>4. ListsSound(c, S, rank)
  BY <1>1, <1>2, RemoveLists
<1> HIDE DEF c
<1>5. QED
  BY <1>3, <1>4 DEF Sound, Ordered, c

\* An edge is added, behind the others of its pair in its word.
LEMMA InsertSound ==
    ASSUME NEW P, Slots(P), NEW F \in [P -> Nat], NEW b, NEW S, Sound(b, P, F, S),
           NEW start \in P, b.edge_group[start] = no_position,
           NEW s \in DOMAIN b.pairs, s \in S, Appendable(b, s, start),
           NEW c, BookOK(c, P), EdgeInserted(b, c, start, s, start[1], F[start])
    PROVE  Sound(c, P, F, S) /\ EdgePut(b, c, start, s)
<1>1. BookOK(b, P) /\ Exact(b, F)
  BY DEF Sound
<1>2. PICK rank \in [P -> Nat] : ListsSound(b, S, rank)
  BY DEF Sound, Ordered
<1>3. Exact(c, F) /\ EdgePut(b, c, start, s)
  BY <1>1, InsertExact
<1>4. Ordered(c, P, S)
  BY <1>1, <1>2, InsertLists
<1>5. QED
  BY <1>3, <1>4 DEF Sound

LEMMA AddedAborted ==
    ASSUME NEW P, IsFiniteSet(P), NEW b, BookOK(b, P), NEW start,
           NEW s \in DOMAIN b.pairs, NEW word \in Nat, NEW f
    PROVE  add_edge(b, start, s, word, f).aborted = b.aborted
<1> DEFINE g == get_word_group(b, s, word)
<1>1. BookTypeOK(g, P)
  BY WordGroup
<1>2. "aborted" \in DOMAIN b
  BY DEF BookOK, BookTypeOK
<1>3. g.aborted = b.aborted
  BY <1>2 DEF get_word_group, NewGroup
<1> HIDE DEF g
<1>4. "aborted" \in DOMAIN g
  BY <1>1 DEF BookTypeOK
<1>5. add_edge(b, start, s, word, f).aborted = g.aborted
  BY <1>4 DEF add_edge, link_append, g
<1>6. QED
  BY <1>3, <1>5

LEMMA PutEdge ==
    ASSUME NEW P, Slots(P), NEW F \in [P -> Nat], NEW b, NEW S, Sound(b, P, F, S),
           NEW start \in P, b.edge_group[start] = no_position,
           NEW s \in DOMAIN b.pairs, s \in S, Appendable(b, s, start)
    PROVE  LET c == add_edge(b, start, s, start[1], F[start])
           IN  /\ Sound(c, P, F, S) /\ EdgePut(b, c, start, s)
               /\ SameStamps(b, c) /\ c.aborted = b.aborted
<1> DEFINE c == add_edge(b, start, s, start[1], F[start])
<1>1. BookOK(b, P) /\ IsFiniteSet(P) /\ start[1] \in Nat /\ F[start] \in Nat
  BY DEF Sound, Slots
<1>2. EdgeInserted(b, c, start, s, start[1], F[start])
  BY <1>1, AddShape
<1>3. BookOK(c, P) /\ SameStamps(b, c)
  BY <1>1, AddEdge
<1>4. c.aborted = b.aborted
  BY <1>1, AddedAborted
<1> HIDE DEF c
<1>5. Sound(c, P, F, S) /\ EdgePut(b, c, start, s)
  BY <1>2, <1>3, InsertSound
<1>6. QED
  BY <1>3, <1>4, <1>5 DEF c

-----------------------------------------------------------------------------
(* A pair more.                                                            *)

\* The book c has a pair of that key more than b, without an edge.
Created(b, c, key) ==
    /\ c.pairs = Append(b.pairs, NewPair(key))
    /\ c.edge_group = b.edge_group
    /\ c.group_state = b.group_state /\ c.group_count = b.group_count
    /\ c.pos_next = b.pos_next /\ c.pos_prev = b.pos_prev
    /\ c.aborted = b.aborted

\* The book c has the pairs of b as they are, perhaps more, and the same edges.
Alike(b, c) ==
    /\ DOMAIN b.pairs \subseteq DOMAIN c.pairs
    /\ \A k \in DOMAIN b.pairs : c.pairs[k] = b.pairs[k]
    /\ \A k : EdgesOf(c, k) = EdgesOf(b, k)
    /\ \A k : k \notin DOMAIN b.pairs => EdgesOf(c, k) = {}
    /\ \A p \in DOMAIN b.edge_group : KeyOf(c, p) = KeyOf(b, p)
    /\ c.edge_group = b.edge_group
    /\ c.aborted = b.aborted

LEMMA CreatedPairs ==
    ASSUME NEW P, NEW b, BookOK(b, P), NEW key, NEW c, Created(b, c, key)
    PROVE  /\ Len(b.pairs) \in Nat /\ DOMAIN b.pairs = 1..Len(b.pairs)
           /\ DOMAIN c.pairs = DOMAIN b.pairs \cup {Len(b.pairs) + 1}
           /\ Len(b.pairs) + 1 \notin DOMAIN b.pairs
           /\ \A k \in DOMAIN b.pairs : c.pairs[k] = b.pairs[k]
           /\ c.pairs[Len(b.pairs) + 1] = NewPair(key)
<1>1. b.pairs \in Seq(Pair(P))
  BY DEF BookOK, BookTypeOK
<1> DEFINE bp == b.pairs
           n == NewPair(key)
<1>2. c.pairs = Append(bp, n) /\ bp \in Seq(Pair(P))
  BY <1>1 DEF Created
<1> HIDE DEF bp, n
<1>3. /\ Len(bp) \in Nat /\ DOMAIN bp = 1..Len(bp)
      /\ DOMAIN Append(bp, n) = 1..(Len(bp) + 1)
      /\ \A k \in 1..Len(bp) : Append(bp, n)[k] = bp[k]
      /\ Append(bp, n)[Len(bp) + 1] = n
  BY <1>2
<1>4. QED
  BY <1>2, <1>3 DEF bp, n

LEMMA CreatedAlike ==
    ASSUME NEW P, Slots(P), NEW b, BookOK(b, P), NEW key, NEW c, Created(b, c, key)
    PROVE  Alike(b, c) /\ Used(c) = Used(b)
<1>1. /\ DOMAIN c.pairs = DOMAIN b.pairs \cup {Len(b.pairs) + 1}
      /\ \A k \in DOMAIN b.pairs : c.pairs[k] = b.pairs[k]
  BY CreatedPairs
<1>2. /\ c.edge_group = b.edge_group /\ c.group_state = b.group_state
      /\ c.group_count = b.group_count /\ c.aborted = b.aborted
  BY DEF Created
<1>3. \A k : EdgesOf(c, k) = EdgesOf(b, k)
  BY <1>2 DEF EdgesOf
<1>4. \A p \in DOMAIN b.edge_group :
         b.edge_group[p] # no_position => b.group_state[b.edge_group[p]] \in DOMAIN b.pairs
  BY GroupFacts DEF Slots
<1>5. \A k : k \notin DOMAIN b.pairs => EdgesOf(c, k) = {}
  BY <1>3, <1>4 DEF EdgesOf
<1>6. \A p \in DOMAIN b.edge_group : KeyOf(c, p) = KeyOf(b, p)
  BY <1>1, <1>2, <1>4 DEF KeyOf
<1>7. Used(c) = Used(b)
  BY <1>2 DEF Used, Members
<1>8. QED
  BY <1>1, <1>2, <1>3, <1>5, <1>6, <1>7 DEF Alike

LEMMA CreatedSound ==
    ASSUME NEW P, Slots(P), NEW F \in [P -> Nat], NEW b, NEW S, Sound(b, P, F, S),
           NEW key, NEW c, BookOK(c, P), Created(b, c, key)
    PROVE  Sound(c, P, F, S \cup {Len(b.pairs) + 1})
<1> DEFINE n == Len(b.pairs) + 1
<1>1. BookOK(b, P) /\ Exact(b, F) /\ P \subseteq Nat \X Nat
  BY DEF Sound, Slots
<1>2. Alike(b, c) /\ Used(c) = Used(b)
  BY <1>1, CreatedAlike
<1>3. /\ DOMAIN c.pairs = DOMAIN b.pairs \cup {n} /\ n \notin DOMAIN b.pairs
      /\ \A k \in DOMAIN b.pairs : c.pairs[k] = b.pairs[k]
      /\ c.pairs[n] = NewPair(key)
  BY <1>1, CreatedPairs
<1>4. /\ c.edge_group = b.edge_group /\ c.group_state = b.group_state
      /\ c.pos_next = b.pos_next /\ c.pos_prev = b.pos_prev
  BY DEF Created
<1>5. \A k : EdgesOf(c, k) = EdgesOf(b, k) /\ (k \notin DOMAIN b.pairs => EdgesOf(c, k) = {})
  BY <1>2 DEF Alike
<1> HIDE DEF n
<1>6. /\ c.pairs[n].count = 0 /\ c.pairs[n].word_count = 0 /\ c.pairs[n].last_word = no_position
      /\ c.pairs[n].positions_head = no_position /\ c.pairs[n].positions_tail = no_position
      /\ EdgesOf(c, n) = {}
  BY <1>3, <1>5 DEF NewPair
<1>7. \A k : GroupsOf(c, k) = GroupsOf(b, k)
  BY <1>2, <1>4 DEF GroupsOf
<1>8. GroupsOf(c, n) = {}
  <2>1. \A g \in Used(b) : b.group_state[g] \in DOMAIN b.pairs
    BY <1>1 DEF BookOK, GroupsSound, IdsInRange, Used
  <2>2. \A g \in Used(b) : b.group_state[g] # n
    BY <1>3, <2>1
  <2>3. GroupsOf(b, n) = {}
    BY <2>2 DEF GroupsOf
  <2>4. QED
    BY <1>7, <2>3
<1>9. CountsSound(c, F)
  <2>1. Weight({}, F) = 0 /\ Cardinality({}) = 0
    BY WeightEmpty, FS_EmptySet
  <2>2. \A k \in DOMAIN b.pairs : /\ c.pairs[k].count = Weight(EdgesOf(c, k), F)
                                  /\ c.pairs[k].word_count = Cardinality(GroupsOf(c, k))
    BY <1>1, <1>3, <1>5, <1>7 DEF Exact, CountsSound
  <2>3. QED
    BY <1>3, <1>6, <1>8, <2>1, <2>2 DEF CountsSound
<1>10. GroupsPerWord(c)
  BY <1>1, <1>4 DEF Exact, GroupsPerWord
<1>11. LastGroups(c)
  <2>1. \A g : Members(c, g) = Members(b, g)
    BY <1>4 DEF Members
  <2>2. QED
    BY <1>1, <1>3, <1>6, <2>1 DEF Exact, LastGroups
<1>12. PICK rank \in [P -> Nat] : ListsSound(b, S, rank)
  BY DEF Sound, Ordered
<1>13. ListsSound(c, S \cup {n}, rank)
  <2>1. ASSUME NEW k \in DOMAIN b.pairs
        PROVE  /\ Linked(EdgesOf(c, k), rank, c.pos_next, c.pos_prev)
               /\ Sorted(EdgesOf(c, k), rank, c.pairs[k].last_word)
               /\ EndsEmpty(EdgesOf(c, k), c.pairs[k])
               /\ k \in S \cup {n} => EndsAt(EdgesOf(c, k), rank, c.pairs[k])
    BY <1>3, <1>4, <1>5, <1>12 DEF ListsSound
  <2>2. /\ Linked({}, rank, c.pos_next, c.pos_prev)
        /\ Sorted({}, rank, no_position)
        /\ EndsEmpty({}, c.pairs[n])
        /\ EndsAt({}, rank, c.pairs[n])
    BY <1>6 DEF Linked, Sorted, EndsEmpty, EndsAt
  <2>3. QED
    BY <1>3, <1>6, <2>1, <2>2 DEF ListsSound
<1>14. QED
  BY <1>9, <1>10, <1>11, <1>12, <1>13 DEF Sound, Exact, Ordered, n

-----------------------------------------------------------------------------
(* The keys of the pairs.                                                  *)

\* No two pairs have the same key.
KeysUnique(b) == \A s, r \in DOMAIN b.pairs : b.pairs[s].key = b.pairs[r].key => s = r

Stamp(name, merged, s) == [token |-> name, stamp |-> merged, state |-> s]

\* The stamps of the round of token merged are its pairs with that token, all of them.
KeyStamps(b, merged) ==
    \A s \in DOMAIN b.pairs :
        /\ \A v \in Nat \ {merged} :
              /\ b.pairs[s].key = <<v, merged>> <=> Stamp(v, merged, s) \in b.left_cache
              /\ b.pairs[s].key = <<merged, v>> <=> Stamp(v, merged, s) \in b.right_cache
        /\ b.pairs[s].key = <<merged, merged>> <=> Stamp(merged, merged, s) \in b.same_cache

KeysSound(b, merged) == KeysUnique(b) /\ KeyStamps(b, merged)

\* What a get_ operator returns: a pair of that key, found or created.
GotPair(b, g, key) ==
    \/ g.book = b /\ g.state \in DOMAIN b.pairs /\ b.pairs[g.state].key = key
    \/ Created(b, g.book, key) /\ g.state = Len(b.pairs) + 1

LEMMA KeysKept ==
    ASSUME NEW b, NEW c, NEW merged, KeysSound(b, merged), SameStamps(b, c),
           DOMAIN c.pairs = DOMAIN b.pairs,
           \A k \in DOMAIN b.pairs : c.pairs[k].key = b.pairs[k].key
    PROVE  KeysSound(c, merged)
<1>1. KeysUnique(c)
  BY DEF KeysSound, KeysUnique
<1>2. KeyStamps(c, merged)
  BY DEF KeysSound, KeyStamps, SameStamps
<1>3. QED
  BY <1>1, <1>2 DEF KeysSound

\* The pair that is found is stamped, and no pair has the key when none is found.
LEMMA HitKey ==
    ASSUME NEW P, NEW b, BookOK(b, P), NEW cache,
           cache \in {b.left_cache, b.right_cache, b.same_cache}, NEW name, NEW merged
    PROVE  IF Hits(cache, name, merged) = {}
           THEN \A s : Stamp(name, merged, s) \notin cache
           ELSE LET s == Found(Hits(cache, name, merged))
                IN  s \in DOMAIN b.pairs /\ Stamp(name, merged, s) \in cache
<1>1. cache \in SUBSET CacheEntry /\ \A e \in cache : e.state \in DOMAIN b.pairs
  BY DEF BookOK, BookTypeOK, GroupsSound, IdsInRange
<1>2. CASE Hits(cache, name, merged) = {}
  BY <1>2 DEF Hits, Stamp
<1>3. CASE Hits(cache, name, merged) # {}
  <2> DEFINE e == CHOOSE h \in Hits(cache, name, merged) : TRUE
  <2>1. e \in Hits(cache, name, merged)
    BY <1>3
  <2> HIDE DEF e
  <2>2. e \in cache /\ e.token = name /\ e.stamp = merged /\ e \in CacheEntry
    BY <1>1, <2>1 DEF Hits
  <2>3. e = Stamp(name, merged, e.state)
    BY <2>2 DEF CacheEntry, Stamp
  <2>4. Found(Hits(cache, name, merged)) = e.state
    BY DEF Found, e
  <2>5. QED
    BY <1>1, <1>3, <2>2, <2>3, <2>4
<1>4. QED
  BY <1>2, <1>3

\* No stamp names a pair that is not there yet.
LEMMA StampedPairs ==
    ASSUME NEW P, NEW b, BookOK(b, P), NEW name, NEW merged
    PROVE  \A cache \in {b.left_cache, b.right_cache, b.same_cache} :
              Stamp(name, merged, Len(b.pairs) + 1) \notin cache
<1>1. \A e \in b.left_cache \cup b.right_cache \cup b.same_cache : e.state \in DOMAIN b.pairs
  BY DEF BookOK, GroupsSound, IdsInRange
<1>2. Len(b.pairs) + 1 \notin DOMAIN b.pairs
  BY DEF BookOK, BookTypeOK
<1>3. Stamp(name, merged, Len(b.pairs) + 1).state = Len(b.pairs) + 1
  BY DEF Stamp
<1>4. QED
  BY <1>1, <1>2, <1>3

\* A pair of a new key, stamped on the left, on the right or as a pair of equals.
StampLeft(b, key, x)  == [create_pair_state(b, key) EXCEPT !.left_cache = x]
StampRight(b, key, x) == [create_pair_state(b, key) EXCEPT !.right_cache = x]
StampSame(b, key, x)  == [create_pair_state(b, key) EXCEPT !.same_cache = x]

LEMMA CreateShape ==
    ASSUME NEW P, NEW b, BookOK(b, P), NEW key, NEW x
    PROVE  /\ Created(b, create_pair_state(b, key), key)
           /\ create_pair_state(b, key).left_cache = b.left_cache
           /\ create_pair_state(b, key).right_cache = b.right_cache
           /\ Created(b, StampLeft(b, key, x), key)
           /\ StampLeft(b, key, x).left_cache = x
           /\ StampLeft(b, key, x).right_cache = b.right_cache
           /\ StampLeft(b, key, x).same_cache = b.same_cache
           /\ Created(b, StampRight(b, key, x), key)
           /\ StampRight(b, key, x).left_cache = b.left_cache
           /\ StampRight(b, key, x).right_cache = x
           /\ StampRight(b, key, x).same_cache = b.same_cache
           /\ Created(b, StampSame(b, key, x), key)
           /\ StampSame(b, key, x).left_cache = b.left_cache
           /\ StampSame(b, key, x).right_cache = b.right_cache
           /\ StampSame(b, key, x).same_cache = x
<1>1. b = [pairs |-> b.pairs, edge_group |-> b.edge_group,
           pos_prev |-> b.pos_prev, pos_next |-> b.pos_next,
           group_state |-> b.group_state, group_count |-> b.group_count,
           free_head |-> b.free_head, left_cache |-> b.left_cache,
           right_cache |-> b.right_cache, same_cache |-> b.same_cache,
           born |-> b.born, aborted |-> b.aborted]
  BY DEF BookOK, BookTypeOK
<1>2. QED
  BY <1>1 DEF create_pair_state, Created, StampLeft, StampRight, StampSame

\* A new pair, with its stamp, keeps the keys sound.
LEMMA CreatedKeys ==
    ASSUME NEW P, NEW b, BookOK(b, P), NEW merged \in Nat, KeysSound(b, merged),
           NEW key, \A s \in DOMAIN b.pairs : b.pairs[s].key # key,
           NEW c, Created(b, c, key),
           \A s \in DOMAIN b.pairs : \A v \in Nat \ {merged} :
              /\ Stamp(v, merged, s) \in c.left_cache <=> Stamp(v, merged, s) \in b.left_cache
              /\ Stamp(v, merged, s) \in c.right_cache <=> Stamp(v, merged, s) \in b.right_cache,
           \A s \in DOMAIN b.pairs :
              Stamp(merged, merged, s) \in c.same_cache <=> Stamp(merged, merged, s) \in b.same_cache,
           \A v \in Nat \ {merged} :
              /\ key = <<v, merged>> <=> Stamp(v, merged, Len(b.pairs) + 1) \in c.left_cache
              /\ key = <<merged, v>> <=> Stamp(v, merged, Len(b.pairs) + 1) \in c.right_cache,
           key = <<merged, merged>> <=> Stamp(merged, merged, Len(b.pairs) + 1) \in c.same_cache
    PROVE  KeysSound(c, merged)
<1> DEFINE n == Len(b.pairs) + 1
<1>1. /\ DOMAIN c.pairs = DOMAIN b.pairs \cup {n} /\ n \notin DOMAIN b.pairs
      /\ \A k \in DOMAIN b.pairs : c.pairs[k] = b.pairs[k]
      /\ c.pairs[n].key = key
  <2>1. /\ DOMAIN c.pairs = DOMAIN b.pairs \cup {n} /\ n \notin DOMAIN b.pairs
        /\ \A k \in DOMAIN b.pairs : c.pairs[k] = b.pairs[k]
        /\ c.pairs[n] = NewPair(key)
    BY CreatedPairs
  <2>2. QED
    BY <2>1 DEF NewPair
<1> HIDE DEF n
<1>2. KeysUnique(c)
  BY <1>1 DEF KeysSound, KeysUnique
<1>3. ASSUME NEW s \in DOMAIN c.pairs, NEW v \in Nat \ {merged}
      PROVE  /\ c.pairs[s].key = <<v, merged>> <=> Stamp(v, merged, s) \in c.left_cache
             /\ c.pairs[s].key = <<merged, v>> <=> Stamp(v, merged, s) \in c.right_cache
  <2>1. CASE s \in DOMAIN b.pairs
    BY <1>1, <2>1 DEF KeysSound, KeyStamps
  <2>2. CASE s = n
    BY <1>1, <2>2 DEF n
  <2>3. QED
    BY <1>1, <2>1, <2>2
<1>4. ASSUME NEW s \in DOMAIN c.pairs
      PROVE  c.pairs[s].key = <<merged, merged>> <=> Stamp(merged, merged, s) \in c.same_cache
  <2>1. CASE s \in DOMAIN b.pairs
    BY <1>1, <2>1 DEF KeysSound, KeyStamps
  <2>2. CASE s = n
    BY <1>1, <2>2 DEF n
  <2>3. QED
    BY <1>1, <2>1, <2>2
<1>5. QED
  BY <1>2, <1>3, <1>4 DEF KeysSound, KeyStamps

LEMMA StampedEntries ==
    ASSUME NEW cache, NEW name, NEW merged, NEW n
    PROVE  \A v, s : Stamp(v, merged, s) \in Stamped(cache, name, merged, n)
                        <=> IF v = name THEN s = n ELSE Stamp(v, merged, s) \in cache
<1> SUFFICES ASSUME NEW v, NEW s
             PROVE  Stamp(v, merged, s) \in Stamped(cache, name, merged, n)
                        <=> IF v = name THEN s = n ELSE Stamp(v, merged, s) \in cache
  OBVIOUS
<1>1. Stamp(v, merged, s).token = v /\ Stamp(v, merged, s).state = s
  BY DEF Stamp
<1>2. Stamped(cache, name, merged, n) = {c \in cache : c.token # name} \cup {Stamp(name, merged, n)}
  BY DEF Stamped, Stamp
<1>3. Stamp(name, merged, n).token = name /\ Stamp(name, merged, n).state = n
  BY DEF Stamp
<1>4. QED
  BY <1>1, <1>2, <1>3

LEMMA GotSame ==
    ASSUME NEW P, NEW b, BookOK(b, P), NEW merged \in Nat, KeysSound(b, merged)
    PROVE  LET g == get_same_pair_state(b, merged)
           IN  GotPair(b, g, <<merged, merged>>) /\ KeysSound(g.book, merged)
<1> DEFINE g == get_same_pair_state(b, merged)
           key == <<merged, merged>>
           n == Len(b.pairs) + 1
           x == Stamped({}, merged, merged, n)
           c == StampSame(b, key, x)
<1>1. CASE Hits(b.same_cache, merged, merged) # {}
  <2> DEFINE s == Found(Hits(b.same_cache, merged, merged))
  <2>1. s \in DOMAIN b.pairs /\ Stamp(merged, merged, s) \in b.same_cache
    BY <1>1, HitKey
  <2>2. g.book = b /\ g.state = s
    BY <1>1 DEF get_same_pair_state
  <2> HIDE DEF s, g
  <2>3. b.pairs[s].key = key
    BY <2>1 DEF KeysSound, KeyStamps
  <2>4. QED
    BY <2>1, <2>2, <2>3 DEF GotPair, g
<1>2. CASE Hits(b.same_cache, merged, merged) = {}
  <2>1. g.book = c /\ g.state = n
    BY <1>2 DEF get_same_pair_state, StampSame
  <2>2. \A s : Stamp(merged, merged, s) \notin b.same_cache
    BY <1>2, HitKey
  <2>3. \A s \in DOMAIN b.pairs : b.pairs[s].key # key
    BY <2>2 DEF KeysSound, KeyStamps
  <2>4. /\ Created(b, c, key) /\ c.left_cache = b.left_cache /\ c.right_cache = b.right_cache
        /\ c.same_cache = x
    BY CreateShape
  <2>5. \A s : Stamp(merged, merged, s) \in x <=> s = n
    BY StampedEntries
  <2>6. /\ \A v : Stamp(v, merged, n) \notin b.left_cache /\ Stamp(v, merged, n) \notin b.right_cache
        /\ n \notin DOMAIN b.pairs
    BY <2>4, StampedPairs, CreatedPairs
  <2>7. \A v \in Nat \ {merged} : key # <<v, merged>> /\ key # <<merged, v>>
    OBVIOUS
  <2> HIDE DEF c, x, key, g
  <2>8. KeysSound(c, merged)
    <3>1. \A s \in DOMAIN b.pairs : Stamp(merged, merged, s) \in c.same_cache
                                       <=> Stamp(merged, merged, s) \in b.same_cache
      BY <2>2, <2>4, <2>5, <2>6
    <3>2. key = <<merged, merged>> <=> Stamp(merged, merged, Len(b.pairs) + 1) \in c.same_cache
      BY <2>4, <2>5 DEF key
    <3>3. \A v \in Nat \ {merged} :
             /\ key = <<v, merged>> <=> Stamp(v, merged, Len(b.pairs) + 1) \in c.left_cache
             /\ key = <<merged, v>> <=> Stamp(v, merged, Len(b.pairs) + 1) \in c.right_cache
      BY <2>4, <2>6, <2>7
    <3> HIDE DEF n
    <3>4. QED
      BY <2>3, <2>4, <3>1, <3>2, <3>3, CreatedKeys
  <2>9. QED
    BY <2>1, <2>4, <2>8 DEF GotPair, g, key
<1>3. QED
  BY <1>1, <1>2

LEMMA GotLeft ==
    ASSUME NEW P, NEW b, BookOK(b, P), NEW merged \in Nat, KeysSound(b, merged), NEW left \in Nat
    PROVE  LET g == get_left_pair_state(b, left, merged)
           IN  GotPair(b, g, <<left, merged>>) /\ KeysSound(g.book, merged)
<1> DEFINE g == get_left_pair_state(b, left, merged)
           key == <<left, merged>>
           n == Len(b.pairs) + 1
           x == Stamped(b.left_cache, left, merged, n)
           c == StampLeft(b, key, x)
<1>0. CASE left = merged
  <2>1. g = get_same_pair_state(b, merged)
    BY <1>0 DEF get_left_pair_state
  <2>2. QED
    BY <1>0, <2>1, GotSame
<1>1. CASE left # merged /\ Hits(b.left_cache, left, merged) # {}
  <2> DEFINE s == Found(Hits(b.left_cache, left, merged))
  <2>1. s \in DOMAIN b.pairs /\ Stamp(left, merged, s) \in b.left_cache
    BY <1>1, HitKey
  <2>2. g.book = b /\ g.state = s
    BY <1>1 DEF get_left_pair_state
  <2> HIDE DEF s, g
  <2>3. b.pairs[s].key = key
    BY <1>1, <2>1 DEF KeysSound, KeyStamps
  <2>4. QED
    BY <2>1, <2>2, <2>3 DEF GotPair, g
<1>2. CASE left # merged /\ Hits(b.left_cache, left, merged) = {}
  <2>1. g.book = c /\ g.state = n
    <3>1. create_pair_state(b, key).left_cache = b.left_cache
      BY CreateShape
    <3>2. QED
      BY <1>2, <3>1 DEF get_left_pair_state, StampLeft
  <2>2. \A s : Stamp(left, merged, s) \notin b.left_cache
    BY <1>2, HitKey
  <2>3. \A s \in DOMAIN b.pairs : b.pairs[s].key # key
    BY <1>2, <2>2 DEF KeysSound, KeyStamps
  <2>4. /\ Created(b, c, key) /\ c.left_cache = x /\ c.right_cache = b.right_cache
        /\ c.same_cache = b.same_cache
    BY CreateShape
  <2>5. \A v, s : Stamp(v, merged, s) \in x
                     <=> IF v = left THEN s = n ELSE Stamp(v, merged, s) \in b.left_cache
    BY StampedEntries
  <2>6. /\ \A v : /\ Stamp(v, merged, n) \notin b.left_cache
                  /\ Stamp(v, merged, n) \notin b.right_cache
                  /\ Stamp(v, merged, n) \notin b.same_cache
        /\ n \notin DOMAIN b.pairs
    BY <2>4, StampedPairs, CreatedPairs
  <2>7. /\ \A v \in Nat \ {merged} : (key = <<v, merged>> <=> v = left) /\ key # <<merged, v>>
        /\ key # <<merged, merged>>
    BY <1>2
  <2> HIDE DEF c, x, key, g
  <2>8. KeysSound(c, merged)
    <3>1. \A s \in DOMAIN b.pairs : \A v \in Nat \ {merged} :
             Stamp(v, merged, s) \in c.left_cache <=> Stamp(v, merged, s) \in b.left_cache
      BY <2>2, <2>4, <2>5, <2>6
    <3>2. \A v \in Nat \ {merged} :
             /\ key = <<v, merged>> <=> Stamp(v, merged, Len(b.pairs) + 1) \in c.left_cache
             /\ key = <<merged, v>> <=> Stamp(v, merged, Len(b.pairs) + 1) \in c.right_cache
      BY <2>4, <2>5, <2>6, <2>7
    <3>3. key = <<merged, merged>> <=> Stamp(merged, merged, Len(b.pairs) + 1) \in c.same_cache
      BY <2>4, <2>6, <2>7
    <3> HIDE DEF n
    <3>4. QED
      BY <2>3, <2>4, <3>1, <3>2, <3>3, CreatedKeys
  <2>9. QED
    BY <2>1, <2>4, <2>8 DEF GotPair, g, key
<1>3. QED
  BY <1>0, <1>1, <1>2

LEMMA GotRight ==
    ASSUME NEW P, NEW b, BookOK(b, P), NEW merged \in Nat, KeysSound(b, merged), NEW right \in Nat
    PROVE  LET g == get_right_pair_state(b, merged, right)
           IN  GotPair(b, g, <<merged, right>>) /\ KeysSound(g.book, merged)
<1> DEFINE g == get_right_pair_state(b, merged, right)
           key == <<merged, right>>
           n == Len(b.pairs) + 1
           x == Stamped(b.right_cache, right, merged, n)
           c == StampRight(b, key, x)
<1>0. CASE right = merged
  <2>1. g = get_same_pair_state(b, merged)
    BY <1>0 DEF get_right_pair_state
  <2>2. QED
    BY <1>0, <2>1, GotSame
<1>1. CASE right # merged /\ Hits(b.right_cache, right, merged) # {}
  <2> DEFINE s == Found(Hits(b.right_cache, right, merged))
  <2>1. s \in DOMAIN b.pairs /\ Stamp(right, merged, s) \in b.right_cache
    BY <1>1, HitKey
  <2>2. g.book = b /\ g.state = s
    BY <1>1 DEF get_right_pair_state
  <2> HIDE DEF s, g
  <2>3. b.pairs[s].key = key
    BY <1>1, <2>1 DEF KeysSound, KeyStamps
  <2>4. QED
    BY <2>1, <2>2, <2>3 DEF GotPair, g
<1>2. CASE right # merged /\ Hits(b.right_cache, right, merged) = {}
  <2>1. g.book = c /\ g.state = n
    <3>1. create_pair_state(b, key).right_cache = b.right_cache
      BY CreateShape
    <3>2. QED
      BY <1>2, <3>1 DEF get_right_pair_state, StampRight
  <2>2. \A s : Stamp(right, merged, s) \notin b.right_cache
    BY <1>2, HitKey
  <2>3. \A s \in DOMAIN b.pairs : b.pairs[s].key # key
    BY <1>2, <2>2 DEF KeysSound, KeyStamps
  <2>4. /\ Created(b, c, key) /\ c.left_cache = b.left_cache /\ c.right_cache = x
        /\ c.same_cache = b.same_cache
    BY CreateShape
  <2>5. \A v, s : Stamp(v, merged, s) \in x
                     <=> IF v = right THEN s = n ELSE Stamp(v, merged, s) \in b.right_cache
    BY StampedEntries
  <2>6. /\ \A v : /\ Stamp(v, merged, n) \notin b.left_cache
                  /\ Stamp(v, merged, n) \notin b.right_cache
                  /\ Stamp(v, merged, n) \notin b.same_cache
        /\ n \notin DOMAIN b.pairs
    BY <2>4, StampedPairs, CreatedPairs
  <2>7. /\ \A v \in Nat \ {merged} : (key = <<merged, v>> <=> v = right) /\ key # <<v, merged>>
        /\ key # <<merged, merged>>
    BY <1>2
  <2> HIDE DEF c, x, key, g
  <2>8. KeysSound(c, merged)
    <3>1. \A s \in DOMAIN b.pairs : \A v \in Nat \ {merged} :
             Stamp(v, merged, s) \in c.right_cache <=> Stamp(v, merged, s) \in b.right_cache
      BY <2>2, <2>4, <2>5, <2>6
    <3>2. \A v \in Nat \ {merged} :
             /\ key = <<v, merged>> <=> Stamp(v, merged, Len(b.pairs) + 1) \in c.left_cache
             /\ key = <<merged, v>> <=> Stamp(v, merged, Len(b.pairs) + 1) \in c.right_cache
      BY <2>4, <2>5, <2>6, <2>7
    <3>3. key = <<merged, merged>> <=> Stamp(merged, merged, Len(b.pairs) + 1) \in c.same_cache
      BY <2>4, <2>6, <2>7
    <3> HIDE DEF n
    <3>4. QED
      BY <2>3, <2>4, <3>1, <3>2, <3>3, CreatedKeys
  <2>9. QED
    BY <2>1, <2>4, <2>8 DEF GotPair, g, key
<1>3. QED
  BY <1>0, <1>1, <1>2

Got(b, g, key) ==
    /\ Alike(b, g.book)
    /\ g.state \in DOMAIN g.book.pairs /\ g.book.pairs[g.state].key = key

\* A get_ operator changes no count, list or group, and a pair it creates has no edge.
LEMMA GotSound ==
    ASSUME NEW P, Slots(P), NEW F \in [P -> Nat], NEW b, NEW S, Sound(b, P, F, S),
           NEW key, NEW g, GotPair(b, g, key), BookOK(g.book, P),
           g.state \in DOMAIN b.pairs => g.state \in S
    PROVE  Sound(g.book, P, F, S \cup {g.state}) /\ Got(b, g, key)
<1> USE DEF Got
<1>1. CASE g.book = b /\ g.state \in DOMAIN b.pairs /\ b.pairs[g.state].key = key
  <2>1. S \cup {g.state} = S
    BY <1>1
  <2>2. Alike(b, b)
    <3>1. \A p \in DOMAIN b.edge_group :
             b.edge_group[p] # no_position => b.group_state[b.edge_group[p]] \in DOMAIN b.pairs
      BY GroupFacts DEF Slots, Sound
    <3>2. QED
      BY <3>1 DEF Alike, EdgesOf
  <2>3. QED
    BY <1>1, <2>1, <2>2
<1>2. CASE Created(b, g.book, key) /\ g.state = Len(b.pairs) + 1
  <2>1. BookOK(b, P)
    BY DEF Sound
  <2>2. Alike(b, g.book)
    BY <1>2, <2>1, CreatedAlike
  <2>3. Sound(g.book, P, F, S \cup {g.state})
    BY <1>2, CreatedSound
  <2>4. g.state \in DOMAIN g.book.pairs /\ g.book.pairs[g.state].key = key
    <3>1. g.state \in DOMAIN g.book.pairs /\ g.book.pairs[g.state] = NewPair(key)
      BY <1>2, <2>1, CreatedPairs
    <3>2. QED
      BY <3>1 DEF NewPair
  <2>5. QED
    BY <2>2, <2>3, <2>4
<1>3. QED
  BY <1>1, <1>2 DEF GotPair

-----------------------------------------------------------------------------
(* build_state's edges.                                                    *)

LEMMA BuildAborted ==
    ASSUME NEW P, NEW b, BookOK(b, P), NEW start, NEW key, NEW word, NEW f
    PROVE  build_edge(b, start, key, word, f).aborted = b.aborted
<1> DEFINE c == BuildBook(b, key)
<1>1. Created(b, create_pair_state(b, key), key)
  BY CreateShape
<1>2. "aborted" \in DOMAIN b
  BY DEF BookOK, BookTypeOK
<1>3. c.aborted = b.aborted /\ "aborted" \in DOMAIN c
  <2>1. CASE c = b
    BY <1>2, <2>1
  <2>2. CASE c = create_pair_state(b, key)
    <3>1. "aborted" \in DOMAIN create_pair_state(b, key)
      BY <1>2 DEF create_pair_state
    <3> HIDE DEF c
    <3>2. QED
      BY <1>1, <2>2, <3>1 DEF Created
  <2>3. QED
    BY <2>1, <2>2 DEF BuildBook
<1> HIDE DEF c
<1>4. build_edge(b, start, key, word, f).aborted = c.aborted
  BY <1>3 DEF build_edge, link_append, c, BuildBook
<1>5. QED
  BY <1>3, <1>4

\* The pair that build_state finds for a key or creates.
LEMMA BuildGot ==
    ASSUME NEW P, NEW b, BookOK(b, P), NEW key
    PROVE  GotPair(b, [book |-> BuildBook(b, key), state |-> BuildPair(b, key)], key)
<1> DEFINE known == {k \in DOMAIN b.pairs : b.pairs[k].key = key}
<1>1. CASE known # {}
  <2>1. BuildBook(b, key) = b /\ BuildPair(b, key) \in known
    BY <1>1 DEF BuildBook, BuildPair
  <2>2. QED
    BY <2>1 DEF GotPair
<1>2. CASE known = {}
  <2>1. BuildBook(b, key) = create_pair_state(b, key)
    BY <1>2 DEF BuildBook
  <2>2. Created(b, BuildBook(b, key), key)
    BY <2>1, CreateShape
  <2>3. BuildPair(b, key) = Len(BuildBook(b, key).pairs)
    BY <1>2 DEF BuildPair
  <2> DEFINE bp == b.pairs
  <2>4. BuildBook(b, key).pairs = Append(bp, NewPair(key)) /\ bp \in Seq(Pair(P))
    BY <2>2 DEF Created, BookOK, BookTypeOK
  <2> HIDE DEF bp
  <2>5. BuildPair(b, key) = Len(bp) + 1
    BY <2>3, <2>4
  <2>6. QED
    BY <2>2, <2>5 DEF GotPair, bp
<1>3. QED
  BY <1>1, <1>2

\* What build_state does to the book b to make it d: the pair of the key is found or
\* created, and the edge is put into it.
EdgeBuilt(b, c, d, start, s, key) ==
    /\ GotPair(b, [book |-> c, state |-> s], key)
    /\ Alike(b, c) /\ s \in DOMAIN c.pairs /\ c.pairs[s].key = key
    /\ EdgePut(c, d, start, s)

\* The edge at start can be put into the book b.
Buildable(b, P, F, S, V, key, start, w, f) ==
    /\ Slots(P) /\ F \in [P -> Nat] /\ Sound(b, P, F, S)
    /\ DOMAIN b.pairs \subseteq S /\ KeysUnique(b)
    /\ V \in SUBSET Nat /\ KeysIn(b, V) /\ key \in V \X V
    /\ start \in P /\ b.edge_group[start] = no_position /\ w = start[1] /\ f = F[start]
    /\ \A s \in DOMAIN b.pairs : Appendable(b, s, start)

LEMMA PutBuildEdge ==
    ASSUME NEW P, NEW F, NEW b, NEW S, NEW V, NEW key, NEW start,
           NEW w, NEW f, Buildable(b, P, F, S, V, key, start, w, f),
           NEW d, d = build_edge(b, start, key, w, f)
    PROVE  /\ Sound(d, P, F, S \cup {BuildPair(b, key)})
           /\ EdgeBuilt(b, BuildBook(b, key), d, start, BuildPair(b, key), key)
           /\ KeysUnique(d) /\ d.aborted = b.aborted
<1> DEFINE c == BuildBook(b, key)
           s == BuildPair(b, key)
           g == [book |-> c, state |-> s]
<1>0. /\ Slots(P) /\ F \in [P -> Nat] /\ Sound(b, P, F, S)
      /\ DOMAIN b.pairs \subseteq S /\ KeysUnique(b)
      /\ V \in SUBSET Nat /\ KeysIn(b, V) /\ key \in V \X V
      /\ start \in P /\ b.edge_group[start] = no_position /\ w = start[1] /\ f = F[start]
      /\ \A k \in DOMAIN b.pairs : Appendable(b, k, start)
  BY DEF Buildable
<1>1. BookOK(b, P) /\ IsFiniteSet(P) /\ start[1] \in Nat /\ F[start] \in Nat
  BY <1>0 DEF Sound, Slots
<1>2. BookOK(c, P) /\ c.edge_group = b.edge_group /\ EdgeInserted(c, d, start, s, start[1], F[start])
  BY <1>0, <1>1, BuildShape
<1>3. BookOK(d, P)
  BY <1>0, <1>1, BuildEdge
<1>4. GotPair(b, g, key)
  BY <1>0, <1>1, BuildGot
<1>5. d.aborted = b.aborted
  BY <1>0, <1>1, BuildAborted
<1> HIDE DEF c, s
<1>6. /\ Sound(c, P, F, S \cup {s}) /\ Alike(b, c)
      /\ s \in DOMAIN c.pairs /\ c.pairs[s].key = key
  <2>1. g.book = c /\ g.state = s
    OBVIOUS
  <2> HIDE DEF g
  <2>2. (g.state \in DOMAIN b.pairs => g.state \in S) /\ BookOK(g.book, P)
    BY <1>0, <1>2, <2>1
  <2>3. Sound(g.book, P, F, S \cup {g.state}) /\ Got(b, g, key)
    BY <1>0, <1>4, <2>2, GotSound
  <2>4. QED
    BY <2>1, <2>3 DEF Got
<1>7. Appendable(c, s, start)
  <2>1. CASE s \in DOMAIN b.pairs
    BY <1>0, <1>6, <2>1 DEF Alike, Appendable
  <2>2. CASE s \notin DOMAIN b.pairs
    BY <1>0, <1>6, <2>2 DEF Alike, Appendable
  <2>3. QED
    BY <2>1, <2>2
<1>8. Sound(d, P, F, S \cup {s}) /\ EdgePut(c, d, start, s)
  BY <1>0, <1>2, <1>3, <1>6, <1>7, InsertSound
<1>9. KeysUnique(c)
  <2>1. CASE c = b
    BY <1>0, <2>1
  <2>2. CASE c # b
    <3>1. Created(b, c, key) /\ \A k \in DOMAIN b.pairs : b.pairs[k].key # key
      BY <1>4, <2>2 DEF GotPair, c, BuildBook
    <3>2. /\ DOMAIN c.pairs = DOMAIN b.pairs \cup {Len(b.pairs) + 1}
          /\ \A k \in DOMAIN b.pairs : c.pairs[k] = b.pairs[k]
          /\ c.pairs[Len(b.pairs) + 1] = NewPair(key)
      BY <1>1, <3>1, CreatedPairs
    <3>3. c.pairs[Len(b.pairs) + 1].key = key
      BY <3>2 DEF NewPair
    <3>4. QED
      BY <1>0, <3>1, <3>2, <3>3 DEF KeysUnique
  <2>3. QED
    BY <2>1, <2>2
<1>10. KeysUnique(d)
  BY <1>8, <1>9 DEF KeysUnique, EdgePut
<1>11. QED
  BY <1>4, <1>5, <1>6, <1>8, <1>10 DEF EdgeBuilt, c, s

-----------------------------------------------------------------------------
(* The book between rounds.                                                *)

\* Only the lists of some pairs have changed, or the list of newborn pairs.
LEMMA SoundSame ==
    ASSUME NEW P, NEW F, NEW b, NEW S, Sound(b, P, F, S), NEW T,
           \A s \in T : s \in S \/ s \notin DOMAIN b.pairs \/ EdgesOf(b, s) = {},
           NEW c, BookOK(c, P), c.pairs = b.pairs, c.edge_group = b.edge_group,
           c.group_state = b.group_state, c.group_count = b.group_count,
           c.pos_next = b.pos_next, c.pos_prev = b.pos_prev
    PROVE  /\ Sound(c, P, F, T) /\ \A k : EdgesOf(c, k) = EdgesOf(b, k)
           /\ \A p : KeyOf(c, p) = KeyOf(b, p)
<1>1. \A k : EdgesOf(c, k) = EdgesOf(b, k)
  BY DEF EdgesOf
<1>2. \A p : KeyOf(c, p) = KeyOf(b, p)
  BY DEF KeyOf
<1>3. \A g : Members(c, g) = Members(b, g)
  BY DEF Members
<1>4. Used(c) = Used(b)
  BY <1>3 DEF Used
<1>5. \A k : GroupsOf(c, k) = GroupsOf(b, k)
  BY <1>4 DEF GroupsOf
<1>6. CountsSound(c, F)
  BY <1>1, <1>5 DEF Sound, Exact, CountsSound
<1>7. GroupsPerWord(c) /\ LastGroups(c)
  BY <1>3 DEF Sound, Exact, GroupsPerWord, LastGroups
<1>8. PICK rank \in [P -> Nat] : ListsSound(b, S, rank)
  BY DEF Sound, Ordered
<1>9. ListsSound(c, T, rank)
  <2> SUFFICES ASSUME NEW s \in DOMAIN b.pairs
               PROVE  /\ Linked(EdgesOf(c, s), rank, c.pos_next, c.pos_prev)
                      /\ Sorted(EdgesOf(c, s), rank, c.pairs[s].last_word)
                      /\ EndsEmpty(EdgesOf(c, s), c.pairs[s])
                      /\ s \in T => EndsAt(EdgesOf(c, s), rank, c.pairs[s])
    BY DEF ListsSound
  <2>1. /\ Linked(EdgesOf(c, s), rank, c.pos_next, c.pos_prev)
        /\ Sorted(EdgesOf(c, s), rank, c.pairs[s].last_word)
        /\ EndsEmpty(EdgesOf(c, s), c.pairs[s])
        /\ s \in S => EndsAt(EdgesOf(c, s), rank, c.pairs[s])
    BY <1>1, <1>8 DEF ListsSound
  <2>2. EdgesOf(c, s) = {} => EndsAt(EdgesOf(c, s), rank, c.pairs[s])
    BY DEF EndsAt
  <2>3. QED
    BY <1>1, <2>1, <2>2
<1>10. QED
  BY <1>1, <1>2, <1>6, <1>7, <1>8, <1>9 DEF Sound, Exact, Ordered

\* From b to c pair s has lost the ends of its list, and nothing else has changed.
Dropped(b, c, s) ==
    /\ SameButLists(b, c)
    /\ c.pos_next = b.pos_next /\ c.pos_prev = b.pos_prev
    /\ c.pairs[s].positions_head = no_position /\ c.pairs[s].positions_tail = no_position
    /\ \A k \in DOMAIN b.pairs \ {s} : c.pairs[k] = b.pairs[k]

\* A pair's list is handed over: its ends are dropped, its links stay.
LEMMA ListDropped ==
    ASSUME NEW P, NEW F, NEW b, BookOK(b, P), Exact(b, F), NEW S, NEW rank, ListsSound(b, S, rank),
           NEW s \in DOMAIN b.pairs, NEW c, Dropped(b, c, s), NEW T \in SUBSET (S \ {s})
    PROVE  /\ Exact(c, F) /\ ListsSound(c, T, rank)
           /\ \A k : EdgesOf(c, k) = EdgesOf(b, k)
           /\ \A p \in P : KeyOf(c, p) = KeyOf(b, p)
<1>0. /\ SameButLists(b, c)
      /\ c.pos_next = b.pos_next /\ c.pos_prev = b.pos_prev
      /\ c.pairs[s].positions_head = no_position /\ c.pairs[s].positions_tail = no_position
      /\ \A k \in DOMAIN b.pairs \ {s} : c.pairs[k] = b.pairs[k]
  BY DEF Dropped
<1>1. /\ c.edge_group = b.edge_group /\ c.group_state = b.group_state
      /\ c.group_count = b.group_count /\ DOMAIN c.pairs = DOMAIN b.pairs
      /\ \A k \in DOMAIN b.pairs : SamePair(b.pairs[k], c.pairs[k])
  BY <1>0 DEF SameButLists
<1>2. \A k : EdgesOf(c, k) = EdgesOf(b, k)
  BY <1>1 DEF EdgesOf
<1>3. \A p \in P : KeyOf(c, p) = KeyOf(b, p)
  <2>1. \A p \in P : b.edge_group[p] # no_position => b.group_state[b.edge_group[p]] \in DOMAIN b.pairs
    BY DEF BookOK, BookTypeOK, GroupsSound, IdsInRange
  <2>2. QED
    BY <1>1, <2>1 DEF KeyOf, SamePair
<1>4. \A g : Members(c, g) = Members(b, g)
  BY <1>1 DEF Members
<1>5. \A k : GroupsOf(c, k) = GroupsOf(b, k)
  BY <1>1, <1>4 DEF GroupsOf, Used
<1>6. CountsSound(c, F)
  BY <1>1, <1>2, <1>5 DEF Exact, CountsSound, SamePair
<1>7. GroupsPerWord(c)
  BY <1>1 DEF Exact, GroupsPerWord
<1>8. LastGroups(c)
  BY <1>1, <1>4 DEF Exact, LastGroups, SamePair
<1>9. ListsSound(c, T, rank)
  <2> SUFFICES ASSUME NEW k \in DOMAIN b.pairs
               PROVE  /\ Linked(EdgesOf(c, k), rank, c.pos_next, c.pos_prev)
                      /\ Sorted(EdgesOf(c, k), rank, c.pairs[k].last_word)
                      /\ EndsEmpty(EdgesOf(c, k), c.pairs[k])
                      /\ k \in T => EndsAt(EdgesOf(c, k), rank, c.pairs[k])
    BY <1>1 DEF ListsSound
  <2>1. /\ Linked(EdgesOf(b, k), rank, b.pos_next, b.pos_prev)
        /\ Sorted(EdgesOf(b, k), rank, b.pairs[k].last_word)
        /\ EndsEmpty(EdgesOf(b, k), b.pairs[k])
        /\ k \in S => EndsAt(EdgesOf(b, k), rank, b.pairs[k])
    BY DEF ListsSound
  <2>2. c.pairs[k].last_word = b.pairs[k].last_word
    BY <1>1 DEF SamePair
  <2>3. CASE k = s
    <3>1. EndsEmpty(EdgesOf(c, k), c.pairs[k])
      BY <1>0, <2>3 DEF EndsEmpty
    <3>2. QED
      BY <1>0, <1>2, <2>1, <2>2, <2>3, <3>1
  <2>4. CASE k # s
    BY <1>0, <1>2, <2>1, <2>4
  <2>5. QED
    BY <2>3, <2>4
<1>10. QED
  BY <1>2, <1>3, <1>6, <1>7, <1>8, <1>9 DEF Exact

\* An empty book is exact.
LEMMA EmptySound ==
    ASSUME NEW P, NEW F, NEW S, BookOK(EmptyBook(P), P)
    PROVE  /\ Sound(EmptyBook(P), P, F, S) /\ KeysUnique(EmptyBook(P))
           /\ \A p \in P : KeyOf(EmptyBook(P), p) = no_position
<1> DEFINE b == EmptyBook(P)
<1>1. /\ DOMAIN b.pairs = {} /\ DOMAIN b.edge_group = P
      /\ \A p \in P : b.edge_group[p] = no_position
  BY DEF EmptyBook
<1> HIDE DEF b
<1>2. Exact(b, F)
  BY <1>1 DEF Exact, CountsSound, GroupsPerWord, LastGroups
<1> DEFINE zero == [p \in P |-> 0]
<1>3. zero \in [P -> Nat] /\ ListsSound(b, S, zero)
  BY <1>1 DEF ListsSound
<1>4. Ordered(b, P, S)
  BY <1>3 DEF Ordered
<1>5. KeysUnique(b) /\ \A p \in P : KeyOf(b, p) = no_position
  BY <1>1 DEF KeysUnique, KeyOf
<1>6. QED
  BY <1>2, <1>4, <1>5 DEF Sound, b

-----------------------------------------------------------------------------
(* The free list reaches every group that nobody uses.                     *)

\* The links nx lead from head through all of E and end there.
Chained(E, head, nx) ==
    \E rank \in [Nat -> Nat] : \E pv \in [Nat -> Nat \cup {no_position}] :
        /\ Linked(E, rank, nx, pv)
        /\ IF E = {} THEN head = no_position ELSE FirstOf(E, rank, head)

FreeListed(b) == Chained(Unused(b), b.free_head, b.group_count)

LEMMA ChainedSame ==
    ASSUME NEW E, NEW head, NEW nx, Chained(E, head, nx), NEW nx2, \A p \in E : nx2[p] = nx[p]
    PROVE  Chained(E, head, nx2)
<1>1. PICK rank \in [Nat -> Nat], pv \in [Nat -> Nat \cup {no_position}] :
         /\ Linked(E, rank, nx, pv)
         /\ IF E = {} THEN head = no_position ELSE FirstOf(E, rank, head)
  BY DEF Chained
<1>2. Linked(E, rank, nx2, pv)
  BY <1>1 DEF Linked
<1>3. QED
  BY <1>1, <1>2 DEF Chained

\* A group that is put in front.
LEMMA ChainedPush ==
    ASSUME NEW E \in SUBSET Nat, NEW head, NEW nx, Chained(E, head, nx),
           NEW g \in Nat, g \notin E, NEW nx2, \A p \in E : nx2[p] = nx[p], nx2[g] = head
    PROVE  Chained(E \cup {g}, g, nx2)
<1>1. PICK rank \in [Nat -> Nat], pv \in [Nat -> Nat \cup {no_position}] :
         /\ Linked(E, rank, nx, pv)
         /\ IF E = {} THEN head = no_position ELSE FirstOf(E, rank, head)
  BY DEF Chained
<1> DEFINE rank2 == [p \in Nat |-> IF p = g THEN 0 ELSE rank[p] + 1]
           pv2 == [p \in Nat |-> IF p = g THEN no_position ELSE IF p = head THEN g ELSE pv[p]]
           D == E \cup {g}
<1>2. rank2 \in [Nat -> Nat] /\ pv2 \in [Nat -> Nat \cup {no_position}]
  BY <1>1
<1>3. /\ rank2[g] = 0 /\ pv2[g] = no_position
      /\ \A p \in E : /\ rank2[p] = rank[p] + 1 /\ rank[p] \in Nat
                      /\ pv2[p] = IF p = head THEN g ELSE pv[p]
  BY <1>1
<1>4. no_position \notin Nat
  BY NoPositionAssumption
<1> HIDE DEF rank2, pv2
<1>5. /\ \A p, q \in E : rank[p] = rank[q] => p = q
      /\ \A p \in E : IF nx[p] = no_position THEN LastOf(E, rank, p) ELSE Adjacent(E, rank, p, nx[p])
      /\ \A p \in E : IF pv[p] = no_position THEN FirstOf(E, rank, p) ELSE Adjacent(E, rank, pv[p], p)
  BY <1>1 DEF Linked
<1>6. \A p, q \in D : rank2[p] = rank2[q] => p = q
  BY <1>3, <1>5
<1>7. \A p \in E : LastOf(E, rank, p) => LastOf(D, rank2, p)
  BY <1>3 DEF LastOf
<1>8. \A p \in E : \A q : Adjacent(E, rank, p, q) => Adjacent(D, rank2, p, q)
  BY <1>3 DEF Adjacent
<1>9. FirstOf(D, rank2, g)
  BY <1>3 DEF FirstOf
<1>10. \A p \in E : FirstOf(E, rank, p) => p = head /\ Adjacent(D, rank2, g, p)
  <2> SUFFICES ASSUME NEW p \in E, FirstOf(E, rank, p) PROVE p = head /\ Adjacent(D, rank2, g, p)
    OBVIOUS
  <2>1. FirstOf(E, rank, head)
    BY <1>1
  <2>2. p = head
    BY <1>3, <1>5, <2>1 DEF FirstOf
  <2>3. QED
    BY <1>3, <2>2 DEF FirstOf, Adjacent
<1>11. \A p \in D : IF nx2[p] = no_position THEN LastOf(D, rank2, p)
                    ELSE Adjacent(D, rank2, p, nx2[p])
  <2> TAKE p \in D
  <2>1. CASE p = g
    <3>1. CASE E = {}
      <4>1. nx2[g] = no_position
        BY <1>1, <3>1
      <4>2. LastOf(D, rank2, g)
        BY <1>3, <3>1 DEF LastOf
      <4>3. QED
        BY <2>1, <4>1, <4>2
    <3>2. CASE E # {}
      <4>1. FirstOf(E, rank, head) /\ head \in E
        BY <1>1, <3>2 DEF FirstOf
      <4>2. Adjacent(D, rank2, g, head) /\ head # no_position
        BY <1>4, <1>10, <4>1
      <4>3. QED
        BY <2>1, <4>2
    <3>3. QED
      BY <3>1, <3>2
  <2>2. CASE p # g
    BY <1>5, <1>7, <1>8, <2>2
  <2>3. QED
    BY <2>1, <2>2
<1>12. \A p \in D : IF pv2[p] = no_position THEN FirstOf(D, rank2, p)
                    ELSE Adjacent(D, rank2, pv2[p], p)
  <2> TAKE p \in D
  <2>1. CASE p = g
    BY <1>3, <1>9, <2>1
  <2>2. CASE p # g /\ p = head
    <3>1. FirstOf(E, rank, p)
      BY <1>1, <2>2
    <3>2. QED
      BY <1>3, <1>4, <1>10, <2>2, <3>1
  <2>3. CASE p # g /\ p # head
    <3>1. p \in E /\ pv2[p] = pv[p] /\ ~FirstOf(E, rank, p)
      BY <1>3, <1>10, <2>3
    <3>2. pv[p] # no_position /\ Adjacent(E, rank, pv[p], p)
      BY <1>5, <3>1
    <3>3. pv[p] \in E
      BY <3>2 DEF Adjacent
    <3>4. QED
      BY <1>8, <3>1, <3>2, <3>3
  <2>4. QED
    BY <2>1, <2>2, <2>3
<1>13. Linked(D, rank2, nx2, pv2)
  BY <1>6, <1>11, <1>12 DEF Linked
<1>14. QED
  BY <1>2, <1>9, <1>13 DEF Chained

\* The group in front is taken.
LEMMA ChainedPop ==
    ASSUME NEW E \in SUBSET Nat, NEW head \in E, NEW nx, Chained(E, head, nx),
           NEW nx2, \A p \in E \ {head} : nx2[p] = nx[p]
    PROVE  Chained(E \ {head}, nx[head], nx2)
<1>1. PICK rank \in [Nat -> Nat], pv \in [Nat -> Nat \cup {no_position}] :
         Linked(E, rank, nx, pv) /\ FirstOf(E, rank, head)
  BY DEF Chained
<1> DEFINE h2 == nx[head]
           D == E \ {head}
           pv2 == [p \in Nat |-> IF p = h2 THEN no_position ELSE pv[p]]
<1>2. pv2 \in [Nat -> Nat \cup {no_position}]
  BY <1>1
<1>3. \A p \in E : rank[p] \in Nat /\ pv2[p] = IF p = h2 THEN no_position ELSE pv[p]
  BY <1>1
<1>4. no_position \notin Nat
  BY NoPositionAssumption
<1> HIDE DEF pv2, h2
<1>5. /\ \A p, q \in E : rank[p] = rank[q] => p = q
      /\ \A p \in E : IF nx[p] = no_position THEN LastOf(E, rank, p) ELSE Adjacent(E, rank, p, nx[p])
      /\ \A p \in E : IF pv[p] = no_position THEN FirstOf(E, rank, p) ELSE Adjacent(E, rank, pv[p], p)
  BY <1>1 DEF Linked
<1>6. \A p \in D : rank[head] < rank[p]
  BY <1>1, <1>3, <1>5 DEF FirstOf
<1>7. \A p \in D : LastOf(E, rank, p) => LastOf(D, rank, p)
  BY DEF LastOf
<1>8. \A p \in D : \A q : Adjacent(E, rank, p, q) => Adjacent(D, rank, p, q)
  <2> SUFFICES ASSUME NEW p \in D, NEW q, Adjacent(E, rank, p, q) PROVE Adjacent(D, rank, p, q)
    OBVIOUS
  <2>1. q \in E /\ rank[p] < rank[q]
    BY DEF Adjacent
  <2>2. q # head
    BY <1>3, <1>6, <2>1
  <2>3. QED
    BY <2>1, <2>2 DEF Adjacent
<1>9. IF D = {} THEN h2 = no_position ELSE h2 \in D /\ FirstOf(D, rank, h2)
  <2>1. CASE D = {}
    <3>1. \A q : ~Adjacent(E, rank, head, q)
      BY <1>3, <2>1 DEF Adjacent
    <3>2. QED
      BY <1>5, <2>1, <3>1 DEF h2
  <2>2. CASE D # {}
    <3>1. ~LastOf(E, rank, head)
      <4>1. PICK r \in D : TRUE
        BY <2>2
      <4>2. r \in E /\ rank[head] < rank[r] /\ rank[r] \in Nat /\ rank[head] \in Nat
        BY <1>3, <1>6, <4>1
      <4>3. QED
        BY <4>2 DEF LastOf
    <3>2. Adjacent(E, rank, head, h2)
      BY <1>5, <3>1 DEF h2
    <3>3. h2 \in D
      BY <1>3, <3>2 DEF Adjacent
    <3>4. \A r \in D : rank[h2] <= rank[r]
      BY <1>3, <1>6, <3>2 DEF Adjacent
    <3>5. QED
      BY <2>2, <3>3, <3>4 DEF FirstOf
  <2>3. QED
    BY <2>1, <2>2
<1>10. \A p \in D : IF pv2[p] = no_position THEN FirstOf(D, rank, p)
                    ELSE Adjacent(D, rank, pv2[p], p)
  <2> TAKE p \in D
  <2>1. CASE p = h2
    BY <1>3, <1>9, <2>1
  <2>2. CASE p # h2
    <3>1. pv2[p] = pv[p] /\ ~FirstOf(E, rank, p)
      <4>1. rank[head] < rank[p] /\ rank[head] \in Nat /\ rank[p] \in Nat
        BY <1>3, <1>6
      <4>2. ~FirstOf(E, rank, p)
        BY <4>1 DEF FirstOf
      <4>3. QED
        BY <1>3, <2>2, <4>2
    <3>2. pv[p] # no_position /\ Adjacent(E, rank, pv[p], p)
      BY <1>5, <3>1
    <3>3. pv[p] # head
      <4> SUFFICES ASSUME pv[p] = head PROVE FALSE
        OBVIOUS
      <4>1. h2 \in D /\ FirstOf(D, rank, h2)
        BY <1>9
      <4>2. rank[h2] <= rank[p] /\ rank[head] < rank[h2]
        BY <1>6, <4>1 DEF FirstOf
      <4>3. rank[h2] <= rank[head] \/ rank[p] <= rank[h2]
        BY <3>2, <4>1 DEF Adjacent
      <4>4. rank[h2] = rank[p]
        BY <1>1, <1>3, <4>1, <4>2, <4>3
      <4>5. QED
        BY <1>5, <2>2, <4>1, <4>4
    <3>4. pv[p] \in D
      BY <3>2, <3>3 DEF Adjacent
    <3>5. QED
      BY <1>8, <3>1, <3>2, <3>4
  <2>3. QED
    BY <2>1, <2>2
<1>11. \A p \in D : IF nx2[p] = no_position THEN LastOf(D, rank, p)
                    ELSE Adjacent(D, rank, p, nx2[p])
  BY <1>5, <1>7, <1>8
<1>12. Linked(D, rank, nx2, pv2)
  BY <1>5, <1>10, <1>11 DEF Linked
<1>13. Chained(D, h2, nx2)
  BY <1>1, <1>2, <1>9, <1>12 DEF Chained
<1>14. QED
  BY <1>13 DEF h2

\* The books b and c have the same groups.
SameGroups(b, c) ==
    c.edge_group = b.edge_group /\ c.group_count = b.group_count /\ c.free_head = b.free_head

LEMMA SameFree ==
    ASSUME NEW b, NEW c, SameGroups(b, c), FreeListed(b)
    PROVE  FreeListed(c)
<1>1. Unused(c) = Unused(b)
  BY DEF SameGroups, Unused, Used, Members
<1>2. QED
  BY <1>1 DEF SameGroups, FreeListed

LEMMA EmptyFree == ASSUME NEW P PROVE FreeListed(EmptyBook(P))
<1> DEFINE b == EmptyBook(P)
           rank == [p \in Nat |-> 0]
           pv == [p \in Nat |-> no_position]
<1>1. Unused(b) = {} /\ b.free_head = no_position
  BY DEF EmptyBook, Unused
<1>2. rank \in [Nat -> Nat] /\ pv \in [Nat -> Nat \cup {no_position}]
  OBVIOUS
<1>3. Linked({}, rank, b.group_count, pv)
  BY DEF Linked
<1> HIDE DEF b, rank, pv
<1>4. QED
  BY <1>1, <1>2, <1>3 DEF FreeListed, Chained, b

\* remove_edge puts a group that has lost its last edge in front.
LEMMA RemoveFree ==
    ASSUME NEW P, IsFiniteSet(P), NEW b, BookOK(b, P), FreeListed(b), NEW start \in P, NEW f \in Nat
    PROVE  FreeListed(remove_edge(b, start, f))
<1> DEFINE c == remove_edge(b, start, f)
           g == b.edge_group[start]
           last == b.group_count[g] = 1
<1>1. CASE RemoveAborts(b, start, f)
  <2>1. c = [b EXCEPT !.aborted = TRUE]
    BY <1>1 DEF remove_edge
  <2> HIDE DEF c
  <2>2. SameGroups(b, c)
    BY <2>1 DEF BookOK, BookTypeOK, SameGroups
  <2>3. QED
    BY <2>2, SameFree DEF c
<1>2. CASE ~RemoveAborts(b, start, f)
  <2>1. EdgeRemoved(b, c, start)
    BY <1>2, RemoveFields
  <2> HIDE DEF c
  <2>2. g # no_position
    BY <1>2 DEF RemoveAborts
  <2>3. Used(c) = IF last THEN Used(b) \ {g} ELSE Used(b)
    BY <2>1, <2>2, RemovedSets
  <2>4. /\ g \in Used(b) /\ g \in DOMAIN b.group_count
        /\ b.group_count \in Seq(Nat \cup {no_position})
    BY <2>2, GroupFacts DEF BookOK, BookTypeOK
  <2> HIDE DEF g
  <2>5. /\ c.group_count = [b.group_count EXCEPT ![g] = IF last THEN b.free_head ELSE @ - 1]
        /\ c.free_head = IF last THEN g ELSE b.free_head
    BY <2>1 DEF EdgeRemoved, g
  <2>6. /\ Unused(b) \in SUBSET Nat /\ g \in Nat /\ g \notin Unused(b)
        /\ Unused(c) = IF last THEN Unused(b) \cup {g} ELSE Unused(b)
    BY <2>3, <2>4, <2>5 DEF Unused
  <2>7. /\ \A h \in Unused(b) : c.group_count[h] = b.group_count[h]
        /\ last => c.group_count[g] = b.free_head
    BY <2>4, <2>5, <2>6 DEF Unused
  <2>8. CASE last
    <3>1. Chained(Unused(b) \cup {g}, g, c.group_count)
      BY <2>6, <2>7, <2>8, ChainedPush DEF FreeListed
    <3>2. QED
      BY <2>5, <2>6, <2>8, <3>1 DEF FreeListed, c
  <2>9. CASE ~last
    <3>1. Chained(Unused(b), b.free_head, c.group_count)
      BY <2>7, ChainedSame DEF FreeListed
    <3>2. QED
      BY <2>5, <2>6, <2>9, <3>1 DEF FreeListed, c
  <2>10. QED
    BY <2>8, <2>9
<1>3. QED
  BY <1>1, <1>2

\* An edge that is added takes the group in front, or none of the free ones.
LEMMA AddedFree ==
    ASSUME NEW P, NEW b, BookOK(b, P), FreeListed(b), NEW start \in P,
           b.edge_group[start] = no_position,
           NEW s, NEW c, NEW group, EdgeAdded(b, c, start, s, group)
    PROVE  FreeListed(c)
<1>1. /\ c.edge_group = [b.edge_group EXCEPT ![start] = group]
      /\ \/ JoinsGroup(b, c, s, group)
         \/ RecyclesGroup(b, c, s, group)
         \/ OpensGroup(b, c, s, group)
  BY DEF EdgeAdded
<1>2. /\ b.edge_group \in [P -> Nat \cup {no_position}]
      /\ b.group_count \in Seq(Nat \cup {no_position})
      /\ no_position \notin Nat
      /\ b.free_head \in Unused(b) \cup {no_position}
      /\ Unused(b) \in SUBSET Nat /\ Unused(b) \subseteq DOMAIN b.group_count
  BY NoPositionAssumption DEF BookOK, BookTypeOK, GroupsSound, FreeListSound, Unused
<1>3. \A h \in Nat : Members(c, h) = IF h = group THEN Members(b, h) \cup {start} ELSE Members(b, h)
  BY <1>1, <1>2 DEF Members
<1>4. \A h \in Nat : Members(c, h) # {} <=> h = group \/ Members(b, h) # {}
  BY <1>3
<1>5. CASE JoinsGroup(b, c, s, group)
  <2>1. /\ group \in Used(b) /\ c.free_head = b.free_head
        /\ DOMAIN c.group_count = DOMAIN b.group_count
        /\ \A h \in DOMAIN b.group_count : h # group => c.group_count[h] = b.group_count[h]
    BY <1>2, <1>5 DEF JoinsGroup
  <2>2. Unused(c) = Unused(b) /\ group \notin Unused(b)
    BY <1>2, <1>4, <2>1 DEF Unused, Used
  <2>3. Chained(Unused(b), b.free_head, c.group_count)
    <3>1. \A h \in Unused(b) : c.group_count[h] = b.group_count[h]
      BY <1>2, <2>1, <2>2
    <3>2. QED
      BY <3>1, ChainedSame DEF FreeListed
  <2>4. QED
    BY <2>1, <2>2, <2>3 DEF FreeListed
<1>6. CASE RecyclesGroup(b, c, s, group)
  <2>1. /\ group = b.free_head /\ group \in Unused(b)
        /\ c.free_head = b.group_count[group]
        /\ DOMAIN c.group_count = DOMAIN b.group_count
        /\ \A h \in DOMAIN b.group_count : h # group => c.group_count[h] = b.group_count[h]
    BY <1>2, <1>6 DEF RecyclesGroup
  <2>2. Unused(c) = Unused(b) \ {group}
    BY <1>2, <1>4, <2>1 DEF Unused, Used
  <2>3. Chained(Unused(b) \ {group}, b.group_count[group], c.group_count)
    <3>1. \A h \in Unused(b) \ {group} : c.group_count[h] = b.group_count[h]
      BY <1>2, <2>1
    <3>2. Chained(Unused(b), group, b.group_count)
      BY <2>1 DEF FreeListed
    <3>3. QED
      BY <1>2, <2>1, <3>1, <3>2, ChainedPop
  <2>4. QED
    BY <2>1, <2>2, <2>3 DEF FreeListed
<1>7. CASE OpensGroup(b, c, s, group)
  <2>1. /\ group \notin DOMAIN b.group_count /\ c.free_head = b.free_head
        /\ DOMAIN c.group_count = DOMAIN b.group_count \cup {group}
        /\ \A h \in DOMAIN b.group_count : c.group_count[h] = b.group_count[h]
        /\ group \in Nat
    BY <1>2, <1>7 DEF OpensGroup
  <2>2. Unused(c) = Unused(b)
    BY <1>2, <1>4, <2>1 DEF Unused, Used
  <2>3. Chained(Unused(b), b.free_head, c.group_count)
    <3>1. \A h \in Unused(b) : c.group_count[h] = b.group_count[h]
      BY <1>2, <2>1
    <3>2. QED
      BY <3>1, ChainedSame DEF FreeListed
  <2>4. QED
    BY <2>1, <2>2, <2>3 DEF FreeListed
<1>8. QED
  BY <1>1, <1>5, <1>6, <1>7

LEMMA AddFree ==
    ASSUME NEW P, IsFiniteSet(P), NEW b, BookOK(b, P), FreeListed(b), NEW start \in P,
           b.edge_group[start] = no_position,
           NEW s \in DOMAIN b.pairs, NEW word \in Nat, NEW f \in Nat
    PROVE  FreeListed(add_edge(b, start, s, word, f))
<1> DEFINE c == add_edge(b, start, s, word, f)
<1>1. EdgeAdded(b, c, start, s, c.pairs[s].last_group)
  BY AddEdge
<1> HIDE DEF c
<1>2. FreeListed(c)
  BY <1>1, AddedFree
<1>3. QED
  BY <1>2 DEF c

\* Finding or creating a pair touches no group.
LEMMA GetsFree ==
    ASSUME NEW P, NEW b, BookOK(b, P), FreeListed(b), NEW token, NEW merged
    PROVE  /\ FreeListed(get_left_pair_state(b, token, merged).book)
           /\ FreeListed(get_right_pair_state(b, merged, token).book)
<1>1. b = [pairs |-> b.pairs, edge_group |-> b.edge_group,
           pos_prev |-> b.pos_prev, pos_next |-> b.pos_next,
           group_state |-> b.group_state, group_count |-> b.group_count,
           free_head |-> b.free_head, left_cache |-> b.left_cache,
           right_cache |-> b.right_cache, same_cache |-> b.same_cache,
           born |-> b.born, aborted |-> b.aborted]
  BY DEF BookOK, BookTypeOK
<1>2. SameGroups(b, b)
  BY DEF SameGroups
<1>3. ASSUME NEW key, NEW x
      PROVE  /\ SameGroups(b, StampLeft(b, key, x)) /\ SameGroups(b, StampRight(b, key, x))
             /\ SameGroups(b, StampSame(b, key, x))
  BY <1>1 DEF create_pair_state, StampLeft, StampRight, StampSame, SameGroups
<1>4. SameGroups(b, get_same_pair_state(b, merged).book)
  <2> DEFINE x == Stamped({}, merged, merged, Len(b.pairs) + 1)
  <2>1. get_same_pair_state(b, merged).book \in {b, StampSame(b, <<merged, merged>>, x)}
    BY DEF get_same_pair_state, StampSame
  <2> HIDE DEF x
  <2>2. QED
    BY <1>2, <1>3, <2>1
<1>5. SameGroups(b, get_left_pair_state(b, token, merged).book)
  <2> DEFINE x == Stamped(b.left_cache, token, merged, Len(b.pairs) + 1)
  <2>1. get_left_pair_state(b, token, merged).book
          \in {b, get_same_pair_state(b, merged).book, StampLeft(b, <<token, merged>>, x)}
    BY <1>1 DEF get_left_pair_state, StampLeft, create_pair_state
  <2> HIDE DEF x
  <2>2. QED
    BY <1>2, <1>3, <1>4, <2>1
<1>6. SameGroups(b, get_right_pair_state(b, merged, token).book)
  <2> DEFINE x == Stamped(b.right_cache, token, merged, Len(b.pairs) + 1)
  <2>1. get_right_pair_state(b, merged, token).book
          \in {b, get_same_pair_state(b, merged).book, StampRight(b, <<merged, token>>, x)}
    BY <1>1 DEF get_right_pair_state, StampRight, create_pair_state
  <2> HIDE DEF x
  <2>2. QED
    BY <1>2, <1>3, <1>4, <2>1
<1>7. QED
  BY <1>5, <1>6, SameFree

LEMMA BuildFree ==
    ASSUME NEW P, IsFiniteSet(P), NEW b, BookOK(b, P), FreeListed(b), NEW start \in P,
           b.edge_group[start] = no_position,
           NEW V \in SUBSET Nat, KeysIn(b, V), NEW key \in V \X V,
           NEW word \in Nat, NEW f \in Nat
    PROVE  FreeListed(build_edge(b, start, key, word, f))
<1> DEFINE e == build_edge(b, start, key, word, f)
           c == BuildBook(b, key)
           s == BuildPair(b, key)
<1>1. EdgeAdded(c, e, start, s, e.pairs[s].last_group)
  BY BuildEdge
<1>2. BookOK(c, P) /\ SameGroups(b, c)
  <2>1. c \in {b, create_pair_state(b, key)}
    BY DEF BuildBook
  <2> HIDE DEF c
  <2>2. SameGroups(b, b) /\ SameGroups(b, create_pair_state(b, key))
    BY DEF SameGroups, create_pair_state, BookOK, BookTypeOK
  <2>3. BookOK(create_pair_state(b, key), P)
    BY CreatePair
  <2>4. QED
    BY <2>1, <2>2, <2>3
<1> HIDE DEF c, s, e
<1>3. FreeListed(c) /\ c.edge_group[start] = no_position
  BY <1>2, SameFree DEF SameGroups
<1>4. FreeListed(e)
  BY <1>1, <1>2, <1>3, AddedFree
<1>5. QED
  BY <1>4 DEF e
=============================================================================
