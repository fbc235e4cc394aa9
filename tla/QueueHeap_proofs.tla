--------------------------- MODULE QueueHeap_proofs ---------------------------
(***************************************************************************)
(* The heap of queue_heap stays in order through every sift, the entry at  *)
(* its top is one that no other beats, and it implements a priority queue, *)
(* for every set of entries, every strict weak order and every capacity.   *)
(***************************************************************************)
EXTENDS QueueHeap, CountingLemmas, FunctionTheorems

LEMMA CompFacts ==
    ASSUME NEW e \in Entries, NEW f \in Entries, NEW g \in Entries
    PROVE  /\ ~comp(e, e)
           /\ comp(e, f) /\ comp(f, g) => comp(e, g)
           /\ ~comp(e, f) /\ ~comp(f, g) => ~comp(e, g)
           /\ comp(e, f) => ~comp(f, e)
  BY OrderAssumption

LEMMA Family ==
    ASSUME NEW k \in Nat \ {0}, NEW j \in Nat
    PROVE  /\ parent(k) \in Nat
           /\ parent(k) < k
           /\ parent(k) = j <=> k \in first_child(j)..(first_child(j) + 3)
  BY DEF parent, first_child

LEMMA Sizes ==
    ASSUME TypeOK
    PROVE  /\ size \in Nat
           /\ \A k \in Offsets : k \in Nat /\ k < size /\ At(k) \in Entries
           /\ \A k \in Offsets \ {0} : parent(k) \in Offsets
<1>1. data \in Seq(Entries)
  BY DEF TypeOK
<1>2. size \in Nat
  BY <1>1 DEF size
<1>3. ASSUME NEW k \in Offsets PROVE k \in Nat /\ k < size /\ At(k) \in Entries
  BY <1>1, <1>2, <1>3 DEF Offsets, size, At
<1>4. ASSUME NEW k \in Offsets \ {0} PROVE parent(k) \in Offsets
  <2>1. k \in Nat \ {0} /\ k < size
    BY <1>2 DEF Offsets
  <2>2. parent(k) \in Nat /\ parent(k) < k
    BY <2>1, Family
  <2>3. QED
    BY <1>2, <2>1, <2>2 DEF Offsets
<1>5. QED
  BY <1>2, <1>3, <1>4

LEMMA ChildrenAre ==
    ASSUME TypeOK, NEW j \in Nat
    PROVE  Children(j) = {k \in Offsets \ {0} : parent(k) = j}
<1>1. size \in Nat
  BY Sizes
<1>2. first_child(j) \in Nat \ {0}
  BY DEF first_child
<1>3. ASSUME NEW k \in Children(j) PROVE k \in Offsets \ {0} /\ parent(k) = j
  <2>1. k \in Nat \ {0} /\ k < size /\ k \in first_child(j)..(first_child(j) + 3)
    BY <1>2, <1>3 DEF Children
  <2>2. QED
    BY <1>1, <2>1, Family DEF Offsets
<1>4. ASSUME NEW k \in Offsets \ {0}, parent(k) = j PROVE k \in Children(j)
  <2>1. k \in Nat \ {0} /\ k < size
    BY <1>1, <1>4 DEF Offsets
  <2>2. QED
    BY <1>4, <2>1, Family DEF Children
<1>5. QED
  BY <1>3, <1>4

LEMMA Swap ==
    ASSUME TypeOK, NEW j \in Offsets, NEW k \in Offsets
    PROVE  /\ Swapped(j, k) \in Seq(Entries)
           /\ Len(Swapped(j, k)) = size
           /\ \A l \in Offsets : Swapped(j, k)[l + 1] = IF l = k THEN At(j)
                                                        ELSE IF l = j THEN At(k) ELSE At(l)
<1>1. size \in Nat /\ data \in Seq(Entries)
  BY Sizes DEF TypeOK
<1>2. At(j) \in Entries /\ At(k) \in Entries
  BY Sizes
<1>3. j + 1 \in 1..Len(data) /\ k + 1 \in 1..Len(data)
  BY <1>1 DEF Offsets, size
<1>4. QED
  BY <1>1, <1>2, <1>3 DEF Swapped, Offsets, size, At

-----------------------------------------------------------------------------
FirstBest(S, c) == \A d \in S : ~comp(At(c), At(d)) /\ (d < c => comp(At(d), At(c)))

LEMMA OneMore ==
    ASSUME TypeOK, NEW a \in Nat, NEW n \in Nat, a + n + 1 \in Offsets,
           \E c \in a..(a + n) : FirstBest(a..(a + n), c)
    PROVE  \E c \in a..(a + n + 1) : FirstBest(a..(a + n + 1), c)
<1> DEFINE m == a + n + 1
<1>1. PICK c \in a..(a + n) : FirstBest(a..(a + n), c)
  OBVIOUS
<1>2. \A d \in a..m : d \in Offsets /\ d \in Nat
  BY Sizes DEF Offsets
<1>3. \A d \in a..m : At(d) \in Entries
  BY <1>2, Sizes
<1>4. a..m = (a..(a + n)) \cup {m} /\ c \in a..m /\ m \in a..m /\ c < m
  OBVIOUS
<1>5. \A d \in a..(a + n) : d < m
  OBVIOUS
<1> HIDE DEF m
<1>6. CASE comp(At(c), At(m))
  <2>1. ASSUME NEW d \in a..(a + n) PROVE ~comp(At(m), At(d)) /\ comp(At(d), At(m))
    <3>1. At(c) \in Entries /\ At(d) \in Entries /\ At(m) \in Entries
      BY <1>3, <1>4
    <3>2. ~comp(At(c), At(d))
      BY <1>1 DEF FirstBest
    <3>3. QED
      BY <1>6, <3>1, <3>2, CompFacts
  <2>2. ~comp(At(m), At(m)) /\ ~(m < m)
    BY <1>2, <1>3, <1>4, CompFacts
  <2>3. FirstBest(a..m, m)
    BY <1>4, <2>1, <2>2 DEF FirstBest
  <2>4. QED
    BY <1>4, <2>3 DEF m
<1>7. CASE ~comp(At(c), At(m))
  <2>1. ~(m < c)
    BY <1>2, <1>4
  <2>2. FirstBest(a..m, c)
    BY <1>1, <1>4, <1>7, <2>1 DEF FirstBest
  <2>3. QED
    BY <1>4, <2>2 DEF m
<1>8. QED
  BY <1>6, <1>7

LEMMA BestIs ==
    ASSUME TypeOK, NEW k \in Nat, Children(k) # {}
    PROVE  /\ Best(k) \in Children(k)
           /\ \A d \in Children(k) : InOrder(Best(k), d)
<1> DEFINE a == first_child(k)
<1>1. a \in Nat /\ size \in Nat
  BY Sizes DEF first_child
<1> HIDE DEF a
<1>2. a < size
  BY <1>1 DEF Children, a
<1>3. \E c \in a..(a + 0) : FirstBest(a..(a + 0), c)
  <2>1. a \in Offsets
    BY <1>1, <1>2 DEF Offsets
  <2>2. ~comp(At(a), At(a))
    BY <2>1, Sizes, CompFacts
  <2>3. a..(a + 0) = {a} /\ ~(a < a)
    BY <1>1
  <2>4. QED
    BY <2>2, <2>3 DEF FirstBest
<1>4. a + 1 < size => \E c \in a..(a + 1) : FirstBest(a..(a + 1), c)
  <2> SUFFICES ASSUME a + 1 < size PROVE \E c \in a..(a + 1) : FirstBest(a..(a + 1), c)
    OBVIOUS
  <2>1. a + 0 + 1 \in Offsets /\ a + 0 + 1 = a + 1
    BY <1>1 DEF Offsets
  <2>2. QED
    BY <1>1, <1>3, <2>1, OneMore
<1>5. a + 2 < size => \E c \in a..(a + 2) : FirstBest(a..(a + 2), c)
  <2> SUFFICES ASSUME a + 2 < size PROVE \E c \in a..(a + 2) : FirstBest(a..(a + 2), c)
    OBVIOUS
  <2>1. a + 1 + 1 \in Offsets /\ a + 1 + 1 = a + 2 /\ a + 1 < size
    BY <1>1 DEF Offsets
  <2>2. QED
    BY <1>1, <1>4, <2>1, OneMore
<1>6. a + 3 < size => \E c \in a..(a + 3) : FirstBest(a..(a + 3), c)
  <2> SUFFICES ASSUME a + 3 < size PROVE \E c \in a..(a + 3) : FirstBest(a..(a + 3), c)
    OBVIOUS
  <2>1. a + 2 + 1 \in Offsets /\ a + 2 + 1 = a + 3 /\ a + 2 < size
    BY <1>1 DEF Offsets
  <2>2. QED
    BY <1>1, <1>5, <2>1, OneMore
<1>7. \E n \in 0..3 : a + n < size /\ Children(k) = a..(a + n)
  <2>1. CASE a + 3 < size
    <3>1. Children(k) = a..(a + 3)
      BY <1>1, <2>1 DEF Children, a
    <3>2. QED
      BY <2>1, <3>1
  <2>2. CASE ~(a + 3 < size)
    <3>1. size - 1 - a \in 0..3 /\ a + (size - 1 - a) = size - 1
      BY <1>1, <1>2, <2>2
    <3>2. Children(k) = a..(size - 1)
      BY <1>1, <2>2 DEF Children, a
    <3>3. QED
      BY <1>1, <3>1, <3>2
  <2>3. QED
    BY <2>1, <2>2
<1>8. PICK n \in 0..3 : a + n < size /\ Children(k) = a..(a + n)
  BY <1>7
<1>9. \E c \in Children(k) : FirstBest(Children(k), c)
  <2>1. n = 0 \/ n = 1 \/ n = 2 \/ n = 3
    OBVIOUS
  <2>2. QED
    BY <1>3, <1>4, <1>5, <1>6, <1>8, <2>1
<1>10. Best(k) \in Children(k) /\ FirstBest(Children(k), Best(k))
  BY <1>9 DEF Best, FirstBest
<1>11. QED
  BY <1>10 DEF FirstBest, InOrder

-----------------------------------------------------------------------------
LEMMA TypeInductive ==
    ASSUME TypeOK, [Next]_vars
    PROVE  TypeOK'
<1>1. size \in Nat /\ data \in Seq(Entries) /\ size = Len(data)
  BY Sizes DEF TypeOK, size
<1>2. ASSUME NEW entry \in Entries, push(entry) PROVE TypeOK'
  <2>1. data' \in Seq(Entries) /\ Len(data') = size + 1
    BY <1>1, <1>2 DEF push
  <2>2. pc' = "sift_up" /\ i' = size
    BY <1>2 DEF push
  <2>3. QED
    BY <1>1, <2>1, <2>2 DEF TypeOK, Offsets, size
<1>3. CASE pop
  <2>1. data' = [k \in 1..(size - 1) |-> IF k = 1 THEN data[size] ELSE data[k]] /\ size > 0
    BY <1>1, <1>3 DEF pop
  <2>2. data' \in Seq(Entries) /\ Len(data') = size - 1
    BY <1>1, <2>1
  <2>3. pc' = (IF size = 1 THEN "idle" ELSE "sift_down") /\ i' = 0
    BY <1>3 DEF pop
  <2>4. pc' # "idle" => i' \in 0..(Len(data') - 1)
    BY <1>1, <2>1, <2>2, <2>3
  <2>5. QED
    BY <2>2, <2>3, <2>4 DEF TypeOK, Offsets, size
<1>4. CASE SiftUp
  <2>1. i \in Offsets /\ i > 0 /\ i \in Nat /\ pc = "sift_up"
    BY <1>4 DEF SiftUp, TypeOK
  <2>2. parent(i) \in Offsets /\ parent(i) \in Nat
    BY <2>1, Sizes, Family
  <2>3. data' \in Seq(Entries) /\ Len(data') = size
    BY <1>4, <2>1, <2>2, Swap DEF SiftUp
  <2>4. QED
    BY <1>1, <1>4, <2>1, <2>2, <2>3 DEF SiftUp, TypeOK, Offsets, size
<1>5. CASE SiftDown
  <2>1. i \in Offsets /\ i \in Nat /\ pc = "sift_down" /\ Children(i) # {}
    BY <1>5 DEF SiftDown, TypeOK
  <2>2. Best(i) \in Offsets /\ Best(i) \in Nat
    BY <2>1, BestIs, ChildrenAre, Sizes
  <2>3. data' \in Seq(Entries) /\ Len(data') = size
    BY <1>5, <2>1, <2>2, Swap DEF SiftDown
  <2>4. QED
    BY <1>1, <1>5, <2>1, <2>2, <2>3 DEF SiftDown, TypeOK, Offsets, size
<1>6. CASE EndSiftUp \/ EndSiftDown
  BY <1>1, <1>6 DEF EndSiftUp, EndSiftDown, TypeOK, Offsets
<1>7. CASE UNCHANGED vars
  BY <1>7 DEF vars, TypeOK, Offsets, size
<1>8. QED
  BY <1>2, <1>3, <1>4, <1>5, <1>6, <1>7 DEF Next

\* THEOREM.  The entries are of their kind and a sift stays inside the heap.
THEOREM TypeCorrect == Spec => []TypeOK
<1>1. Init => TypeOK
  BY DEF Init, TypeOK
<1>2. TypeOK /\ [Next]_vars => TypeOK'
  BY TypeInductive
<1>3. QED
  BY <1>1, <1>2, PTL DEF Spec

-----------------------------------------------------------------------------
Ordered ==
    \A k \in Offsets \ {0} :
        \/ InOrder(parent(k), k)
        \/ pc = "sift_up" /\ k = i
        \/ pc = "sift_down" /\ parent(k) = i

Bridged == pc # "idle" /\ i > 0 => \A c \in Children(i) : InOrder(parent(i), c)

LEMMA PushKeepsOrder ==
    ASSUME TypeOK, SiftOrder, NEW entry \in Entries, push(entry)
    PROVE  SiftOrder'
<1>1. size \in Nat /\ data \in Seq(Entries) /\ size = Len(data)
  BY Sizes DEF TypeOK, size
<1>2. pc = "idle" /\ pc' = "sift_up" /\ i' = size /\ data' = Append(data, entry)
  BY DEF push
<1>3. Len(data') = size + 1 /\ \A k \in Offsets : data'[k + 1] = data[k + 1]
  BY <1>1, <1>2 DEF Offsets
<1>4. Ordered'
  <2>1. Offsets' = 0..size
    BY <1>1, <1>3 DEF Offsets, size
  <2>2. ASSUME NEW k \in 0..size, k # 0, k # size
        PROVE  ~comp(data'[parent(k) + 1], data'[k + 1])
    <3>1. k \in Offsets \ {0} /\ parent(k) \in Offsets
      BY <1>1, <2>2, Sizes DEF Offsets
    <3>2. InOrder(parent(k), k)
      BY <1>2, <3>1 DEF SiftOrder
    <3>3. QED
      BY <1>3, <3>1, <3>2 DEF InOrder, At
  <2>3. \A k \in 0..size : InOrder(parent(k), k)' <=> ~comp(data'[parent(k) + 1], data'[k + 1])
    BY DEF InOrder, At, parent
  <2>4. ASSUME NEW k \in Offsets' \ {0}, ~(pc' = "sift_up" /\ k = i')
        PROVE  InOrder(parent(k), k)'
    BY <1>2, <2>1, <2>2, <2>3, <2>4
  <2>5. Ordered' <=> \A k \in Offsets' \ {0} :
                       \/ InOrder(parent(k), k)'
                       \/ pc' = "sift_up" /\ k = i'
                       \/ pc' = "sift_down" /\ parent(k)' = i'
    BY DEF Ordered
  <2>6. QED
    BY <2>4, <2>5
<1>5. Bridged'
  <2>1. first_child(i') >= size + 1
    BY <1>1, <1>2 DEF first_child
  <2>2. Children(i)' = {}
    BY <1>1, <1>2, <1>3, <2>1 DEF Children, size, first_child
  <2>3. QED
    BY <2>2 DEF Bridged
<1>6. QED
  BY <1>4, <1>5 DEF SiftOrder, Ordered, Bridged

LEMMA PopKeepsOrder ==
    ASSUME TypeOK, SiftOrder, pop
    PROVE  SiftOrder'
<1>1. size \in Nat /\ data \in Seq(Entries) /\ size = Len(data)
  BY Sizes DEF TypeOK, size
<1>2. /\ pc = "idle" /\ i' = 0 /\ size > 0
      /\ pc' = IF size = 1 THEN "idle" ELSE "sift_down"
      /\ data' = [k \in 1..(size - 1) |-> IF k = 1 THEN data[size] ELSE data[k]]
  BY <1>1 DEF pop
<1>3. Len(data') = size - 1 /\ \A k \in 1..(size - 2) : data'[k + 1] = data[k + 1]
  BY <1>1, <1>2
<1>4. Offsets' = 0..(size - 2)
  BY <1>1, <1>3 DEF Offsets, size
<1>5. ASSUME NEW k \in 0..(size - 2), k # 0, parent(k) # 0
      PROVE  ~comp(data'[parent(k) + 1], data'[k + 1])
  <2>1. k \in Offsets \ {0} /\ parent(k) \in Nat /\ parent(k) < k
    BY <1>1, <1>5, Family DEF Offsets
  <2>2. InOrder(parent(k), k)
    BY <1>2, <2>1 DEF SiftOrder
  <2>3. k \in 1..(size - 2) /\ parent(k) \in 1..(size - 2)
    BY <1>1, <1>5, <2>1
  <2>4. QED
    BY <1>3, <2>2, <2>3 DEF InOrder, At
<1>6. Ordered'
  <2> SUFFICES ASSUME NEW k \in 0..(size - 2), k # 0, parent(k) # i' \/ pc' # "sift_down"
               PROVE  ~comp(data'[parent(k) + 1], data'[k + 1])
    BY <1>4 DEF Ordered, InOrder, At, parent
  <2>1. size # 1
    BY <1>1
  <2>2. parent(k) # 0
    BY <1>2, <2>1
  <2>3. QED
    BY <1>5, <2>2
<1>7. Bridged'
  BY <1>2 DEF Bridged
<1>8. QED
  BY <1>6, <1>7 DEF SiftOrder, Ordered, Bridged

LEMMA SiftUpKeepsOrder ==
    ASSUME TypeOK, SiftOrder, SiftUp
    PROVE  SiftOrder'
<1> PICK p \in Int : p = parent(i)
  BY Family DEF SiftUp, TypeOK
<1>1. pc = "sift_up" /\ i \in Offsets \ {0} /\ i \in Nat \ {0}
  BY DEF SiftUp, TypeOK
<1>2. p \in Offsets /\ p \in Nat /\ p < i
  BY <1>1, Sizes, Family
<1>3. comp(At(p), At(i)) /\ data' = Swapped(p, i) /\ i' = p /\ pc' = pc
  BY DEF SiftUp
<1>4. Len(data') = size /\ data' \in Seq(Entries)
  BY <1>1, <1>2, <1>3, Swap
<1>5. \A k \in Offsets : At(k)' = IF k = i THEN At(p) ELSE IF k = p THEN At(i) ELSE At(k)
  BY <1>1, <1>2, <1>3, Swap DEF At
<1>6. \A k \in Offsets \ {0} : k # i => InOrder(parent(k), k)
  BY <1>1 DEF SiftOrder
<1>7. \A k \in Offsets : At(k) \in Entries
  BY Sizes
<1>8. Offsets' = Offsets
  BY <1>4 DEF Offsets, size
<1>9. ASSUME NEW k \in Offsets \ {0}, k # p PROVE ~comp(At(parent(k))', At(k)')
  <2>1. parent(k) \in Offsets /\ k \in Nat \ {0} /\ parent(k) < k
    BY Sizes, Family
  <2>2. CASE k = i
    BY <1>1, <1>2, <1>3, <1>5, <1>7, <2>2, CompFacts
  <2>3. CASE k # i /\ parent(k) = p
    <3>1. ~comp(At(p), At(k))
      BY <1>6, <2>3 DEF InOrder
    <3>2. ~comp(At(i), At(k))
      BY <1>1, <1>2, <1>3, <1>7, <3>1, CompFacts
    <3>3. QED
      BY <1>2, <1>5, <1>9, <2>1, <2>3, <3>2
  <2>4. CASE k # i /\ parent(k) = i
    <3>1. k \in Children(i)
      BY <1>1, <2>4, ChildrenAre
    <3>2. ~comp(At(p), At(k))
      BY <1>1, <3>1 DEF SiftOrder, InOrder
    <3>3. QED
      BY <1>1, <1>5, <1>9, <2>4, <3>2
  <2>5. CASE k # i /\ parent(k) # p /\ parent(k) # i
    <3>1. ~comp(At(parent(k)), At(k))
      BY <1>6, <2>5 DEF InOrder
    <3>2. QED
      BY <1>5, <1>9, <2>1, <2>5, <3>1
  <2>6. QED
    BY <2>2, <2>3, <2>4, <2>5
<1>10. ASSUME p > 0, NEW c \in Offsets \ {0}, parent(c) = p
       PROVE  ~comp(data'[parent(p) + 1], At(c)')
  <2>1. parent(p) \in Offsets /\ parent(p) < p /\ p \in Offsets \ {0}
    BY <1>2, <1>10, Sizes, Family
  <2>2. ~comp(At(parent(p)), At(p))
    BY <1>2, <1>6, <2>1 DEF InOrder
  <2>3. data'[parent(p) + 1] = At(parent(p))
    <3>1. parent(p) \in Nat /\ parent(p) # p /\ parent(p) # i
      <4>1. parent(p) \in Nat
        BY <2>1, Sizes
      <4>2. QED
        BY <1>1, <1>2, <2>1, <4>1
    <3>2. QED
      BY <1>5, <2>1, <3>1 DEF At
  <2>4. CASE c = i
    BY <1>5, <2>2, <2>3, <2>4
  <2>5. CASE c # i
    <3>1. ~comp(At(p), At(c))
      BY <1>6, <1>10, <2>5 DEF InOrder
    <3>2. ~comp(At(parent(p)), At(c))
      BY <1>2, <1>7, <2>1, <2>2, <3>1, CompFacts
    <3>3. c # p
      BY <1>2, <1>10, <2>1
    <3>4. QED
      BY <1>5, <2>3, <2>5, <3>2, <3>3
  <2>6. QED
    BY <2>4, <2>5
<1>11. \A c \in Children(i)' : c \in Offsets \ {0} /\ parent(c) = p
  <2>1. Children(i)' = {c \in first_child(p)..(first_child(p) + 3) : c < size}
    BY <1>3, <1>4 DEF Children, size, first_child
  <2>2. Children(i)' = Children(p)
    BY <2>1 DEF Children
  <2>3. QED
    BY <1>2, <2>2, ChildrenAre
<1>12. Ordered'
  BY <1>1, <1>3, <1>8, <1>9 DEF Ordered, InOrder, parent
<1>13. Bridged'
  BY <1>3, <1>10, <1>11 DEF Bridged, InOrder, At, parent
<1>14. QED
  BY <1>12, <1>13 DEF SiftOrder, Ordered, Bridged

LEMMA SiftDownKeepsOrder ==
    ASSUME TypeOK, SiftOrder, SiftDown
    PROVE  SiftOrder'
<1>1. pc = "sift_down" /\ i \in Offsets /\ i \in Nat /\ Children(i) # {}
  BY DEF SiftDown, TypeOK
<1> PICK b \in Children(i) : b = Best(i)
  BY <1>1, BestIs
<1>2. b \in Offsets \ {0} /\ parent(b) = i /\ b \in Nat \ {0} /\ i < b
  <2>1. b \in Offsets \ {0} /\ parent(b) = i
    BY <1>1, ChildrenAre
  <2>2. b \in Nat \ {0}
    BY <2>1, Sizes
  <2>3. i < b
    BY <1>1, <2>1, <2>2, Family
  <2>4. QED
    BY <2>1, <2>2, <2>3
<1>3. comp(At(i), At(b)) /\ data' = Swapped(i, b) /\ i' = b /\ pc' = pc
  BY DEF SiftDown
<1>4. Len(data') = size /\ data' \in Seq(Entries)
  BY <1>1, <1>2, <1>3, Swap
<1>5. \A k \in Offsets : At(k)' = IF k = b THEN At(i) ELSE IF k = i THEN At(b) ELSE At(k)
  BY <1>1, <1>2, <1>3, Swap DEF At
<1>6. \A k \in Offsets \ {0} : parent(k) # i => InOrder(parent(k), k)
  BY <1>1 DEF SiftOrder
<1>7. \A k \in Offsets : At(k) \in Entries
  BY Sizes
<1>8. Offsets' = Offsets
  BY <1>4 DEF Offsets, size
<1>9. ASSUME NEW k \in Offsets \ {0}, parent(k) # b PROVE ~comp(data'[parent(k) + 1], At(k)')
  <2>1. parent(k) \in Offsets /\ k \in Nat \ {0} /\ parent(k) < k /\ parent(k) \in Nat
    BY Sizes, Family
  <2>2. CASE k = b
    BY <1>1, <1>2, <1>3, <1>5, <1>7, <2>2, CompFacts DEF At
  <2>3. CASE k # b /\ parent(k) = i
    <3>1. ~comp(At(b), At(k))
      BY <1>1, <2>1, <2>3, BestIs, ChildrenAre DEF InOrder
    <3>2. k # i
      BY <1>1, <2>1, <2>3
    <3>3. QED
      BY <1>1, <1>2, <1>5, <1>9, <2>3, <3>1, <3>2 DEF At
  <2>4. CASE k = i
    <3>1. ~comp(At(parent(k)), At(b))
      BY <1>1, <1>9, <2>1, <2>4 DEF SiftOrder, InOrder
    <3>2. parent(k) # i /\ parent(k) # b
      BY <1>9, <2>1, <2>4
    <3>3. QED
      BY <1>2, <1>5, <1>9, <2>1, <2>4, <3>1, <3>2 DEF At
  <2>5. CASE k # b /\ k # i /\ parent(k) # i
    <3>1. ~comp(At(parent(k)), At(k))
      BY <1>6, <2>5 DEF InOrder
    <3>2. QED
      BY <1>5, <1>9, <2>1, <2>5, <3>1 DEF At
  <2>6. QED
    BY <2>2, <2>3, <2>4, <2>5
<1>10. ASSUME NEW c \in Offsets \ {0}, parent(c) = b PROVE ~comp(data'[parent(b) + 1], At(c)')
  <2>1. b < c /\ c # b /\ c # i /\ b # i
    BY <1>1, <1>2, <1>10, Sizes, Family
  <2>2. ~comp(At(b), At(c))
    BY <1>6, <1>10, <2>1 DEF InOrder
  <2>3. QED
    BY <1>1, <1>2, <1>5, <2>1, <2>2 DEF At
<1>11. \A c \in Children(i)' : c \in Offsets \ {0} /\ parent(c) = b
  <2>1. Children(i)' = {c \in first_child(b)..(first_child(b) + 3) : c < size}
    BY <1>3, <1>4 DEF Children, size, first_child
  <2>2. Children(i)' = Children(b)
    BY <2>1 DEF Children
  <2>3. QED
    BY <1>2, <2>2, ChildrenAre
<1>12. Ordered'
  BY <1>1, <1>3, <1>8, <1>9 DEF Ordered, InOrder, At, parent
<1>13. Bridged'
  BY <1>3, <1>10, <1>11 DEF Bridged, InOrder, At, parent
<1>14. QED
  BY <1>12, <1>13 DEF SiftOrder, Ordered, Bridged

LEMMA EndKeepsOrder ==
    ASSUME TypeOK, SiftOrder, EndSiftUp \/ EndSiftDown
    PROVE  SiftOrder'
<1>1. data' = data /\ pc' = "idle"
  BY DEF EndSiftUp, EndSiftDown
<1>2. \A k \in Offsets : At(k) \in Entries
  BY Sizes
<1>3. ASSUME NEW k \in Offsets \ {0} PROVE InOrder(parent(k), k)
  <2>1. CASE EndSiftUp
    <3>1. CASE k = i
      <4>1. i > 0
        BY <1>3, <3>1, Sizes
      <4>2. QED
        BY <2>1, <3>1, <4>1 DEF EndSiftUp, InOrder
    <3>2. CASE k # i
      BY <2>1, <3>2 DEF EndSiftUp, SiftOrder
    <3>3. QED
      BY <3>1, <3>2
  <2>2. CASE EndSiftDown /\ parent(k) # i
    BY <2>2 DEF EndSiftDown, SiftOrder
  <2>3. CASE EndSiftDown /\ parent(k) = i
    <3>1. i \in Nat /\ i \in Offsets
      BY <2>3 DEF EndSiftDown, TypeOK
    <3>2. k \in Children(i)
      BY <2>3, <3>1, ChildrenAre
    <3>3. Best(i) \in Offsets /\ InOrder(Best(i), k)
      BY <3>1, <3>2, BestIs, ChildrenAre
    <3>4. ~comp(At(i), At(Best(i)))
      BY <2>3, <3>2 DEF EndSiftDown
    <3>5. QED
      BY <1>2, <2>3, <3>1, <3>3, <3>4, CompFacts DEF InOrder
  <2>4. QED
    BY <2>1, <2>2, <2>3
<1>4. Offsets' = Offsets /\ \A k : At(k)' = At(k)
  BY <1>1 DEF Offsets, size, At
<1>5. Ordered'
  BY <1>1, <1>3, <1>4 DEF Ordered, InOrder, At, parent
<1>6. Bridged'
  BY <1>1 DEF Bridged
<1>7. QED
  BY <1>5, <1>6 DEF SiftOrder, Ordered, Bridged

\* THEOREM.  Through every push, pop and single exchange of a sift, the heap is in
\* order everywhere but at the entry that moves.
THEOREM OrderKept == Spec => []SiftOrder
<1>1. Init => TypeOK /\ SiftOrder
  BY DEF Init, TypeOK, SiftOrder, Offsets, size
<1>2. TypeOK /\ SiftOrder /\ [Next]_vars => SiftOrder'
  <2> SUFFICES ASSUME TypeOK, SiftOrder, [Next]_vars PROVE SiftOrder'
    OBVIOUS
  <2>1. CASE \E entry \in Entries : push(entry)
    BY <2>1, PushKeepsOrder
  <2>2. CASE pop
    BY <2>2, PopKeepsOrder
  <2>3. CASE SiftUp
    BY <2>3, SiftUpKeepsOrder
  <2>4. CASE SiftDown
    BY <2>4, SiftDownKeepsOrder
  <2>5. CASE EndSiftUp \/ EndSiftDown
    BY <2>5, EndKeepsOrder
  <2>6. CASE UNCHANGED vars
    BY <2>6 DEF vars, SiftOrder, Offsets, Children, InOrder, At, size, first_child, parent
  <2>7. QED
    BY <2>1, <2>2, <2>3, <2>4, <2>5, <2>6 DEF Next
<1>3. QED
  BY <1>1, <1>2, TypeCorrect, PTL DEF Spec

\* At rest, no entry beats the one at the top.
LEMMA TopBeaten ==
    ASSUME TypeOK, SiftOrder, pc = "idle"
    PROVE  \A k \in Offsets : InOrder(0, k)
<1> DEFINE Beating == {k \in Offsets : ~InOrder(0, k)}
<1> SUFFICES ASSUME Beating # {} PROVE FALSE
  OBVIOUS
<1>1. Beating \in SUBSET Nat
  BY Sizes
<1>2. PICK k \in Beating : \A j \in Beating : k <= j
  BY <1>1, Least
<1>3. k \in Offsets /\ comp(At(0), At(k)) /\ 0 \in Offsets
  BY Sizes DEF InOrder, Offsets
<1>4. k # 0
  BY <1>3, Sizes, CompFacts
<1>5. parent(k) \in Offsets /\ parent(k) < k /\ parent(k) \in Nat /\ k \in Nat
  BY <1>3, <1>4, Sizes, Family
<1>6. InOrder(0, parent(k))
  BY <1>2, <1>5
<1>7. InOrder(parent(k), k)
  BY <1>3, <1>4 DEF SiftOrder
<1>8. QED
  BY <1>3, <1>5, <1>6, <1>7, Sizes, CompFacts DEF InOrder

-----------------------------------------------------------------------------
\* The places of d that hold e, and the bag of what d holds.
Places(d, e) == {k \in DOMAIN d : d[k] = e}

Held(d) == {d[k] : k \in DOMAIN d}

BagOf(d) == [e \in Held(d) |-> Cardinality(Places(d, e))]

LEMMA PlacesFinite ==
    ASSUME NEW d \in Seq(Entries), NEW e
    PROVE  /\ IsFiniteSet(Places(d, e))
           /\ Cardinality(Places(d, e)) \in Nat
           /\ e \in Held(d) <=> Cardinality(Places(d, e)) > 0
<1>1. Len(d) \in Nat /\ DOMAIN d = 1..Len(d)
  OBVIOUS
<1>2. IsFiniteSet(1..Len(d))
  BY <1>1, FS_Interval
<1>3. Places(d, e) \in SUBSET (1..Len(d))
  BY <1>1 DEF Places
<1>4. IsFiniteSet(Places(d, e))
  BY <1>2, <1>3, FS_Subset
<1>5. Cardinality(Places(d, e)) \in Nat
  BY <1>4, FS_CardinalityType
<1>6. Cardinality(Places(d, e)) = 0 <=> Places(d, e) = {}
  BY <1>4, FS_EmptySet
<1>7. e \in Held(d) <=> Places(d, e) # {}
  BY DEF Held, Places
<1>8. QED
  BY <1>4, <1>5, <1>6, <1>7

LEMMA SwapKeepsContent ==
    ASSUME TypeOK, NEW j \in Offsets, NEW k \in Offsets, j # k
    PROVE  BagOf(Swapped(j, k)) = BagOf(data)
<1> DEFINE d == Swapped(j, k)
<1>1. data \in Seq(Entries) /\ d \in Seq(Entries) /\ Len(d) = Len(data) /\ Len(data) \in Nat
  BY Swap DEF TypeOK, size
<1>2. j + 1 \in 1..Len(data) /\ k + 1 \in 1..Len(data) /\ j + 1 # k + 1
  BY <1>1 DEF Offsets, size
<1>3. \A l \in 1..Len(data) : d[l] = IF l = k + 1 THEN data[j + 1]
                                     ELSE IF l = j + 1 THEN data[k + 1] ELSE data[l]
  BY <1>1, <1>2 DEF Swapped, At
<1>4. DOMAIN d = 1..Len(data) /\ DOMAIN data = 1..Len(data)
  BY <1>1
<1> HIDE DEF d
<1>5. ASSUME NEW e PROVE Cardinality(Places(d, e)) = Cardinality(Places(data, e))
  <2> DEFINE S == Places(data, e)
             T == Places(d, e)
             move(l) == IF l = j + 1 THEN k + 1 ELSE IF l = k + 1 THEN j + 1 ELSE l
             F == [l \in S |-> move(l)]
  <2>1. \A l \in 1..Len(data) : /\ move(l) \in 1..Len(data) /\ move(move(l)) = l
                                /\ d[move(l)] = data[l] /\ data[move(l)] = d[l]
    BY <1>2, <1>3
  <2>2. S = {l \in 1..Len(data) : data[l] = e} /\ T = {l \in 1..Len(data) : d[l] = e}
    BY <1>4 DEF Places
  <2> HIDE DEF move, S, T
  <2>3. \A l \in S : move(l) \in T /\ move(move(l)) = l
    BY <2>1, <2>2
  <2>4. \A l \in T : move(l) \in S /\ move(move(l)) = l
    BY <2>1, <2>2
  <2>5. F \in [S -> T]
    BY <2>3
  <2>6. \A l, m \in S : F[l] = F[m] => l = m
    BY <2>3
  <2>7. \A m \in T : \E l \in S : F[l] = m
    BY <2>4
  <2> HIDE DEF F
  <2>8. F \in Bijection(S, T)
    BY <2>5, <2>6, <2>7, Fun_IsBij
  <2>9. ExistsBijection(S, T)
    BY <2>8 DEF ExistsBijection
  <2>10. IsFiniteSet(S)
    BY <1>1, PlacesFinite DEF S
  <2>11. QED
    BY <2>9, <2>10, FS_Bijection DEF S, T
<1>6. Held(d) = Held(data)
  <2>1. \A e : e \in Held(d) <=> e \in Held(data)
    BY <1>1, <1>5, PlacesFinite
  <2>2. QED
    BY <2>1
<1>7. QED
  BY <1>5, <1>6 DEF BagOf, d

LEMMA PushAddsEntry ==
    ASSUME TypeOK, NEW entry \in Entries
    PROVE  BagOf(Append(data, entry)) = BagOf(data) (+) SetToBag({entry})
<1> DEFINE d == Append(data, entry)
           n == Len(data)
<1>1. data \in Seq(Entries) /\ d \in Seq(Entries) /\ n \in Nat /\ Len(d) = n + 1
  BY DEF TypeOK
<1>2. DOMAIN data = 1..n /\ DOMAIN d = 1..(n + 1) /\ d[n + 1] = entry
      /\ \A k \in 1..n : d[k] = data[k]
  BY <1>1
<1> HIDE DEF d, n
<1>3. 1..(n + 1) = 1..n \cup {n + 1} /\ n + 1 \notin 1..n
  BY <1>1
<1>4. Places(d, entry) = Places(data, entry) \cup {n + 1} /\ n + 1 \notin Places(data, entry)
  BY <1>2, <1>3 DEF Places
<1>5. Cardinality(Places(d, entry)) = Cardinality(Places(data, entry)) + 1
  BY <1>1, <1>4, PlacesFinite, FS_AddElement
<1>6. ASSUME NEW e, e # entry PROVE Places(d, e) = Places(data, e)
  BY <1>2, <1>3, <1>6 DEF Places
<1>7. Held(d) = Held(data) \cup {entry}
  <2>1. ASSUME NEW e \in Held(d) PROVE e \in Held(data) \cup {entry}
    BY <1>2, <1>3, <2>1 DEF Held
  <2>2. ASSUME NEW e \in Held(data) \cup {entry} PROVE e \in Held(d)
    <3>1. CASE e = entry
      BY <1>2, <1>3, <3>1 DEF Held
    <3>2. CASE e \in Held(data)
      BY <1>2, <1>3, <3>2 DEF Held
    <3>3. QED
      BY <2>2, <3>1, <3>2
  <2>3. QED
    BY <2>1, <2>2
<1>8. \A e : /\ Cardinality(Places(data, e)) \in Nat
             /\ e \in Held(data) <=> Cardinality(Places(data, e)) > 0
  BY <1>1, PlacesFinite
<1> DEFINE count(e) == Cardinality(Places(data, e))
           sum(e) == (IF e \in Held(data) THEN count(e) ELSE 0) + (IF e \in {entry} THEN 1 ELSE 0)
<1>9. BagOf(data) (+) SetToBag({entry}) = [e \in Held(data) \cup {entry} |-> sum(e)]
  BY DEF BagOf, SetToBag, (+)
<1>10. \A e \in Held(d) : Cardinality(Places(d, e)) = sum(e)
  <2> TAKE e \in Held(d)
  <2>1. CASE e = entry
    BY <1>5, <1>8, <2>1
  <2>2. CASE e # entry
    BY <1>6, <1>7, <1>8, <2>2
  <2>3. QED
    BY <2>1, <2>2
<1> HIDE DEF sum
<1>11. QED
  BY <1>7, <1>9, <1>10 DEF BagOf, d

LEMMA PopTakesTop ==
    ASSUME TypeOK, data # << >>,
           NEW d, d = [k \in 1..(size - 1) |-> IF k = 1 THEN data[size] ELSE data[k]]
    PROVE  BagOf(d) = BagOf(data) (-) SetToBag({top})
<1> DEFINE n == Len(data)
<1>1. data \in Seq(Entries) /\ n \in Nat \ {0} /\ n = size /\ top = data[1]
  BY DEF TypeOK, size, top, At
<1>2. d \in Seq(Entries) /\ Len(d) = n - 1 /\ DOMAIN d = 1..(n - 1) /\ DOMAIN data = 1..n
  BY <1>1
<1>3. \A k \in 1..(n - 1) : d[k] = IF k = 1 THEN data[n] ELSE data[k]
  BY <1>1
<1> HIDE DEF n
<1>4. ASSUME NEW e
      PROVE  Cardinality(Places(d, e)) =
                Cardinality(Places(data, e)) - (IF e = top THEN 1 ELSE 0)
  <2> DEFINE S == Places(data, e) \ {1}
             T == Places(d, e)
             move(k) == IF k = n THEN 1 ELSE k
             back(k) == IF k = 1 THEN n ELSE k
             F == [k \in S |-> move(k)]
  <2>1. S = {k \in 2..n : data[k] = e} /\ T = {k \in 1..(n - 1) : d[k] = e}
    BY <1>1, <1>2 DEF Places
  <2>2. \A k \in 2..n : move(k) \in 1..(n - 1) /\ back(move(k)) = k /\ d[move(k)] = data[k]
    BY <1>1, <1>3
  <2>3. \A k \in 1..(n - 1) : back(k) \in 2..n /\ move(back(k)) = k /\ data[back(k)] = d[k]
    BY <1>1, <1>3
  <2> HIDE DEF move, back, S, T
  <2>4. F \in [S -> T]
    BY <2>1, <2>2
  <2>5. \A k, l \in S : F[k] = F[l] => k = l
    BY <2>1, <2>2
  <2>6. \A k \in T : \E l \in S : F[l] = k
    <3> TAKE k \in T
    <3>1. k \in 1..(n - 1) /\ d[k] = e
      BY <2>1
    <3>2. back(k) \in S /\ move(back(k)) = k
      BY <2>1, <2>3, <3>1
    <3>3. QED
      BY <3>2
  <2> HIDE DEF F
  <2>7. F \in Bijection(S, T)
    BY <2>4, <2>5, <2>6, Fun_IsBij
  <2>8. ExistsBijection(S, T)
    BY <2>7 DEF ExistsBijection
  <2>9. IsFiniteSet(Places(data, e))
    BY <1>1, PlacesFinite
  <2>10. IsFiniteSet(S)
         /\ Cardinality(S) = IF 1 \in Places(data, e) THEN Cardinality(Places(data, e)) - 1
                                                      ELSE Cardinality(Places(data, e))
    BY <2>9, FS_RemoveElement DEF S
  <2>11. Cardinality(T) = Cardinality(S)
    BY <2>8, <2>10, FS_Bijection
  <2>12. 1 \in Places(data, e) <=> e = top
    BY <1>1, <1>2 DEF Places
  <2>13. Cardinality(Places(data, e)) \in Nat
    BY <1>1, PlacesFinite
  <2>14. QED
    BY <2>10, <2>11, <2>12, <2>13 DEF T
<1> DEFINE count(e) == Cardinality(Places(data, e))
           left(e) == IF e \in {top} THEN count(e) - 1 ELSE count(e)
<1>5. \A e : count(e) \in Nat /\ (e \in Held(data) <=> count(e) > 0)
  BY <1>1, PlacesFinite
<1>6. \A e : e \in Held(d) <=> Cardinality(Places(d, e)) > 0
  BY <1>2, PlacesFinite
<1>7. \A e : Cardinality(Places(d, e)) = left(e)
  <2> TAKE e
  <2>1. QED
    BY <1>4, <1>5
<1>8. BagOf(data) (-) SetToBag({top}) = [e \in {f \in Held(data) : left(f) > 0} |-> left(e)]
  BY DEF BagOf, SetToBag, (-)
<1>9. \A e : left(e) > 0 => e \in Held(data)
  BY <1>5
<1> HIDE DEF left, count
<1>10. Held(d) = {f \in Held(data) : left(f) > 0}
  BY <1>6, <1>7, <1>9
<1>11. QED
  BY <1>7, <1>8, <1>10 DEF BagOf

\* At rest, what pop takes is an entry that the abstract queue may give.
LEMMA TopIsHighest ==
    ASSUME TypeOK, SiftOrder, pc = "idle", data # << >>
    PROVE  top \in Abstract!Highest
<1>1. data \in Seq(Entries) /\ DOMAIN data = 1..Len(data) /\ Len(data) \in Nat \ {0}
  BY DEF TypeOK
<1>2. ASSUME NEW k \in DOMAIN data PROVE ~comp(top, data[k])
  <2>1. k - 1 \in Offsets /\ (k - 1) + 1 = k
    BY <1>1, <1>2 DEF Offsets, size
  <2>2. InOrder(0, k - 1)
    BY <2>1, TopBeaten
  <2>3. QED
    BY <2>1, <2>2 DEF InOrder, At, top
<1>3. top = data[1] /\ 1 \in DOMAIN data
  BY <1>1 DEF top, At
<1>4. BagToSet(Content) = {data[k] : k \in DOMAIN data}
  BY DEF Content, BagToSet
<1>5. QED
  BY <1>2, <1>3, <1>4 DEF Abstract!Highest, BagToSet, Abstract!BagToSet

LEMMA StepImplements ==
    ASSUME TypeOK, SiftOrder, [Next]_vars
    PROVE  Abstract!Next \/ UNCHANGED Content
<1>1. Content = BagOf(data) /\ Content' = BagOf(data')
  BY DEF Content, BagOf, Held, Places
<1>2. ASSUME NEW entry \in Entries, push(entry) PROVE Abstract!Insert
  <2>1. data' = Append(data, entry)
    BY <1>2 DEF push
  <2>2. Content' = Content (+) SetToBag({entry})
    BY <1>1, <2>1, PushAddsEntry
  <2>3. QED
    BY <2>2 DEF Abstract!Insert, (+), Abstract!(+), SetToBag, Abstract!SetToBag
<1>3. CASE pop
  <2>1. pc = "idle" /\ data # << >>
        /\ data' = [k \in 1..(size - 1) |-> IF k = 1 THEN data[size] ELSE data[k]]
    BY <1>3 DEF pop
  <2>2. Content' = Content (-) SetToBag({top})
    BY <1>1, <2>1, PopTakesTop
  <2>3. top \in Abstract!Highest
    BY <2>1, TopIsHighest
  <2>4. QED
    BY <2>2, <2>3 DEF Abstract!Take, Abstract!Next, (-), Abstract!(-), SetToBag, Abstract!SetToBag
<1>4. CASE SiftUp
  <2>1. i \in Offsets \ {0} /\ i \in Nat \ {0}
    BY <1>4 DEF SiftUp, TypeOK
  <2>2. parent(i) \in Offsets /\ parent(i) # i
    BY <2>1, Sizes, Family
  <2>3. data' = Swapped(parent(i), i)
    BY <1>4 DEF SiftUp
  <2>4. QED
    BY <1>1, <2>1, <2>2, <2>3, SwapKeepsContent
<1>5. CASE SiftDown
  <2>1. i \in Offsets /\ i \in Nat /\ Children(i) # {}
    BY <1>5 DEF SiftDown, TypeOK
  <2>2. Best(i) \in Offsets \ {0} /\ parent(Best(i)) = i
    BY <2>1, BestIs, ChildrenAre
  <2>3. Best(i) \in Nat \ {0}
    BY <2>2, Sizes
  <2>4. Best(i) # i
    BY <2>1, <2>2, <2>3, Family
  <2>5. data' = Swapped(i, Best(i))
    BY <1>5 DEF SiftDown
  <2>6. QED
    BY <1>1, <2>1, <2>2, <2>4, <2>5, SwapKeepsContent
<1>6. CASE EndSiftUp \/ EndSiftDown \/ UNCHANGED vars
  BY <1>1, <1>6 DEF EndSiftUp, EndSiftDown, vars
<1>7. QED
  BY <1>2, <1>3, <1>4, <1>5, <1>6 DEF Next, Abstract!Next

\* THEOREM.  The heap implements the priority queue: over any run of pushes, pops and
\* sift steps no entry is lost or doubled, and pop takes an entry that no other beats.
THEOREM HeapImplements == Spec => ImplementsPriorityQueue
<1>1. Init => Abstract!Init
  <2> SUFFICES ASSUME data = << >> PROVE Content = EmptyBag
    BY DEF Init, Abstract!Init, EmptyBag, Abstract!EmptyBag, SetToBag, Abstract!SetToBag
  <2>1. DOMAIN data = {}
    OBVIOUS
  <2>2. QED
    BY <2>1 DEF Content, EmptyBag, SetToBag
<1>2. TypeOK /\ SiftOrder /\ [Next]_vars => [Abstract!Next]_Content
  BY StepImplements
<1>3. QED
  BY <1>1, <1>2, TypeCorrect, OrderKept, PTL DEF Spec, ImplementsPriorityQueue, Abstract!Spec
=============================================================================
