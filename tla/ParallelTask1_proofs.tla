------------------------ MODULE ParallelTask1_proofs --------------------------
(***************************************************************************)
(* Every state of the word counter is well typed; with a full team the     *)
(* list of words is the list of the word starts of the input, no           *)
(* occurrence is lost between the list, the local and the merged maps, and *)
(* the result is the tally of the input.                                   *)
(***************************************************************************)
EXTENDS ParallelTask1, CountingLemmas

-----------------------------------------------------------------------------
(* Words.                                                                  *)

LEMMA BufferType ==
    ASSUME NEW s \in Seq(Nat)
    PROVE  /\ Len(s) \in Nat
           /\ Buffer(s) \in [0..Len(s) -> Nat]
           /\ Buffer(s)[Len(s)] = 0
<1>1. Len(s) \in Nat /\ \A k \in 1..Len(s) : s[k] \in Nat
  OBVIOUS
<1>2. \A k \in 0..Len(s) : Buffer(s)[k] \in Nat
  BY <1>1 DEF Buffer
<1>3. QED
  BY <1>1, <1>2 DEF Buffer

\* The bytes of b from i to just before j.
Slice(b, i, j) == [k \in 1..(j - i) |-> b[i + k - 1]]

\* The run from i ends just before j.
EndsAt(b, i, Stops, j) ==
    /\ b[j] \in Stops
    /\ \A k \in i..(j - 1) : b[k] \notin Stops
    /\ Until(b, i, Stops) = Slice(b, i, j)

LEMMA UntilIs ==
    ASSUME NEW m \in Nat, NEW b, DOMAIN b = 0..m, NEW Stops, b[m] \in Stops, NEW i \in 0..m
    PROVE  \E stop \in i..m : EndsAt(b, i, Stops, stop)
<1> DEFINE T == {j \in 0..m : j >= i /\ b[j] \in Stops}
           Is(j) == j >= i /\ b[j] \in Stops /\ \A k \in i..(j - 1) : b[k] \notin Stops
           stop == CHOOSE j \in 0..m : Is(j)
<1>1. m \in T /\ T \in SUBSET Nat
  OBVIOUS
<1>2. PICK j \in T : \A k \in T : j <= k
  BY <1>1, Least
<1>3. ASSUME NEW k \in i..(j - 1) PROVE b[k] \notin Stops
  <2>1. k \in 0..m /\ k >= i /\ k < j
    OBVIOUS
  <2>2. QED
    BY <1>2, <2>1
<1>4. j \in 0..m /\ Is(j)
  BY <1>2, <1>3
<1> HIDE DEF T, Is
<1>5. stop \in 0..m /\ Is(stop)
  BY <1>4
<1>6. Until(b, i, Stops) = Slice(b, i, stop)
  BY DEF Until, Is, Slice
<1> HIDE DEF stop
<1>7. QED
  BY <1>5, <1>6 DEF Is, EndsAt

LEMMA UntilType ==
    ASSUME NEW m \in Nat, NEW b \in [0..m -> Nat], NEW Stops, b[m] \in Stops, NEW i \in 0..m
    PROVE  Until(b, i, Stops) \in Seq(Nat)
<1>1. PICK stop \in i..m : Until(b, i, Stops) = Slice(b, i, stop)
  BY UntilIs DEF EndsAt
<1>2. stop - i \in Nat /\ \A k \in 1..(stop - i) : i + k - 1 \in 0..m
  OBVIOUS
<1>3. \A k \in 1..(stop - i) : b[i + k - 1] \in Nat
  BY <1>2
<1> DEFINE w == [k \in 1..(stop - i) |-> b[i + k - 1]]
<1>4. w \in [1..(stop - i) -> Nat]
  BY <1>3
<1> HIDE DEF w
<1>5. w \in Seq(Nat)
  BY <1>2, <1>4
<1>6. QED
  BY <1>1, <1>5 DEF w, Slice

\* The buffer once every separator is NUL.
Cleaned(b) == [i \in DOMAIN b |-> IF is_separator(b[i]) THEN 0 ELSE b[i]]

LEMMA CleanedIs ==
    ASSUME NEW m \in Nat, NEW b \in [0..m -> Nat]
    PROVE  /\ Cleaned(b) \in [0..m -> Nat]
           /\ \A i \in 0..m : Cleaned(b)[i] = 0 <=> b[i] \in Separators
           /\ \A i \in 0..m : b[i] \notin Separators => Cleaned(b)[i] = b[i]
BY SeparatorAssumption DEF Cleaned, is_separator

\* What a word denotes after the marking is the run of the input it starts.
LEMMA WordIsRun ==
    ASSUME NEW m \in Nat, NEW b \in [0..m -> Nat], b[m] = 0, NEW i \in 0..m
    PROVE  CString(Cleaned(b), i) = RunAt(b, i)
<1> DEFINE c == Cleaned(b)
<1>1. c \in [0..m -> Nat] /\ \A k \in 0..m : c[k] = 0 <=> b[k] \in Separators
  BY CleanedIs
<1>2. \A k \in 0..m : b[k] \notin Separators => c[k] = b[k]
  BY CleanedIs
<1> DEFINE Nul == {0}
<1>3. /\ DOMAIN b = 0..m /\ b[m] \in Separators
      /\ DOMAIN c = 0..m /\ c[m] \in Nul
  BY <1>1, SeparatorAssumption
<1> HIDE DEF c, Nul
<1>4. PICK x \in i..m : EndsAt(c, i, Nul, x)
  BY <1>3, UntilIs
<1>5. PICK y \in i..m : EndsAt(b, i, Separators, y)
  BY <1>3, UntilIs
<1>6. /\ c[x] = 0
      /\ \A k \in i..(x - 1) : c[k] # 0
      /\ Until(c, i, Nul) = Slice(c, i, x)
  BY <1>4 DEF Nul, EndsAt
<1>7. /\ b[y] \in Separators
      /\ \A k \in i..(y - 1) : b[k] \notin Separators
      /\ Until(b, i, Separators) = Slice(b, i, y)
  BY <1>5 DEF EndsAt
<1>8. x = y
  <2>1. CASE x < y
    <3>1. x \in i..(y - 1) /\ x \in 0..m
      BY <2>1
    <3>2. QED
      BY <1>1, <1>6, <1>7, <3>1
  <2>2. CASE y < x
    <3>1. y \in i..(x - 1) /\ y \in 0..m
      BY <2>2
    <3>2. QED
      BY <1>1, <1>6, <1>7, <3>1
  <2>3. QED
    BY <2>1, <2>2
<1>9. ASSUME NEW k \in 1..(y - i) PROVE c[i + k - 1] = b[i + k - 1]
  <2>1. i + k - 1 \in i..(y - 1) /\ i + k - 1 \in 0..m
    OBVIOUS
  <2>2. QED
    BY <1>2, <1>7, <2>1
<1>10. Slice(c, i, y) = Slice(b, i, y)
  BY <1>9 DEF Slice
<1>11. Until(c, i, Nul) = Until(b, i, Separators)
  BY <1>6, <1>7, <1>8, <1>10
<1>12. QED
  BY <1>11 DEF CString, RunAt, c, Nul

LEMMA WordsAre ==
    ASSUME NEW s \in Seq(Nat)
    PROVE  /\ WordStarts(Buffer(s)) \subseteq 0..Len(s)
           /\ IsFiniteSet(WordStarts(Buffer(s)))
           /\ IsFiniteSet(Distinct(Buffer(s)))
           /\ Distinct(Buffer(s)) \subseteq Seq(Nat)
<1> DEFINE b == Buffer(s)
           W == WordStarts(b)
<1>1. Len(s) \in Nat /\ b \in [0..Len(s) -> Nat] /\ b[Len(s)] \in Separators
  BY BufferType, SeparatorAssumption
<1> HIDE DEF b
<1>2. W \subseteq 0..Len(s)
  BY <1>1 DEF WordStarts
<1>3. IsFiniteSet(W)
  <2>1. IsFiniteSet(0..Len(s))
    BY <1>1, FS_Interval
  <2> HIDE DEF W
  <2>2. QED
    BY <1>2, <2>1, FS_Subset
<1> DEFINE f == [i \in W |-> RunAt(b, i)]
<1>4. f \in Surjection(W, Distinct(b))
  BY DEF Surjection, Distinct
<1>5. IsFiniteSet(Distinct(b))
  BY <1>3, <1>4, FS_Surjection
<1>6. ASSUME NEW i \in W PROVE RunAt(b, i) \in Seq(Nat)
  <2>1. i \in 0..Len(s)
    BY <1>2
  <2>2. QED
    BY <1>1, <2>1, UntilType DEF RunAt
<1>7. QED
  BY <1>2, <1>3, <1>5, <1>6 DEF Distinct, b

-----------------------------------------------------------------------------
(* Lists in order.                                                         *)

LEMMA AppendInOrder ==
    ASSUME NEW s \in Seq(Nat), NEW S, InOrder(s, S), NEW x \in Nat, \A y \in S : y < x
    PROVE  InOrder(Append(s, x), S \cup {x})
<1> DEFINE r == Append(s, x)
<1>1. /\ Len(s) \in Nat /\ DOMAIN s = 1..Len(s)
      /\ DOMAIN r = 1..(Len(s) + 1)
      /\ \A k \in 1..Len(s) : r[k] = s[k] /\ s[k] \in Nat /\ s[k] \in S
      /\ r[Len(s) + 1] = x
  BY DEF InOrder
<1> HIDE DEF r
<1>2. {r[k] : k \in DOMAIN r} = {s[k] : k \in DOMAIN s} \cup {x}
  <2>1. DOMAIN r = DOMAIN s \cup {Len(s) + 1}
    BY <1>1
  <2>2. QED
    BY <1>1, <2>1
<1>3. ASSUME NEW j \in DOMAIN r, NEW k \in DOMAIN r, j < k PROVE r[j] < r[k]
  <2>1. CASE k = Len(s) + 1
    BY <1>1, <1>3, <2>1
  <2>2. CASE k # Len(s) + 1
    BY <1>1, <1>3, <2>2 DEF InOrder
  <2>3. QED
    BY <2>1, <2>2
<1>4. QED
  BY <1>2, <1>3 DEF InOrder, r

LEMMA JoinInOrder ==
    ASSUME NEW s \in Seq(Nat), NEW S, InOrder(s, S),
           NEW r \in Seq(Nat), NEW R, InOrder(r, R),
           \A x \in S, y \in R : x < y
    PROVE  InOrder(s \o r, S \cup R)
<1> DEFINE q == s \o r
<1>1. /\ Len(s) \in Nat /\ DOMAIN s = 1..Len(s)
      /\ Len(r) \in Nat /\ DOMAIN r = 1..Len(r)
      /\ DOMAIN q = 1..(Len(s) + Len(r))
      /\ \A k \in 1..(Len(s) + Len(r)) : q[k] = IF k <= Len(s) THEN s[k] ELSE r[k - Len(s)]
      /\ \A k \in 1..Len(s) : s[k] \in S
      /\ \A k \in 1..Len(r) : r[k] \in R
  BY DEF InOrder
<1> HIDE DEF q
<1>2. {q[k] : k \in DOMAIN q} = S \cup R
  <2>1. ASSUME NEW k \in DOMAIN q PROVE q[k] \in S \cup R
    BY <1>1
  <2>2. ASSUME NEW x \in S PROVE \E k \in DOMAIN q : q[k] = x
    <3>1. PICK k \in DOMAIN s : s[k] = x
      BY DEF InOrder
    <3>2. k \in DOMAIN q /\ q[k] = x
      BY <1>1, <3>1
    <3>3. QED
      BY <3>2
  <2>3. ASSUME NEW x \in R PROVE \E k \in DOMAIN q : q[k] = x
    <3>1. PICK k \in DOMAIN r : r[k] = x
      BY DEF InOrder
    <3>2. k + Len(s) \in DOMAIN q /\ q[k + Len(s)] = x
      BY <1>1, <3>1
    <3>3. QED
      BY <3>2
  <2>4. QED
    BY <2>1, <2>2, <2>3
<1>3. ASSUME NEW j \in DOMAIN q, NEW k \in DOMAIN q, j < k PROVE q[j] < q[k]
  <2>1. CASE k <= Len(s)
    BY <1>1, <1>3, <2>1 DEF InOrder
  <2>2. CASE j <= Len(s) /\ k > Len(s)
    BY <1>1, <1>3, <2>2
  <2>3. CASE j > Len(s)
    <3>1. j - Len(s) \in DOMAIN r /\ k - Len(s) \in DOMAIN r /\ j - Len(s) < k - Len(s)
      BY <1>1, <1>3, <2>3
    <3>2. r[j - Len(s)] < r[k - Len(s)]
      BY <3>1 DEF InOrder
    <3>3. QED
      BY <1>1, <1>3, <2>3, <3>2
  <2>4. QED
    BY <1>1, <2>1, <2>2, <2>3
<1>4. QED
  BY <1>2, <1>3 DEF InOrder, q

\* What FlattenSeq builds up.
Flattens(f, q) ==
    f = [i \in 1..Len(q) |-> IF i = 1 THEN q[i] ELSE f[i - 1] \o q[i]]

LEMMA FlattenSolution ==
    ASSUME NEW q \in Seq(Seq(Nat)), q # << >>
    PROVE  \E f : Flattens(f, q)
<1> DEFINE Solves(f, m) == f = [i \in 1..m |-> IF i = 1 THEN q[i] ELSE f[i - 1] \o q[i]]
           S == {m \in Nat : \E f : Solves(f, m)}
<1>1. 0 \in S
  <2>1. Solves([i \in 1..0 |-> 1], 0)
    OBVIOUS
  <2> HIDE DEF Solves
  <2>2. QED
    BY <2>1
<1>0. Len(q) \in Nat
  OBVIOUS
<1>2. ASSUME NEW m \in 0..(Len(q) - 1), m \in S PROVE m + 1 \in S
  <2>1. PICK f : Solves(f, m)
    BY <1>2
  <2>2. m \in Nat
    BY <1>0
  <2> DEFINE g == [i \in 1..(m + 1) |->
                     IF i = m + 1 THEN (IF i = 1 THEN q[i] ELSE f[m] \o q[i]) ELSE f[i]]
  <2>3. ASSUME NEW i \in 1..(m + 1) PROVE g[i] = IF i = 1 THEN q[i] ELSE g[i - 1] \o q[i]
    <3>1. CASE i = m + 1
      BY <2>2, <3>1
    <3>2. CASE i \in 1..m
      <4>1. g[i] = f[i]
        BY <2>2, <3>2
      <4>2. f[i] = IF i = 1 THEN q[i] ELSE f[i - 1] \o q[i]
        BY <2>1, <3>2
      <4>3. i # 1 => g[i - 1] = f[i - 1]
        BY <2>2, <3>2
      <4>4. QED
        BY <4>1, <4>2, <4>3
    <3>3. QED
      BY <2>2, <3>1, <3>2
  <2>4. Solves(g, m + 1)
    BY <2>3
  <2> HIDE DEF g, Solves
  <2>5. \E h : Solves(h, m + 1)
    BY <2>4
  <2>6. QED
    BY <2>2, <2>5
<1> HIDE DEF S
<1>3. \A k \in 0..Len(q) : k \in S
  BY <1>0, <1>1, <1>2, Climb
<1>4. Len(q) \in S
  BY <1>0, <1>3
<1>5. QED
  BY <1>4 DEF S, Flattens

\* Lists that follow each other are in order when put together.
LEMMA FlattenInOrder ==
    ASSUME NEW q \in Seq(Seq(Nat)), q # << >>, NEW A,
           \A k \in 1..Len(q) : InOrder(q[k], A[k]),
           \A j, k \in 1..Len(q) : \A x \in A[j], y \in A[k] : j < k => x < y
    PROVE  /\ FlattenSeq(q) \in Seq(Nat)
           /\ InOrder(FlattenSeq(q), UNION {A[k] : k \in 1..Len(q)})
<1> DEFINE m == Len(q)
           f == CHOOSE g : Flattens(g, q)
<1>1. m \in Nat \ {0} /\ \A k \in 1..m : q[k] \in Seq(Nat)
  OBVIOUS
<1>2. FlattenSeq(q) = f[m]
  BY <1>1 DEF FlattenSeq, Flattens
<1>3. Flattens(f, q)
  BY FlattenSolution
<1>4. \A i \in 1..m : f[i] = IF i = 1 THEN q[i] ELSE f[i - 1] \o q[i]
  <2> HIDE DEF f
  <2>1. QED
    BY <1>3 DEF Flattens
<1> HIDE DEF f, m
<1> DEFINE Upto(i) == UNION {A[k] : k \in 1..i}
           Flat(i) == f[i] \in Seq(Nat) /\ InOrder(f[i], Upto(i))
           S == {i \in Nat : i \in 1..m => Flat(i)}
<1>5. 0 \in S
  OBVIOUS
<1>6. ASSUME NEW i \in 0..(m - 1), i \in S PROVE i + 1 \in S
  <2>1. i + 1 \in 1..m /\ i + 1 \in Nat
    BY <1>1
  <2>2. q[i + 1] \in Seq(Nat) /\ InOrder(q[i + 1], A[i + 1])
    BY <1>1, <2>1 DEF m
  <2>3. CASE i = 0
    <3>1. f[1] = q[1]
      BY <1>4, <2>1, <2>3
    <3>2. Upto(1) = A[1]
      OBVIOUS
    <3> HIDE DEF Upto
    <3>3. Flat(1)
      BY <2>2, <2>3, <3>1, <3>2
    <3> HIDE DEF Flat
    <3>4. QED
      BY <2>3, <3>3
  <2>4. CASE i # 0
    <3>1. i \in 1..m /\ i \in Nat /\ i + 1 # 1 /\ (i + 1) - 1 = i
      BY <1>1, <2>4
    <3>2. f[i] \in Seq(Nat) /\ InOrder(f[i], Upto(i))
      BY <1>6, <3>1
    <3>3. f[i + 1] = f[i] \o q[i + 1]
      BY <1>4, <2>1, <3>1
    <3>4. Upto(i + 1) = Upto(i) \cup A[i + 1]
      <4>1. 1..(i + 1) = (1..i) \cup {i + 1}
        BY <3>1
      <4>2. QED
        BY <4>1
    <3>5. ASSUME NEW x \in Upto(i), NEW y \in A[i + 1] PROVE x < y
      <4>1. PICK k \in 1..i : x \in A[k]
        OBVIOUS
      <4>2. k \in 1..Len(q) /\ i + 1 \in 1..Len(q) /\ k < i + 1
        BY <1>1, <2>1, <3>1 DEF m
      <4>3. QED
        BY <4>1, <4>2
    <3> HIDE DEF Upto
    <3>6. f[i] \o q[i + 1] \in Seq(Nat)
      BY <2>2, <3>2
    <3>7. InOrder(f[i] \o q[i + 1], Upto(i) \cup A[i + 1])
      BY <2>2, <3>2, <3>5, JoinInOrder
    <3>8. Flat(i + 1)
      BY <3>3, <3>4, <3>6, <3>7
    <3> HIDE DEF Flat
    <3>9. QED
      BY <2>1, <3>8
  <2>5. QED
    BY <2>3, <2>4
<1>7. m \in S
  <2> HIDE DEF S
  <2>1. \A i \in 0..m : i \in S
    BY <1>1, <1>5, <1>6, Climb
  <2>2. QED
    BY <1>1, <2>1
<1>8. f[m] \in Seq(Nat) /\ InOrder(f[m], Upto(m))
  <2> HIDE DEF Upto
  <2>1. QED
    BY <1>1, <1>7
<1>9. QED
  BY <1>2, <1>8 DEF m

-----------------------------------------------------------------------------
(* Stretches.  Cuts divide 0..c-1 into m consecutive parts.                *)

IsCut(F, m, c) ==
    /\ F \in [0..m -> Nat]
    /\ F[0] = 0
    /\ F[m] = c
    /\ \A k \in 0..(m - 1) : F[k] <= F[k + 1]

LEMMA CutAscends ==
    ASSUME NEW m \in Nat, NEW c \in Nat, NEW F, IsCut(F, m, c)
    PROVE  \A k, l \in 0..m : k <= l => F[k] <= F[l]
<1> SUFFICES ASSUME NEW k \in 0..m PROVE \A l \in 0..m : k <= l => F[k] <= F[l]
  OBVIOUS
<1> DEFINE S == {l \in 0..m : k <= l => F[k] <= F[l]}
<1>1. 0 \in S
  BY DEF IsCut
<1>2. ASSUME NEW l \in 0..(m - 1), l \in S PROVE l + 1 \in S
  <2>1. l \in 0..m /\ l + 1 \in 0..m /\ F[l] \in Nat /\ F[l + 1] \in Nat /\ F[k] \in Nat
    BY <1>2 DEF IsCut
  <2>2. F[l] <= F[l + 1]
    BY DEF IsCut
  <2>3. CASE k <= l
    BY <1>2, <2>1, <2>2, <2>3
  <2>4. CASE k > l
    BY <2>1, <2>4
  <2>5. QED
    BY <2>1, <2>3, <2>4
<1> HIDE DEF S
<1>3. \A l \in 0..m : l \in S
  BY <1>1, <1>2, Climb
<1>4. QED
  BY <1>3 DEF S

LEMMA CutDivides ==
    ASSUME NEW m \in Nat, NEW c \in Nat, NEW F, IsCut(F, m, c)
    PROVE  /\ \A t \in 0..(m - 1) : F[t]..(F[t + 1] - 1) \subseteq 0..(c - 1)
           /\ \A i \in 0..(c - 1) : \E t \in 0..(m - 1) : i \in F[t]..(F[t + 1] - 1)
           /\ \A t, u \in 0..(m - 1) : \A i \in F[t]..(F[t + 1] - 1), j \in F[u]..(F[u + 1] - 1) :
                 t < u => i < j
<1>1. ASSUME NEW t \in 0..(m - 1)
      PROVE  /\ t \in 0..m /\ t + 1 \in 0..m
             /\ F[t] \in Nat /\ F[t + 1] \in Nat /\ F[t + 1] <= c
  <2>1. t \in 0..m /\ t + 1 \in 0..m /\ m \in 0..m /\ t + 1 <= m
    OBVIOUS
  <2>2. F[t + 1] <= F[m]
    BY <2>1, CutAscends
  <2>3. QED
    BY <2>1, <2>2 DEF IsCut
<1>2. \A t \in 0..(m - 1) : F[t]..(F[t + 1] - 1) \subseteq 0..(c - 1)
  BY <1>1
<1>3. ASSUME NEW i \in 0..(c - 1) PROVE \E t \in 0..(m - 1) : i \in F[t]..(F[t + 1] - 1)
  <2> DEFINE T == {k \in 0..m : i < F[k]}
  <2>1. m \in T
    BY DEF IsCut
  <2>2. T \in SUBSET Nat /\ T # {}
    BY <2>1
  <2>3. PICK k \in T : \A l \in T : k <= l
    BY <2>2, Least
  <2>4. k # 0
    BY <2>3 DEF IsCut
  <2>5. k - 1 \in 0..(m - 1) /\ (k - 1) + 1 = k /\ k - 1 \in 0..m
    BY <2>3, <2>4
  <2>6. ~(i < F[k - 1])
    BY <2>3, <2>5
  <2>7. F[k - 1] \in Nat /\ F[k] \in Nat
    BY <1>1, <2>5
  <2>8. i \in F[k - 1]..(F[(k - 1) + 1] - 1)
    BY <2>3, <2>5, <2>6, <2>7
  <2>9. QED
    BY <2>5, <2>8
<1>4. ASSUME NEW t \in 0..(m - 1), NEW u \in 0..(m - 1), t < u,
             NEW i \in F[t]..(F[t + 1] - 1), NEW j \in F[u]..(F[u + 1] - 1)
      PROVE  i < j
  <2>1. t + 1 \in 0..m /\ u \in 0..m /\ t + 1 <= u
    BY <1>4
  <2>2. F[t + 1] <= F[u]
    BY <2>1, CutAscends
  <2>3. F[t] \in Nat /\ F[t + 1] \in Nat /\ F[u] \in Nat /\ F[u + 1] \in Nat
    BY <1>1
  <2>4. QED
    BY <2>2, <2>3
<1>5. QED
  BY <1>2, <1>3, <1>4

LEMMA TeamIs ==
    /\ max_threads \in Nat \ {0}
    /\ Cardinality(Team) \in Nat \ {0}
    /\ Cardinality(Team) <= max_threads
    /\ Team = 0..(Cardinality(Team) - 1)
    /\ Team \subseteq Threads
<1>1. PICK k \in 1..max_threads : Team = 0..(k - 1)
  BY ThreadAssumption
<1>2. max_threads \in Nat \ {0} /\ k \in Nat \ {0} /\ k <= max_threads
  BY ThreadAssumption, <1>1
<1>3. Cardinality(0..(k - 1)) = k
  BY <1>2, FS_Interval
<1>4. QED
  BY <1>1, <1>2, <1>3 DEF Threads

\* schedule(static) gives every iteration to exactly one thread.
LEMMA StretchDivides ==
    ASSUME NEW count \in Nat
    PROVE  /\ \A t \in Team : Stretch(t, count) \subseteq 0..(count - 1)
           /\ \A i \in 0..(count - 1) : \E t \in Team : i \in Stretch(t, count)
           /\ \A t, u \in Team : t # u => Stretch(t, count) \cap Stretch(u, count) = {}
<1> DEFINE team  == Cardinality(Team)
           size  == count \div team
           extra == count % team
           F     == [k \in 0..team |-> k * size + Smaller(k, extra)]
<1>1. team \in Nat \ {0} /\ Team = 0..(team - 1)
  BY TeamIs
<1> HIDE DEF team
<1>2. size \in Nat /\ extra \in 0..(team - 1) /\ team * size + extra = count
  BY <1>1
<1> HIDE DEF size, extra
<1>3. ASSUME NEW k \in 0..team PROVE k * size \in Nat /\ Smaller(k, extra) \in Nat
  BY <1>1, <1>2 DEF Smaller
<1>4. ASSUME NEW k \in 0..(team - 1)
      PROVE  F[k + 1] = F[k] + size + IF k < extra THEN 1 ELSE 0
  <2>1. (k + 1) * size = k * size + size
    BY <1>1, <1>2
  <2>2. k \in 0..team /\ k + 1 \in 0..team
    BY <1>1
  <2>3. Smaller(k + 1, extra) = Smaller(k, extra) + IF k < extra THEN 1 ELSE 0
    BY <1>1, <1>2 DEF Smaller
  <2>4. F[k + 1] = (k + 1) * size + Smaller(k + 1, extra) /\ F[k] = k * size + Smaller(k, extra)
    BY <2>2
  <2> HIDE DEF F
  <2>5. QED
    BY <1>2, <1>3, <2>1, <2>2, <2>3, <2>4
<1>5. F \in [0..team -> Nat]
  BY <1>3
<1>6. F[0] = 0 /\ F[team] = count
  BY <1>1, <1>2 DEF Smaller
<1>7. ASSUME NEW t \in Team PROVE Stretch(t, count) = F[t]..(F[t + 1] - 1)
  <2>1. t \in 0..(team - 1) /\ t \in 0..team
    BY <1>1
  <2>2. F[t] = IF t < extra THEN t * (size + 1) ELSE t * size + extra
    <3>1. t * (size + 1) = t * size + t
      BY <1>2, <2>1
    <3>2. QED
      BY <2>1, <3>1 DEF Smaller
  <2>3. F[t] \in Nat /\ F[t + 1] = F[t] + size + IF t < extra THEN 1 ELSE 0
    BY <1>4, <1>5, <2>1
  <2>4. Stretch(t, count) = F[t]..(F[t] + (IF t < extra THEN size ELSE size - 1))
    <3> HIDE DEF F
    <3>1. QED
      BY <2>2 DEF Stretch, team, size, extra
  <2> HIDE DEF F
  <2>5. F[t] + (IF t < extra THEN size ELSE size - 1) = F[t + 1] - 1
    BY <1>2, <2>3
  <2>6. QED
    BY <2>4, <2>5
<1> HIDE DEF F
<1>8. IsCut(F, team, count)
  <2>1. ASSUME NEW k \in 0..(team - 1) PROVE F[k] <= F[k + 1]
    <3>1. F[k] \in Nat
      BY <1>1, <1>5
    <3>2. QED
      BY <1>2, <1>4, <3>1
  <2>2. QED
    BY <1>5, <1>6, <2>1 DEF IsCut
<1>9. QED
  <2>1. /\ \A t \in 0..(team - 1) : F[t]..(F[t + 1] - 1) \subseteq 0..(count - 1)
        /\ \A i \in 0..(count - 1) : \E t \in 0..(team - 1) : i \in F[t]..(F[t + 1] - 1)
        /\ \A t, u \in 0..(team - 1) :
             \A i \in F[t]..(F[t + 1] - 1), j \in F[u]..(F[u + 1] - 1) : t < u => i < j
    BY <1>1, <1>8, CutDivides
  <2>2. ASSUME NEW t \in Team, NEW u \in Team, t < u,
               NEW i \in Stretch(t, count), i \in Stretch(u, count)
        PROVE  FALSE
    <3>1. i \in F[t]..(F[t + 1] - 1) /\ i \in F[u]..(F[u + 1] - 1)
      BY <1>7, <2>2
    <3>2. t \in 0..(team - 1) /\ u \in 0..(team - 1)
      BY <1>1
    <3>3. i \in 0..(count - 1) /\ i < i
      BY <2>1, <2>2, <3>1, <3>2
    <3>4. QED
      BY <3>3
  <2>3. \A t \in Team : Stretch(t, count) \subseteq 0..(count - 1)
    BY <1>1, <1>7, <2>1
  <2>4. ASSUME NEW t \in Team, NEW u \in Team, t # u
        PROVE  Stretch(t, count) \cap Stretch(u, count) = {}
    <3>1. t < u \/ u < t
      BY <1>1, <2>4
    <3>2. QED
      BY <2>2, <3>1
  <2>5. ASSUME NEW i \in 0..(count - 1) PROVE \E t \in Team : i \in Stretch(t, count)
    <3>1. PICK t \in 0..(team - 1) : i \in F[t]..(F[t + 1] - 1)
      BY <2>1
    <3>2. t \in Team
      BY <1>1
    <3>3. QED
      BY <1>7, <3>1, <3>2
  <2>6. QED
    BY <2>3, <2>4, <2>5

\* The chunks of the scan, of all threads that could run, are consecutive too.
LEMMA ChunkDivides ==
    ASSUME n \in Nat \ {0}
    PROVE  /\ \A t \in Threads : Chunk(t) \subseteq 0..(n - 1)
           /\ \A i \in 0..(n - 1) : \E t \in Threads : i \in Chunk(t)
           /\ \A t, u \in Threads : \A i \in Chunk(t), j \in Chunk(u) : t < u => i < j
<1> DEFINE m     == max_threads
           c     == n
           chunk == (c + m - 1) \div m
           F     == [k \in 0..m |-> Smaller(c, k * chunk)]
<1>1. m \in Nat \ {0} /\ Threads = 0..(m - 1) /\ c \in Nat \ {0}
  BY TeamIs DEF Threads
<1>2. \A t : Chunk(t) = Smaller(c, t * chunk)..(Smaller(c, Smaller(c, t * chunk) + chunk) - 1)
  BY DEF Chunk
<1> HIDE DEF m, c
<1>3. chunk \in Nat /\ m * chunk >= c
  BY <1>1
<1> HIDE DEF chunk
<1>4. \A k \in 0..m : k * chunk \in Nat
  BY <1>1, <1>3
<1>5. F \in [0..m -> Nat]
  BY <1>1, <1>4 DEF Smaller
<1>6. F[0] = 0 /\ F[m] = c
  BY <1>1, <1>3 DEF Smaller
<1>7. ASSUME NEW k \in 0..(m - 1)
      PROVE  /\ F[k + 1] = Smaller(c, F[k] + chunk)
             /\ F[k] <= F[k + 1]
             /\ Chunk(k) = F[k]..(F[k + 1] - 1)
  <2>1. k \in 0..m /\ k + 1 \in 0..m
    BY <1>1
  <2>2. (k + 1) * chunk = k * chunk + chunk /\ k * chunk \in Nat
    BY <1>3, <1>4, <2>1
  <2>3. F[k] = Smaller(c, k * chunk) /\ F[k + 1] = Smaller(c, k * chunk + chunk)
    BY <2>1, <2>2
  <2> HIDE DEF F
  <2>4. F[k + 1] = Smaller(c, F[k] + chunk) /\ F[k] <= F[k + 1]
    BY <1>1, <1>3, <2>2, <2>3 DEF Smaller
  <2>5. QED
    BY <1>2, <2>3, <2>4
<1> HIDE DEF F
<1>8. IsCut(F, m, c)
  BY <1>5, <1>6, <1>7 DEF IsCut
<1>9. /\ \A t \in 0..(m - 1) : F[t]..(F[t + 1] - 1) \subseteq 0..(c - 1)
      /\ \A i \in 0..(c - 1) : \E t \in 0..(m - 1) : i \in F[t]..(F[t + 1] - 1)
      /\ \A t, u \in 0..(m - 1) :
           \A i \in F[t]..(F[t + 1] - 1), j \in F[u]..(F[u + 1] - 1) : t < u => i < j
  BY <1>1, <1>8, CutDivides
<1>10. \A i \in 0..(c - 1) : \E t \in Threads : i \in Chunk(t)
  BY <1>1, <1>7, <1>9
<1>11. \A t \in Threads : Chunk(t) \subseteq 0..(c - 1)
  BY <1>1, <1>7, <1>9
<1>12. ASSUME NEW t \in Threads, NEW u \in Threads, NEW i \in Chunk(t), NEW j \in Chunk(u), t < u
       PROVE  i < j
  <2>1. t \in 0..(m - 1) /\ u \in 0..(m - 1)
    BY <1>1
  <2>2. i \in F[t]..(F[t + 1] - 1) /\ j \in F[u]..(F[u + 1] - 1)
    BY <1>7, <1>12, <2>1
  <2>3. QED
    BY <1>9, <1>12, <2>1, <2>2
<1>13. QED
  BY <1>10, <1>11, <1>12 DEF c

-----------------------------------------------------------------------------
(* Bags.                                                                   *)

LEMMA AddedIs ==
    ASSUME NEW bag, IsABag(bag), NEW w
    PROVE  /\ IsABag(Added(bag, w))
           /\ BagToSet(Added(bag, w)) = BagToSet(bag) \cup {w}
           /\ \A v : Copies(v, Added(bag, w)) = Copies(v, bag) + IF v = w THEN 1 ELSE 0
           /\ \A v : Copies(v, bag) \in Nat
<1>1. DOMAIN Added(bag, w) = DOMAIN bag \cup {w}
  BY DEF Added, (+), SetToBag
<1>2. \A v \in DOMAIN bag : bag[v] \in Nat /\ bag[v] > 0
  BY DEF IsABag
<1>3. ASSUME NEW v \in DOMAIN bag \cup {w}
      PROVE  Added(bag, w)[v] = (IF v \in DOMAIN bag THEN bag[v] ELSE 0) + (IF v = w THEN 1 ELSE 0)
  BY DEF Added, (+), SetToBag
<1>4. Added(bag, w) = [v \in DOMAIN bag \cup {w} |-> Added(bag, w)[v]]
  BY DEF Added, (+), SetToBag
<1>5. \A v \in DOMAIN bag \cup {w} : Added(bag, w)[v] \in {k \in Nat : k > 0}
  BY <1>2, <1>3
<1>6. IsABag(Added(bag, w))
  BY <1>1, <1>4, <1>5 DEF IsABag
<1>7. ASSUME NEW v
      PROVE  /\ Copies(v, Added(bag, w)) = Copies(v, bag) + IF v = w THEN 1 ELSE 0
             /\ Copies(v, bag) \in Nat
  BY <1>1, <1>2, <1>3 DEF Copies, BagIn, BagToSet
<1>8. QED
  BY <1>1, <1>6, <1>7 DEF BagToSet

LEMMA SumIs ==
    ASSUME NEW bag, IsABag(bag), NEW more, IsABag(more)
    PROVE  /\ IsABag(Sum(bag, more))
           /\ BagToSet(Sum(bag, more)) = BagToSet(bag) \cup BagToSet(more)
           /\ \A v : Copies(v, Sum(bag, more)) = Copies(v, bag) + Copies(v, more)
<1>1. DOMAIN Sum(bag, more) = DOMAIN bag \cup DOMAIN more
  BY DEF Sum, (+)
<1>2. /\ \A v \in DOMAIN bag : bag[v] \in Nat /\ bag[v] > 0
      /\ \A v \in DOMAIN more : more[v] \in Nat /\ more[v] > 0
  BY DEF IsABag
<1>3. ASSUME NEW v \in DOMAIN bag \cup DOMAIN more
      PROVE  Sum(bag, more)[v] = (IF v \in DOMAIN bag THEN bag[v] ELSE 0)
                                 + (IF v \in DOMAIN more THEN more[v] ELSE 0)
  BY DEF Sum, (+)
<1>4. Sum(bag, more) = [v \in DOMAIN bag \cup DOMAIN more |-> Sum(bag, more)[v]]
  BY DEF Sum, (+)
<1>5. \A v \in DOMAIN bag \cup DOMAIN more : Sum(bag, more)[v] \in {k \in Nat : k > 0}
  BY <1>2, <1>3
<1>6. IsABag(Sum(bag, more))
  BY <1>1, <1>4, <1>5 DEF IsABag
<1>7. ASSUME NEW v PROVE Copies(v, Sum(bag, more)) = Copies(v, bag) + Copies(v, more)
  BY <1>1, <1>2, <1>3 DEF Copies, BagIn, BagToSet
<1>8. QED
  BY <1>1, <1>6, <1>7 DEF BagToSet

LEMMA EmptyIs ==
    /\ IsABag(EmptyBag)
    /\ BagToSet(EmptyBag) = {}
    /\ \A v : Copies(v, EmptyBag) = 0
BY DEF EmptyBag, SetToBag, IsABag, BagToSet, BagIn, Copies

-----------------------------------------------------------------------------
(* The invariant.                                                          *)

source == Buffer(input)

Typed ==
    /\ input \in Inputs
    /\ buf \in [0..Len(input) -> Nat]
    /\ phase \in {"mark", "scan", "count", "merge", "done"}
    /\ at \in [Threads -> Nat]
    /\ local_words \in [Threads -> Seq(0..Len(input))]
    /\ words \in Seq(0..Len(input))

\* While the threads mark, a byte is as it was or marked, and marked once its thread
\* has been there; later every separator is NUL.
Marked ==
    /\ phase = "mark" =>
         \A i \in 0..Len(input) :
            /\ buf[i] \in {source[i], Cleaned(source)[i]}
            /\ \A t \in Team : i \in Stretch(t, n) /\ i < at[t] => buf[i] = Cleaned(source)[i]
    /\ phase # "mark" => buf = Cleaned(source)

\* The word starts in the part of its chunk that thread t has scanned.
Found(t) == {i \in WordStarts(source) : i \in Chunk(t) /\ i < at[t]}

\* The word starts in the chunks of the threads that run.
StartsScanned == {i \in WordStarts(source) : \E t \in Team : i \in Chunk(t)}

\* A thread that does not run stands where its chunk might begin.
Scanned ==
    /\ phase = "mark" => \A t \in Threads : local_words[t] = << >>
    /\ phase = "scan" => /\ \A t \in Threads : InOrder(local_words[t], Found(t))
                         /\ \A t \in Threads \ Team : at[t] = 0
    /\ phase \notin {"mark", "scan"} => InOrder(words, StartsScanned)

\* Only words of the input are counted.
BagSound(bag) == IsABag(bag) /\ BagToSet(bag) \subseteq Distinct(source)

BagsSound ==
    /\ DOMAIN local_counts = Threads
    /\ \A t \in Threads : BagSound(local_counts[t])
    /\ BagSound(merged_counts)
    /\ phase \in {"mark", "scan"} => \A t \in Threads : local_counts[t] = EmptyBag
    /\ phase \in {"mark", "scan", "count"} => merged_counts = EmptyBag

IInv == Typed /\ Marked /\ Scanned /\ BagsSound

LEMMA InputFacts ==
    ASSUME Typed
    PROVE  /\ input \in Seq(Nat) /\ Len(input) \in Nat
           /\ n \in Nat \ {0} /\ n = Len(input) + 1 /\ 0..(n - 1) = 0..Len(input)
           /\ source \in [0..Len(input) -> Nat] /\ source[Len(input)] = 0
           /\ Cleaned(source) \in [0..Len(input) -> Nat]
<1>1. input \in Seq(Nat) /\ Len(input) \in Nat
  BY InputAssumption DEF Typed
<1>2. n \in Nat \ {0} /\ n = Len(input) + 1 /\ 0..(n - 1) = 0..Len(input)
  BY <1>1 DEF n
<1>3. source \in [0..Len(input) -> Nat] /\ source[Len(input)] = 0
  BY <1>1, BufferType DEF source
<1>4. Cleaned(source) \in [0..Len(input) -> Nat]
  BY <1>1, <1>3, CleanedIs
<1>5. QED
  BY <1>1, <1>2, <1>3, <1>4

LEMMA InitHolds == Init => IInv
<1> SUFFICES ASSUME Init PROVE IInv
  OBVIOUS
<1>1. input \in Seq(Nat) /\ Len(input) \in Nat /\ source \in [0..Len(input) -> Nat]
  BY InputAssumption, BufferType DEF Init, source
<1>2. Typed
  <2>1. << >> \in Seq(0..Len(input))
    OBVIOUS
  <2>2. QED
    BY <1>1, <2>1 DEF Init, Typed, source
<1>3. Marked
  <2>1. ASSUME NEW i \in 0..Len(input), NEW t \in Team PROVE ~(i < at[t])
    BY TeamIs, <1>1 DEF Init
  <2>2. QED
    BY <1>1, <2>1 DEF Init, Marked, source
<1>4. Scanned
  BY DEF Init, Scanned
<1>5. BagsSound
  BY EmptyIs DEF Init, BagsSound, BagSound
<1>6. QED
  BY <1>2, <1>3, <1>4, <1>5 DEF IInv

\* A thread's next iteration.
LEMMA IterateFacts ==
    ASSUME Typed, NEW t \in Team, NEW i \in Left(t), Iterate(t, i)
    PROVE  /\ t \in Threads /\ at[t] \in Nat /\ at' = [at EXCEPT ![t] = i + 1]
           /\ i \in Iterations(t) /\ at[t] <= i
           /\ \A j \in Iterations(t) : j >= at[t] => i <= j
BY TeamIs DEF Typed, Left, Iterate

LEMMA MarkKeeps == ASSUME IInv, NEW t \in Team, Mark(t) PROVE IInv'
<1>1. PICK i \in Left(t) :
        Iterate(t, i) /\ buf' = IF is_separator(buf[i]) THEN [buf EXCEPT ![i] = 0] ELSE buf
  BY DEF Mark
<1>2. /\ phase = "mark"
      /\ UNCHANGED <<input, phase, local_words, words, local_counts, merged_counts, char_splits>>
  BY DEF Mark
<1>3. /\ input \in Seq(Nat) /\ Len(input) \in Nat
      /\ n \in Nat \ {0} /\ n = Len(input) + 1 /\ 0..(n - 1) = 0..Len(input)
      /\ source \in [0..Len(input) -> Nat] /\ Cleaned(source) \in [0..Len(input) -> Nat]
  BY InputFacts DEF IInv
<1>4. /\ t \in Threads /\ at[t] \in Nat /\ at' = [at EXCEPT ![t] = i + 1]
      /\ i \in Iterations(t) /\ at[t] <= i
      /\ \A j \in Iterations(t) : j >= at[t] => i <= j
  BY <1>1, IterateFacts DEF IInv
<1>5. Iterations(t) = Stretch(t, n) /\ i \in 0..Len(input)
  BY <1>2, <1>3, <1>4, StretchDivides DEF Iterations
<1>6. source' = source /\ n' = n
  BY <1>2 DEF source, n
<1>7. Typed'
  <2>1. at' \in [Threads -> Nat]
    BY <1>4, <1>5 DEF IInv, Typed
  <2>2. buf' \in [0..Len(input) -> Nat]
    BY <1>1, <1>5 DEF IInv, Typed
  <2>3. QED
    BY <1>2, <2>1, <2>2 DEF IInv, Typed
<1>8. Marked'
  <2>1. \A k \in 0..Len(input) :
          /\ buf[k] \in {source[k], Cleaned(source)[k]}
          /\ \A u \in Team : k \in Stretch(u, n) /\ k < at[u] => buf[k] = Cleaned(source)[k]
    BY <1>2 DEF IInv, Marked
  <2>2. buf \in [0..Len(input) -> Nat]
    BY DEF IInv, Typed
  <2>3. buf'[i] = Cleaned(source)[i]
    <3>1. DOMAIN source = 0..Len(input)
      BY <1>3
    <3>2. Cleaned(source)[i] = IF is_separator(source[i]) THEN 0 ELSE source[i]
      BY <1>5, <3>1 DEF Cleaned
    <3>3. is_separator(0)
      BY SeparatorAssumption DEF is_separator
    <3>4. buf'[i] = IF is_separator(buf[i]) THEN 0 ELSE buf[i]
      BY <1>1, <1>5, <2>2
    <3>5. QED
      BY <1>5, <2>1, <3>2, <3>3, <3>4
  <2>4. \A k \in 0..Len(input) : k # i => buf'[k] = buf[k]
    BY <1>1, <2>2
  <2>5. ASSUME NEW k \in 0..Len(input)
        PROVE  /\ buf'[k] \in {source[k], Cleaned(source)[k]}
               /\ \A u \in Team : k \in Stretch(u, n) /\ k < at'[u] => buf'[k] = Cleaned(source)[k]
    <3>1. CASE k = i
      BY <2>3, <3>1
    <3>2. CASE k # i
      <4>1. ASSUME NEW u \in Team, k \in Stretch(u, n), k < at'[u]
            PROVE  buf'[k] = Cleaned(source)[k]
        <5>1. CASE u = t
          <6>1. at'[t] = i + 1
            BY <1>4 DEF IInv, Typed
          <6>2. k < i
            BY <1>5, <3>2, <4>1, <5>1, <6>1
          <6>3. ~(k >= at[t])
            BY <1>4, <1>5, <4>1, <5>1, <6>2
          <6>4. k < at[t]
            BY <1>4, <6>3
          <6>5. QED
            BY <2>1, <2>4, <3>2, <4>1, <5>1, <6>4
        <5>2. CASE u # t
          <6>1. at'[u] = at[u]
            BY <1>4, <5>2, TeamIs DEF IInv, Typed
          <6>2. QED
            BY <2>1, <2>4, <3>2, <4>1, <6>1
        <5>3. QED
          BY <5>1, <5>2
      <4>2. QED
        BY <2>1, <2>4, <3>2, <4>1
    <3>3. QED
      BY <3>1, <3>2
  <2>6. QED
    BY <1>2, <1>6, <2>5 DEF Marked
<1>9. Scanned'
  BY <1>2 DEF IInv, Scanned
<1>10. BagsSound'
  BY <1>2, <1>6 DEF IInv, BagsSound, BagSound
<1>11. QED
  BY <1>7, <1>8, <1>9, <1>10 DEF IInv

LEMMA StartScanKeeps == IInv /\ StartScan => IInv'
<1> SUFFICES ASSUME IInv, StartScan PROVE IInv'
  OBVIOUS
<1>1. /\ phase = "mark" /\ phase' = "scan" /\ AllArrived
      /\ at' = [t \in Threads |-> 0]
      /\ UNCHANGED <<input, buf, local_words, words, local_counts, merged_counts, char_splits>>
  BY DEF StartScan
<1>2. /\ input \in Seq(Nat) /\ Len(input) \in Nat
      /\ n \in Nat \ {0} /\ n = Len(input) + 1 /\ 0..(n - 1) = 0..Len(input)
      /\ source \in [0..Len(input) -> Nat] /\ Cleaned(source) \in [0..Len(input) -> Nat]
  BY InputFacts DEF IInv
<1>3. source' = source
  BY <1>1 DEF source
<1>4. Typed'
  BY <1>1 DEF IInv, Typed
<1>5. Marked'
  <2>1. ASSUME NEW i \in 0..Len(input) PROVE buf[i] = Cleaned(source)[i]
    <3>1. PICK t \in Team : i \in Stretch(t, n)
      BY <1>2, StretchDivides
    <3>2. i \notin Left(t)
      BY <1>1 DEF AllArrived
    <3>3. ~(i >= at[t]) /\ at[t] \in Nat
      BY <1>1, <3>1, <3>2, TeamIs DEF Left, Iterations, IInv, Typed
    <3>4. i < at[t]
      BY <1>2, <3>3
    <3>5. QED
      BY <1>1, <3>1, <3>4 DEF IInv, Marked
  <2>2. buf = Cleaned(source)
    BY <1>2, <2>1 DEF IInv, Typed
  <2>3. QED
    BY <1>1, <1>3, <2>2 DEF Marked
<1>6. Scanned'
  <2>1. ASSUME NEW t \in Threads PROVE InOrder(<< >>, Found(t)')
    <3>1. WordStarts(source') \subseteq 0..Len(input)
      BY <1>2, <1>3, WordsAre DEF source
    <3>2. at'[t] = 0
      BY <1>1
    <3>3. Found(t)' = {}
      BY <1>2, <3>1, <3>2 DEF Found
    <3>4. QED
      BY <3>3 DEF InOrder
  <2>2. \A t \in Threads : local_words'[t] = << >>
    BY <1>1 DEF IInv, Scanned
  <2>3. QED
    BY <1>1, <2>1, <2>2 DEF Scanned
<1>7. BagsSound'
  BY <1>1, <1>3 DEF IInv, BagsSound, BagSound
<1>8. QED
  BY <1>4, <1>5, <1>6, <1>7 DEF IInv

LEMMA ScanKeeps == ASSUME IInv, NEW t \in Team, Scan(t) PROVE IInv'
<1>1. PICK i \in Left(t) :
        /\ Iterate(t, i)
        /\ local_words' = IF IsStart(t, i) THEN [local_words EXCEPT ![t] = Append(@, i)]
                          ELSE local_words
  BY DEF Scan
<1>2. /\ phase = "scan"
      /\ UNCHANGED <<input, buf, phase, words, local_counts, merged_counts, char_splits>>
  BY DEF Scan
<1>3. /\ input \in Seq(Nat) /\ Len(input) \in Nat
      /\ n \in Nat \ {0} /\ n = Len(input) + 1 /\ 0..(n - 1) = 0..Len(input)
      /\ source \in [0..Len(input) -> Nat]
  BY InputFacts DEF IInv
<1>4. /\ t \in Threads /\ at[t] \in Nat /\ at' = [at EXCEPT ![t] = i + 1]
      /\ i \in Iterations(t) /\ at[t] <= i
      /\ \A j \in Iterations(t) : j >= at[t] => i <= j
  BY <1>1, IterateFacts DEF IInv
<1>5. Iterations(t) = Chunk(t) /\ i \in 0..Len(input)
  BY <1>2, <1>3, <1>4, ChunkDivides DEF Iterations
<1>6. source' = source /\ n' = n /\ \A u \in Threads : Chunk(u)' = Chunk(u)
  BY <1>2 DEF source, n, Chunk
<1>7. Typed'
  <2>1. at' \in [Threads -> Nat]
    BY <1>4, <1>5 DEF IInv, Typed
  <2>2. local_words[t] \in Seq(0..Len(input))
    BY <1>4 DEF IInv, Typed
  <2>3. Append(local_words[t], i) \in Seq(0..Len(input))
    BY <1>5, <2>2
  <2>4. local_words' \in [Threads -> Seq(0..Len(input))]
    BY <1>1, <1>4, <2>3 DEF IInv, Typed
  <2>5. QED
    BY <1>2, <2>1, <2>4 DEF IInv, Typed
<1>8. Marked'
  BY <1>2, <1>6 DEF IInv, Marked
<1>9. Scanned'
  <2>1. IsStart(t, i) <=> i \in WordStarts(source)
    <3>1. buf = Cleaned(source) /\ DOMAIN source = 0..Len(input)
      BY <1>2, <1>3 DEF IInv, Marked
    <3>2. \A k \in 0..Len(input) : Cleaned(source)[k] = 0 <=> source[k] \in Separators
      BY <1>3, CleanedIs
    <3>3. i # 0 => i - 1 \in 0..Len(input)
      BY <1>3, <1>5
    <3>4. QED
      BY <1>5, <3>1, <3>2, <3>3 DEF IsStart, WordStarts, is_separator
  <2>2. InOrder(local_words[t], Found(t)) /\ local_words[t] \in Seq(Nat)
    <3>1. local_words[t] \in Seq(0..Len(input))
      BY <1>4 DEF IInv, Typed
    <3>2. QED
      BY <1>2, <1>3, <1>4, <3>1 DEF IInv, Scanned
  <2>3. WordStarts(source) \subseteq 0..Len(input)
    BY <1>3, WordsAre DEF source
  <2>4. \A y \in Found(t) : y < i
    BY <1>3, <1>4, <1>5, <2>3 DEF Found
  <2>5. Found(t)' = Found(t) \cup IF IsStart(t, i) THEN {i} ELSE {}
    <3>1. at'[t] = i + 1
      BY <1>4 DEF IInv, Typed
    <3>2. Found(t)' = {k \in WordStarts(source) : k \in Chunk(t) /\ k < i + 1}
      BY <1>4, <1>6, <3>1 DEF Found
    <3>3. ASSUME NEW k \in WordStarts(source), k \in Chunk(t)
          PROVE  k < i + 1 <=> k < at[t] \/ k = i
      BY <1>3, <1>4, <1>5, <2>3, <3>3
    <3>4. QED
      BY <1>4, <1>5, <2>1, <3>2, <3>3 DEF Found
  <2>6. InOrder(local_words'[t], Found(t)')
    <3>1. CASE IsStart(t, i)
      <4>1. local_words'[t] = Append(local_words[t], i)
        BY <1>1, <1>4, <3>1 DEF IInv, Typed
      <4>2. QED
        BY <1>5, <2>2, <2>4, <2>5, <3>1, <4>1, AppendInOrder
    <3>2. CASE ~IsStart(t, i)
      <4>1. local_words'[t] = local_words[t] /\ Found(t)' = Found(t)
        BY <1>1, <2>5, <3>2
      <4>2. QED
        BY <2>2, <4>1
    <3>3. QED
      BY <3>1, <3>2
  <2>7. ASSUME NEW u \in Threads, u # t PROVE InOrder(local_words'[u], Found(u)')
    <3>1. local_words'[u] = local_words[u] /\ at'[u] = at[u]
      BY <1>1, <1>4, <2>7 DEF IInv, Typed
    <3>2. Found(u)' = Found(u)
      BY <1>6, <3>1 DEF Found
    <3>3. QED
      BY <1>2, <3>1, <3>2 DEF IInv, Scanned
  <2>8. \A u \in Threads \ Team : at'[u] = 0
    BY <1>2, <1>4 DEF IInv, Scanned, Typed
  <2>9. QED
    BY <1>2, <2>6, <2>7, <2>8 DEF Scanned
<1>10. BagsSound'
  BY <1>2, <1>6 DEF IInv, BagsSound, BagSound
<1>11. QED
  BY <1>7, <1>8, <1>9, <1>10 DEF IInv

LEMMA StartCountKeeps == IInv /\ StartCount => IInv'
<1> SUFFICES ASSUME IInv, StartCount PROVE IInv'
  OBVIOUS
<1> DEFINE q == [k \in 1..max_threads |-> local_words[k - 1]]
           A == [k \in 1..max_threads |-> Found(k - 1)]
<1>1. /\ phase = "scan" /\ phase' = "count" /\ AllArrived
      /\ at' = [t \in Threads |-> 0]
      /\ words' = FlattenSeq(q)
      /\ UNCHANGED <<input, buf, local_words, local_counts, merged_counts, char_splits>>
  BY DEF StartCount
<1>2. /\ input \in Seq(Nat) /\ Len(input) \in Nat
      /\ n \in Nat \ {0} /\ n = Len(input) + 1 /\ 0..(n - 1) = 0..Len(input)
      /\ source \in [0..Len(input) -> Nat]
  BY InputFacts DEF IInv
<1>3. source' = source /\ n' = n /\ \A u \in Threads : Chunk(u)' = Chunk(u)
  BY <1>1 DEF source, n, Chunk
<1>4. max_threads \in Nat \ {0} /\ \A k \in 1..max_threads : k - 1 \in Threads
  BY TeamIs DEF Threads
<1>5. WordStarts(source) \subseteq 0..Len(input)
  BY <1>2, WordsAre DEF source
<1>6. /\ q \in Seq(Seq(Nat)) /\ q # << >> /\ Len(q) = max_threads
      /\ \A k \in 1..max_threads : q[k] = local_words[k - 1] /\ q[k] \in Seq(Nat)
  <2>1. ASSUME NEW k \in 1..max_threads PROVE local_words[k - 1] \in Seq(Nat)
    <3>1. local_words[k - 1] \in Seq(0..Len(input))
      BY <1>4 DEF IInv, Typed
    <3>2. QED
      BY <1>2, <3>1
  <2>2. q \in [1..max_threads -> Seq(Nat)]
    BY <2>1
  <2> HIDE DEF q
  <2>3. q \in Seq(Seq(Nat)) /\ Len(q) = max_threads
    BY <1>4, <2>2
  <2>4. QED
    BY <1>4, <2>1, <2>3 DEF q
<1>7. \A k \in 1..max_threads : InOrder(q[k], A[k])
  BY <1>1, <1>4 DEF IInv, Scanned
<1>8. ASSUME NEW j \in 1..max_threads, NEW k \in 1..max_threads,
             NEW x \in A[j], NEW y \in A[k], j < k
      PROVE  x < y
  <2>1. x \in Chunk(j - 1) /\ y \in Chunk(k - 1)
    BY DEF Found
  <2>2. j - 1 \in Threads /\ k - 1 \in Threads /\ j - 1 < k - 1
    BY <1>4, <1>8
  <2>3. QED
    BY <1>2, <2>1, <2>2, ChunkDivides
<1>9. UNION {A[k] : k \in 1..max_threads} = StartsScanned
  <2>1. ASSUME NEW i \in WordStarts(source), NEW t \in Threads
        PROVE  i \in Found(t) <=> i \in Chunk(t) /\ t \in Team
    <3>1. i \in 0..Len(input) /\ at[t] \in Nat
      BY <1>5 DEF IInv, Typed
    <3>2. CASE t \in Team /\ i \in Chunk(t)
      <4>1. i \notin Left(t)
        BY <1>1, <3>2 DEF AllArrived
      <4>2. i < at[t]
        BY <1>1, <3>1, <3>2, <4>1 DEF Left, Iterations
      <4>3. QED
        BY <3>2, <4>2 DEF Found
    <3>3. CASE t \notin Team
      <4>1. at[t] = 0
        BY <1>1, <3>3 DEF IInv, Scanned
      <4>2. QED
        BY <3>1, <3>3, <4>1 DEF Found
    <3>4. CASE i \notin Chunk(t)
      BY <3>4 DEF Found
    <3>5. QED
      BY <3>2, <3>3, <3>4
  <2>2. ASSUME NEW k \in 1..max_threads, NEW i \in A[k] PROVE i \in StartsScanned
    <3>1. i \in WordStarts(source) /\ i \in Found(k - 1)
      BY DEF Found
    <3>2. QED
      BY <1>4, <2>1, <3>1 DEF StartsScanned
  <2>3. ASSUME NEW i \in StartsScanned PROVE \E k \in 1..max_threads : i \in A[k]
    <3>1. PICK t \in Team : i \in Chunk(t) /\ i \in WordStarts(source)
      BY DEF StartsScanned
    <3>2. t \in Threads /\ i \in Found(t)
      BY <2>1, <3>1, TeamIs
    <3>3. t + 1 \in 1..max_threads /\ (t + 1) - 1 = t
      BY <1>4, <3>2 DEF Threads
    <3>4. i \in A[t + 1]
      BY <3>2, <3>3
    <3>5. QED
      BY <3>3, <3>4
  <2>4. QED
    BY <2>2, <2>3
<1> HIDE DEF q, A
<1>10. words' \in Seq(Nat) /\ InOrder(words', StartsScanned)
  <2>1. \A k \in 1..Len(q) : InOrder(q[k], A[k])
    BY <1>6, <1>7
  <2>2. \A j, k \in 1..Len(q) : \A x \in A[j], y \in A[k] : j < k => x < y
    BY <1>6, <1>8
  <2>3. /\ FlattenSeq(q) \in Seq(Nat)
        /\ InOrder(FlattenSeq(q), UNION {A[k] : k \in 1..Len(q)})
    BY <1>6, <2>1, <2>2, FlattenInOrder
  <2>4. QED
    BY <1>1, <1>6, <1>9, <2>3
<1>11. Typed'
  <2>1. \A k \in DOMAIN words' : words'[k] \in 0..Len(input)
    BY <1>5, <1>10 DEF InOrder, StartsScanned
  <2>2. words' \in Seq(0..Len(input))
    BY <1>10, <2>1
  <2>3. QED
    BY <1>1, <2>2 DEF IInv, Typed
<1>12. Marked'
  BY <1>1, <1>3 DEF IInv, Marked
<1>13. Scanned'
  <2>1. StartsScanned' = StartsScanned
    BY <1>3, TeamIs DEF StartsScanned
  <2>2. QED
    BY <1>1, <1>10, <2>1 DEF Scanned
<1>14. BagsSound'
  BY <1>1, <1>3 DEF IInv, BagsSound, BagSound
<1>15. QED
  BY <1>11, <1>12, <1>13, <1>14 DEF IInv

LEMMA StartsStay ==
    ASSUME UNCHANGED input
    PROVE  /\ source' = source /\ n' = n
           /\ \A u \in Threads : Chunk(u)' = Chunk(u)
           /\ StartsScanned' = StartsScanned
<1>1. source' = source /\ n' = n
  BY DEF source, n
<1>2. \A u \in Threads : Chunk(u)' = Chunk(u)
  BY <1>1 DEF Chunk
<1>3. QED
  BY <1>1, <1>2, TeamIs DEF StartsScanned

\* The word a thread counts.
LEMMA CountFacts ==
    ASSUME IInv, NEW t \in Team, Count(t)
    PROVE  \E i \in Left(t) :
              /\ Iterate(t, i)
              /\ i \in 0..(Len(words) - 1)
              /\ i + 1 \in DOMAIN words
              /\ CString(buf, words[i + 1]) = RunAt(source, words[i + 1])
              /\ RunAt(source, words[i + 1]) \in Distinct(source)
              /\ local_counts' =
                   [local_counts EXCEPT ![t] = Added(@, RunAt(source, words[i + 1]))]
<1>1. PICK i \in Left(t) :
        /\ Iterate(t, i)
        /\ local_counts' = [local_counts EXCEPT ![t] = Added(@, CString(buf, words[i + 1]))]
  BY DEF Count
<1>2. phase = "count" /\ buf = Cleaned(source) /\ InOrder(words, StartsScanned)
  BY DEF Count, IInv, Marked, Scanned
<1>3. /\ input \in Seq(Nat) /\ Len(input) \in Nat
      /\ source \in [0..Len(input) -> Nat] /\ source[Len(input)] = 0
  BY InputFacts DEF IInv
<1>4. words \in Seq(0..Len(input)) /\ Len(words) \in Nat
  BY DEF IInv, Typed
<1>5. i \in 0..(Len(words) - 1)
  BY <1>2, <1>4, StretchDivides DEF Left, Iterations
<1>6. i + 1 \in DOMAIN words /\ words[i + 1] \in 0..Len(input)
  BY <1>4, <1>5
<1>7. words[i + 1] \in WordStarts(source)
  BY <1>2, <1>6 DEF InOrder, StartsScanned
<1>8. CString(buf, words[i + 1]) = RunAt(source, words[i + 1])
  BY <1>2, <1>3, <1>6, WordIsRun
<1>9. RunAt(source, words[i + 1]) \in Distinct(source)
  BY <1>7 DEF Distinct
<1>10. QED
  BY <1>1, <1>5, <1>6, <1>8, <1>9

LEMMA CountKeeps == ASSUME IInv, NEW t \in Team, Count(t) PROVE IInv'
<1>1. PICK i \in Left(t) :
        /\ Iterate(t, i)
        /\ i \in 0..(Len(words) - 1)
        /\ RunAt(source, words[i + 1]) \in Distinct(source)
        /\ local_counts' = [local_counts EXCEPT ![t] = Added(@, RunAt(source, words[i + 1]))]
  BY CountFacts
<1>2. /\ phase = "count"
      /\ UNCHANGED <<input, buf, phase, local_words, words, merged_counts, char_splits>>
  BY DEF Count
<1>3. t \in Threads /\ at' = [at EXCEPT ![t] = i + 1]
  BY <1>1, IterateFacts DEF IInv
<1>4. source' = source /\ StartsScanned' = StartsScanned
  BY <1>2, StartsStay
<1>5. Typed'
  BY <1>1, <1>2, <1>3 DEF IInv, Typed
<1>6. Marked'
  BY <1>2, <1>4 DEF IInv, Marked
<1>7. Scanned'
  BY <1>2, <1>4 DEF IInv, Scanned
<1>8. BagsSound'
  <2> DEFINE w == RunAt(source, words[i + 1])
  <2>1. w \in Distinct(source)
    BY <1>1
  <2> HIDE DEF w
  <2>2. BagSound(local_counts[t])
    BY <1>3 DEF IInv, BagsSound
  <2>3. BagSound(Added(local_counts[t], w))
    BY <2>1, <2>2, AddedIs DEF BagSound
  <2>4. ASSUME NEW u \in Threads PROVE BagSound(local_counts'[u])
    <3>1. CASE u = t
      BY <1>1, <1>3, <2>3, <3>1 DEF w, IInv, BagsSound
    <3>2. CASE u # t
      <4>1. local_counts'[u] = local_counts[u]
        BY <1>1, <3>2
      <4>2. QED
        BY <4>1 DEF IInv, BagsSound
    <3>3. QED
      BY <3>1, <3>2
  <2>5. DOMAIN local_counts' = Threads
    BY <1>1 DEF IInv, BagsSound
  <2>6. \A u \in Threads : BagSound(local_counts[u])'
    BY <1>4, <2>4 DEF BagSound
  <2>7. BagSound(merged_counts)'
    BY <1>2, <1>4 DEF IInv, BagsSound, BagSound
  <2>8. QED
    BY <1>2, <2>5, <2>6, <2>7 DEF IInv, BagsSound
<1>9. QED
  BY <1>5, <1>6, <1>7, <1>8 DEF IInv

LEMMA StartMergeKeeps == IInv /\ StartMerge => IInv'
<1> SUFFICES ASSUME IInv, StartMerge PROVE IInv'
  OBVIOUS
<1>1. /\ phase = "count" /\ phase' = "merge"
      /\ at' = [t \in Threads |-> 0]
      /\ UNCHANGED <<input, buf, local_words, words, local_counts, merged_counts, char_splits>>
  BY DEF StartMerge
<1>2. source' = source /\ StartsScanned' = StartsScanned
  BY <1>1, StartsStay
<1>3. Typed'
  BY <1>1 DEF IInv, Typed
<1>4. Marked'
  BY <1>1, <1>2 DEF IInv, Marked
<1>5. Scanned'
  BY <1>1, <1>2 DEF IInv, Scanned
<1>6. BagsSound'
  BY <1>1, <1>2 DEF IInv, BagsSound, BagSound
<1>7. QED
  BY <1>3, <1>4, <1>5, <1>6 DEF IInv

LEMMA MergeKeeps == IInv /\ Merge => IInv'
<1> SUFFICES ASSUME IInv, Merge PROVE IInv'
  OBVIOUS
<1>1. /\ phase = "merge" /\ at[0] \in Threads
      /\ merged_counts' = Sum(merged_counts, local_counts[at[0]])
      /\ at' = [at EXCEPT ![0] = at[0] + 1]
      /\ UNCHANGED <<input, buf, phase, local_words, words, local_counts, char_splits>>
  BY DEF Merge
<1>2. source' = source /\ StartsScanned' = StartsScanned
  BY <1>1, StartsStay
<1>3. Typed'
  <2>1. 0 \in Threads
    BY TeamIs DEF Threads
  <2>2. at' \in [Threads -> Nat]
    BY <1>1, <2>1 DEF IInv, Typed
  <2>3. QED
    BY <1>1, <2>2 DEF IInv, Typed
<1>4. Marked'
  BY <1>1, <1>2 DEF IInv, Marked
<1>5. Scanned'
  BY <1>1, <1>2 DEF IInv, Scanned
<1>6. BagsSound'
  <2>1. BagSound(merged_counts) /\ BagSound(local_counts[at[0]])
    BY <1>1 DEF IInv, BagsSound
  <2>2. BagSound(merged_counts')
    BY <1>1, <2>1, SumIs DEF BagSound
  <2>3. BagSound(merged_counts)'
    BY <1>2, <2>2 DEF BagSound
  <2>4. \A t \in Threads : BagSound(local_counts[t])'
    BY <1>1, <1>2 DEF IInv, BagsSound, BagSound
  <2>5. QED
    BY <1>1, <2>3, <2>4 DEF IInv, BagsSound
<1>7. QED
  BY <1>3, <1>4, <1>5, <1>6 DEF IInv

LEMMA FinishKeeps == IInv /\ Finish => IInv'
<1> SUFFICES ASSUME IInv, Finish PROVE IInv'
  OBVIOUS
<1>1. /\ phase = "merge" /\ phase' = "done"
      /\ UNCHANGED <<input, buf, at, local_words, words, local_counts, merged_counts>>
  BY DEF Finish
<1>2. source' = source /\ StartsScanned' = StartsScanned
  BY <1>1, StartsStay
<1>3. Typed'
  BY <1>1 DEF IInv, Typed
<1>4. Marked'
  BY <1>1, <1>2 DEF IInv, Marked
<1>5. Scanned'
  BY <1>1, <1>2 DEF IInv, Scanned
<1>6. BagsSound'
  BY <1>1, <1>2 DEF IInv, BagsSound, BagSound
<1>7. QED
  BY <1>3, <1>4, <1>5, <1>6 DEF IInv

LEMMA NextKeeps == IInv /\ [Next]_vars => IInv'
<1> SUFFICES ASSUME IInv, [Next]_vars PROVE IInv'
  OBVIOUS
<1>1. CASE UNCHANGED vars
  <2>1. UNCHANGED input
    BY <1>1 DEF vars
  <2>2. source' = source /\ StartsScanned' = StartsScanned /\ n' = n
        /\ \A u \in Threads : Chunk(u)' = Chunk(u)
    BY <2>1, StartsStay
  <2>3. Typed' /\ Marked'
    BY <1>1, <2>2 DEF vars, IInv, Typed, Marked
  <2>4. Scanned'
    <3>1. \A t \in Threads : Found(t)' = Found(t)
      BY <1>1, <2>2 DEF vars, Found
    <3>2. QED
      BY <1>1, <2>2, <3>1 DEF vars, IInv, Scanned
  <2>5. BagsSound'
    BY <1>1, <2>2 DEF vars, IInv, BagsSound, BagSound
  <2>6. QED
    BY <2>3, <2>4, <2>5 DEF IInv
<1>2. CASE \E t \in Team : ThreadStep(t)
  BY <1>2, MarkKeeps, ScanKeeps, CountKeeps DEF ThreadStep
<1>3. CASE MainStep
  BY <1>3, StartScanKeeps, StartCountKeeps, StartMergeKeeps, MergeKeeps, FinishKeeps DEF MainStep
<1>4. QED
  BY <1>1, <1>2, <1>3 DEF Next, Terminated

LEMMA Inductive == Spec => []IInv
<1>1. Init => IInv
  BY InitHolds
<1>2. IInv /\ [Next]_vars => IInv'
  BY NextKeeps
<1>3. QED
  BY <1>1, <1>2, PTL DEF Spec

\* The result copied out is of its type.
LEMMA FinishFacts ==
    ASSUME IInv, Finish
    PROVE  \E order \in [1..Cardinality(BagToSet(merged_counts)) -> BagToSet(merged_counts)] :
              /\ \A i, j \in DOMAIN order : i # j => order[i] # order[j]
              /\ char_splits' = [k \in DOMAIN order |->
                                   [chars |-> order[k], count |-> merged_counts[order[k]]]]
BY DEF Finish, Orders

ResultTyped == char_splits \in Seq([chars : Seq(Nat), count : Nat])

LEMMA ResultStaysTyped == ResultTyped /\ IInv /\ [Next]_vars => ResultTyped'
<1> SUFFICES ASSUME ResultTyped, IInv, [Next]_vars PROVE ResultTyped'
  OBVIOUS
<1>1. CASE Finish
  <2> DEFINE D == BagToSet(merged_counts)
  <2>1. PICK order \in [1..Cardinality(D) -> D] :
          char_splits' = [k \in DOMAIN order |->
                            [chars |-> order[k], count |-> merged_counts[order[k]]]]
    BY <1>1, FinishFacts
  <2>2. D \subseteq Distinct(source) /\ IsABag(merged_counts)
    BY DEF IInv, BagsSound, BagSound
  <2>3. input \in Seq(Nat)
    BY InputFacts DEF IInv
  <2>4. IsFiniteSet(Distinct(source)) /\ Distinct(source) \subseteq Seq(Nat)
    BY <2>3, WordsAre DEF source
  <2>5. \A w \in D : w \in Seq(Nat) /\ merged_counts[w] \in Nat
    BY <2>2, <2>4 DEF IsABag, BagToSet
  <2> HIDE DEF D
  <2>6. Cardinality(D) \in Nat
    BY <2>2, <2>4, FS_Subset, FS_CardinalityType
  <2> DEFINE R == [chars : Seq(Nat), count : Nat]
             Entry(k) == [chars |-> order[k], count |-> merged_counts[order[k]]]
  <2>7. \A k \in 1..Cardinality(D) : Entry(k) \in R
    BY <2>5
  <2>8. char_splits' = [k \in 1..Cardinality(D) |-> Entry(k)]
    BY <2>1
  <2> HIDE DEF R, Entry
  <2>9. char_splits' \in [1..Cardinality(D) -> R]
    BY <2>7, <2>8
  <2>10. char_splits' \in Seq(R)
    BY <2>6, <2>9
  <2>11. QED
    BY <2>10 DEF ResultTyped, R
<1>2. CASE UNCHANGED char_splits
  BY <1>2 DEF ResultTyped
<1>3. QED
  BY <1>1, <1>2 DEF Next, ThreadStep, MainStep, Terminated, vars, Mark, Scan, Count,
                    StartScan, StartCount, StartMerge, Merge

TypeParts == IInv /\ ResultTyped

\* THEOREM.  Every thread stays in the buffer and in its list of words, whatever team a
\* region gets, and only words of the input are counted and handed over.
THEOREM TypeCorrect == Spec => []TypeOK
<1>1. Init => ResultTyped
  <2>1. << >> \in Seq([chars : Seq(Nat), count : Nat])
    OBVIOUS
  <2>2. QED
    BY <2>1 DEF Init, ResultTyped
<1>2. TypeParts /\ [Next]_vars => TypeParts'
  BY NextKeeps, ResultStaysTyped DEF TypeParts
<1>3. Init => TypeParts
  BY <1>1, InitHolds DEF TypeParts
<1>4. TypeParts => TypeOK
  BY DEF TypeParts, IInv, Typed, BagsSound, BagSound, ResultTyped, TypeOK
<1>5. QED
  BY <1>2, <1>3, <1>4, PTL DEF Spec

-----------------------------------------------------------------------------
(* The words.                                                              *)

\* THEOREM.  If the region of the scan gets its whole team, the threads together find
\* the words of the input in order, each once, one across a chunk boundary too, for
\* every input and every number of threads.
THEOREM WordsFound == Team = Threads => (Spec => []SplitExact)
<1> SUFFICES ASSUME Team = Threads PROVE Spec => []SplitExact
  OBVIOUS
<1>1. IInv => SplitExact
  <2> SUFFICES ASSUME IInv, phase \notin {"mark", "scan"} PROVE InOrder(words, WordStarts(source))
    BY DEF SplitExact, source
  <2>1. /\ input \in Seq(Nat) /\ n \in Nat \ {0} /\ 0..(n - 1) = 0..Len(input)
    BY InputFacts DEF IInv
  <2>2. WordStarts(source) \subseteq 0..(n - 1)
    BY <2>1, WordsAre DEF source
  <2>3. StartsScanned = WordStarts(source)
    BY <2>1, <2>2, ChunkDivides DEF StartsScanned
  <2>4. QED
    BY <2>3 DEF IInv, Scanned
<1>2. QED
  BY <1>1, Inductive, PTL

-----------------------------------------------------------------------------
(* The counts.                                                             *)

\* The places of a word in the list of words are as many as its occurrences.
LEMMA PlacesCounted ==
    ASSUME NEW s \in Seq(Nat), NEW list, InOrder(list, WordStarts(Buffer(s))),
           NEW m \in Nat, DOMAIN list = 1..m, NEW w
    PROVE  /\ IsFiniteSet({k \in DOMAIN list : RunAt(Buffer(s), list[k]) = w})
           /\ Cardinality({k \in DOMAIN list : RunAt(Buffer(s), list[k]) = w})
                = Occurrences(Buffer(s), w)
<1> DEFINE b == Buffer(s)
           A == {k \in DOMAIN list : RunAt(b, list[k]) = w}
           B == {i \in WordStarts(b) : RunAt(b, i) = w}
           f == [k \in A |-> list[k]]
<1>1. {list[k] : k \in DOMAIN list} = WordStarts(b) /\ WordStarts(b) \subseteq 0..Len(s)
  BY WordsAre DEF InOrder
<1>2. \A j, k \in DOMAIN list : j # k => list[j] # list[k]
  <2>1. ASSUME NEW j \in 1..m, NEW k \in 1..m, j # k PROVE list[j] # list[k]
    <3>1. list[j] \in Int /\ list[k] \in Int
      BY <1>1
    <3>2. j < k \/ k < j
      BY <2>1
    <3>3. list[j] < list[k] \/ list[k] < list[j]
      BY <3>2 DEF InOrder
    <3>4. QED
      BY <3>1, <3>3
  <2>2. QED
    BY <2>1
<1> HIDE DEF b
<1>3. f \in Bijection(A, B)
  <2>1. \A k \in A : f[k] \in B
    BY <1>1
  <2>2. \A i \in B : \E k \in A : f[k] = i
    BY <1>1
  <2>3. \A j, k \in A : f[j] = f[k] => j = k
    BY <1>2
  <2>4. f \in [A -> B]
    BY <2>1
  <2> HIDE DEF f, A, B
  <2>5. QED
    BY <2>2, <2>3, <2>4 DEF Bijection, Injection, Surjection, IsInjective
<1>4. IsFiniteSet(A)
  <2>1. IsFiniteSet(1..m) /\ A \in SUBSET (1..m)
    BY FS_Interval
  <2>2. QED
    BY <2>1, FS_Subset
<1>5. Cardinality(B) = Cardinality(A)
  <2> HIDE DEF A, B, f
  <2>1. QED
    BY <1>3, <1>4, FS_Bijection DEF ExistsBijection
<1>6. QED
  BY <1>4, <1>5 DEF Occurrences, b

\* The words the list holds denote the runs of the input.
Locals(w) == [t \in Threads |-> Copies(w, local_counts[t])]

Waiting == {u \in Threads : phase = "merge" => u >= at[0]}

LEMMA UnmergedIs ==
    ASSUME IInv, NEW w
    PROVE  /\ Unmerged(w) = Weighted(Waiting, Locals(w))
           /\ Locals(w) \in [Threads -> Nat]
           /\ Waiting \in SUBSET Threads /\ IsFiniteSet(Waiting)
           /\ IsFiniteSet(Unmerged(w)) /\ Cardinality(Unmerged(w)) \in Nat
           /\ Copies(w, merged_counts) \in Nat
<1>1. Unmerged(w) = Weighted(Waiting, Locals(w))
  <2>1. \A t \in Waiting : Locals(w)[t] = Copies(w, local_counts[t])
    BY DEF Waiting, Locals
  <2>2. QED
    BY <2>1 DEF Unmerged, Weighted, Waiting
<1>2. ASSUME NEW t \in Threads PROVE Copies(w, local_counts[t]) \in Nat
  BY AddedIs DEF IInv, BagsSound, BagSound
<1>3. Locals(w) \in [Threads -> Nat]
  BY <1>2 DEF Locals
<1>4. Waiting \in SUBSET Threads
  BY DEF Waiting
<1>5. IsFiniteSet(Threads)
  BY TeamIs, FS_Interval DEF Threads
<1>6. IsFiniteSet(Waiting)
  BY <1>4, <1>5, FS_Subset
<1>7. IsFiniteSet(Unmerged(w)) /\ Cardinality(Unmerged(w)) \in Nat
  BY <1>1, <1>3, <1>4, <1>6, WeightedFinite DEF Weight
<1>8. Copies(w, merged_counts) \in Nat
  BY AddedIs DEF IInv, BagsSound, BagSound
<1>9. QED
  BY <1>1, <1>3, <1>4, <1>6, <1>7, <1>8

Tallied(w) ==
    Occurrences(source, w) =
        Cardinality(Uncounted(w)) + Cardinality(Unmerged(w)) + Copies(w, merged_counts)

CInv ==
    /\ phase \in {"count", "merge"} => \A w \in Distinct(source) : Tallied(w)
    /\ phase = "merge" => at[0] <= max_threads

LEMMA CountingStarts == IInv /\ SplitExact' /\ IInv' /\ StartCount => CInv'
<1> SUFFICES ASSUME IInv, IInv', SplitExact', StartCount PROVE CInv'
  OBVIOUS
<1>1. /\ phase = "scan" /\ phase' = "count"
      /\ at' = [t \in Threads |-> 0]
      /\ UNCHANGED <<input, local_counts, merged_counts>>
  BY DEF StartCount
<1>2. source' = source /\ input \in Seq(Nat)
  BY <1>1, StartsStay, InputFacts DEF IInv
<1>3. InOrder(words', WordStarts(source))
  BY <1>1, <1>2 DEF SplitExact, source
<1>4. Len(words') \in Nat /\ DOMAIN words' = 1..Len(words')
  BY DEF IInv, Typed
<1>5. ASSUME NEW w \in Distinct(source) PROVE Tallied(w)'
  <2>1. Uncounted(w)' = {k \in DOMAIN words' : RunAt(source, words'[k]) = w}
    <3>1. ASSUME NEW k \in DOMAIN words' PROVE CString(buf', words'[k]) = RunAt(source, words'[k])
      <4>1. buf' = Cleaned(source) /\ words'[k] \in 0..Len(input)
        BY <1>1, <1>2, <3>1 DEF IInv, Marked, Typed
      <4>2. /\ Len(input) \in Nat
            /\ source \in [0..Len(input) -> Nat] /\ source[Len(input)] = 0
        BY InputFacts DEF IInv
      <4>3. QED
        BY <4>1, <4>2, WordIsRun
    <3>2. ASSUME NEW k \in DOMAIN words' PROVE \E t \in Team : k - 1 \in Left(t)'
      <4>1. k - 1 \in 0..(Len(words') - 1)
        BY <1>4
      <4>2. PICK t \in Team : k - 1 \in Stretch(t, Len(words'))
        BY <1>4, <4>1, StretchDivides
      <4>3. at'[t] = 0 /\ Iterations(t)' = Stretch(t, Len(words'))
        BY <1>1, TeamIs DEF Iterations
      <4>4. k - 1 \in Left(t)'
        BY <4>1, <4>2, <4>3 DEF Left
      <4>5. QED
        BY <4>4
    <3>3. QED
      BY <1>1, <3>1, <3>2 DEF Uncounted
  <2>2. Cardinality(Uncounted(w)') = Occurrences(source, w) /\ Cardinality(Uncounted(w)') \in Nat
    <3> DEFINE list == words'
               A == {k \in DOMAIN list : RunAt(source, list[k]) = w}
    <3>1. input \in Seq(Nat) /\ InOrder(list, WordStarts(Buffer(input)))
      BY <1>2, <1>3 DEF source
    <3>2. Len(words') \in Nat /\ DOMAIN list = 1..Len(words')
      BY <1>4
    <3>3. Uncounted(w)' = A
      BY <2>1
    <3> HIDE DEF list
    <3>4. IsFiniteSet(A) /\ Cardinality(A) = Occurrences(source, w)
      BY <3>1, <3>2, PlacesCounted DEF source
    <3>5. QED
      BY <3>3, <3>4, FS_CardinalityType
  <2>3. Unmerged(w)' = {} /\ Copies(w, merged_counts') = 0
    <3>1. \A t \in Threads : local_counts'[t] = EmptyBag
      BY <1>1 DEF IInv, BagsSound
    <3>2. merged_counts' = EmptyBag
      BY <1>1 DEF IInv, BagsSound
    <3>3. \A t \in Threads : Copies(w, local_counts'[t]) = 0
      BY <3>1, EmptyIs
    <3>4. QED
      BY <3>2, <3>3, EmptyIs DEF Unmerged
  <2>4. Cardinality(Unmerged(w)') = 0
    BY <2>3, FS_EmptySet
  <2>5. QED
    BY <1>2, <2>2, <2>3, <2>4 DEF Tallied
<1>6. QED
  BY <1>1, <1>2, <1>5 DEF CInv

LEMMA CountingGoesOn == ASSUME IInv, CInv, NEW t \in Team, Count(t) PROVE CInv'
<1>1. PICK i \in Left(t) :
        /\ Iterate(t, i)
        /\ i \in 0..(Len(words) - 1)
        /\ i + 1 \in DOMAIN words
        /\ CString(buf, words[i + 1]) = RunAt(source, words[i + 1])
        /\ local_counts' = [local_counts EXCEPT ![t] = Added(@, RunAt(source, words[i + 1]))]
  BY CountFacts
<1>2. phase = "count" /\ UNCHANGED <<input, buf, phase, words, merged_counts>>
  BY DEF Count
<1>3. /\ t \in Threads /\ at[t] \in Nat /\ at' = [at EXCEPT ![t] = i + 1]
      /\ i \in Iterations(t) /\ at[t] <= i
      /\ \A j \in Iterations(t) : j >= at[t] => i <= j
  BY <1>1, IterateFacts DEF IInv
<1>4. source' = source
  BY <1>2, StartsStay
<1>5. Len(words) \in Nat /\ DOMAIN words = 1..Len(words)
  BY DEF IInv, Typed
<1>6. ASSUME NEW u \in Team
      PROVE  /\ Iterations(u) = Stretch(u, Len(words)) /\ Iterations(u)' = Iterations(u)
             /\ Iterations(u) \subseteq 0..(Len(words) - 1)
             /\ u # t => i \notin Iterations(u)
             /\ u \in Threads /\ at[u] \in Nat
  BY <1>2, <1>3, <1>5, StretchDivides, TeamIs DEF Iterations, IInv, Typed
<1>7. ASSUME NEW u \in Team PROVE Left(u)' = Left(u) \ {i}
  <2>1. Iterations(u)' = Iterations(u) /\ \A j \in Iterations(u) : j \in Int
    BY <1>5, <1>6
  <2>2. CASE u = t
    <3>1. at'[u] = i + 1
      BY <1>3, <1>6, <2>2 DEF IInv, Typed
    <3>2. \A j \in Iterations(u) : j >= i + 1 <=> j >= at[u] /\ j # i
      BY <1>1, <1>3, <1>6, <2>1, <2>2
    <3>3. QED
      BY <2>1, <3>1, <3>2 DEF Left
  <2>3. CASE u # t
    <3>1. at'[u] = at[u]
      BY <1>3, <1>6, <2>3 DEF IInv, Typed
    <3>2. i \notin Left(u)
      BY <1>6, <2>3 DEF Left
    <3>3. QED
      BY <2>1, <3>1, <3>2 DEF Left
  <2>4. QED
    BY <2>2, <2>3
<1> DEFINE v == RunAt(source, words[i + 1])
<1>8. ASSUME NEW w \in Distinct(source) PROVE Tallied(w)'
  <2>1. Tallied(w)
    BY <1>2, <1>8 DEF CInv
  <2>2. Uncounted(w)' = Uncounted(w) \ {i + 1}
    <3>1. ASSUME NEW k \in DOMAIN words
          PROVE  (\E u \in Team : k - 1 \in Left(u)') <=> (\E u \in Team : k - 1 \in Left(u)) /\ k # i + 1
      BY <1>1, <1>5, <1>7
    <3>2. QED
      BY <1>2, <3>1 DEF Uncounted
  <2>3. i + 1 \in Uncounted(w) <=> v = w
    <3>1. (i + 1) - 1 \in Left(t)
      BY <1>1
    <3>2. QED
      BY <1>1, <1>2, <3>1 DEF Uncounted
  <2>4. IsFiniteSet(Uncounted(w)) /\ Cardinality(Uncounted(w)) \in Nat
    <3>1. Uncounted(w) \in SUBSET (1..Len(words)) /\ IsFiniteSet(1..Len(words))
      BY <1>5, FS_Interval DEF Uncounted
    <3>2. QED
      BY <3>1, FS_Subset, FS_CardinalityType
  <2>5. IsFiniteSet(Unmerged(w)) /\ Cardinality(Unmerged(w)) \in Nat /\ Copies(w, merged_counts) \in Nat
    BY UnmergedIs
  <2>6. Cardinality(Uncounted(w)') = Cardinality(Uncounted(w)) - IF v = w THEN 1 ELSE 0
    <3> HIDE DEF v
    <3>1. Cardinality(Uncounted(w) \ {i + 1})
            = IF i + 1 \in Uncounted(w) THEN Cardinality(Uncounted(w)) - 1 ELSE Cardinality(Uncounted(w))
      BY <2>4, FS_RemoveElement
    <3>2. Cardinality(Uncounted(w)')
            = IF v = w THEN Cardinality(Uncounted(w)) - 1 ELSE Cardinality(Uncounted(w))
      BY <2>2, <2>3, <3>1
    <3>3. QED
      BY <2>4, <3>2
  <2>7. /\ Copies(w, local_counts[t]) \in Nat
        /\ Copies(w, local_counts'[t]) = Copies(w, local_counts[t]) + IF v = w THEN 1 ELSE 0
        /\ \A u \in Threads : u # t => local_counts'[u] = local_counts[u]
    <3>1. IsABag(local_counts[t]) /\ DOMAIN local_counts = Threads
      BY <1>3 DEF IInv, BagsSound, BagSound
    <3>2. local_counts'[t] = Added(local_counts[t], v)
      BY <1>1, <1>3, <3>1
    <3> HIDE DEF v
    <3>3. QED
      BY <1>1, <3>1, <3>2, AddedIs
  <2> HIDE DEF v
  <2>8. Cardinality(Unmerged(w)') = Cardinality(Unmerged(w)) + IF v = w THEN 1 ELSE 0
    <3> DEFINE c == Copies(w, local_counts[t])
    <3>1. Unmerged(w) = UNION {{u} \X (1..Copies(w, local_counts[u])) : u \in Threads}
      BY <1>2 DEF Unmerged
    <3>2. Unmerged(w)' = UNION {{u} \X (1..Copies(w, local_counts'[u])) : u \in Threads}
      BY <1>2 DEF Unmerged
    <3>3. CASE v = w
      <4>1. 1..(c + 1) = (1..c) \cup {c + 1} /\ c + 1 \notin 1..c
        BY <2>7
      <4>2. Copies(w, local_counts'[t]) = c + 1
        BY <2>7, <3>3
      <4> HIDE DEF c
      <4>3. Unmerged(w)' = Unmerged(w) \cup {<<t, c + 1>>}
        <5>1. ASSUME NEW x \in Unmerged(w)' PROVE x \in Unmerged(w) \cup {<<t, c + 1>>}
          <6>1. PICK u \in Threads : x \in {u} \X (1..Copies(w, local_counts'[u]))
            BY <3>2
          <6>2. CASE u = t
            BY <1>3, <3>1, <4>1, <4>2, <6>1, <6>2 DEF c
          <6>3. CASE u # t
            BY <2>7, <3>1, <6>1, <6>3
          <6>4. QED
            BY <6>2, <6>3
        <5>2. ASSUME NEW x \in Unmerged(w) PROVE x \in Unmerged(w)'
          <6>1. PICK u \in Threads : x \in {u} \X (1..Copies(w, local_counts[u]))
            BY <3>1
          <6>2. CASE u = t
            BY <1>3, <3>2, <4>1, <4>2, <6>1, <6>2 DEF c
          <6>3. CASE u # t
            BY <2>7, <3>2, <6>1, <6>3
          <6>4. QED
            BY <6>2, <6>3
        <5>3. <<t, c + 1>> \in Unmerged(w)'
          BY <1>3, <3>2, <4>1, <4>2
        <5>4. QED
          BY <5>1, <5>2, <5>3
      <4>4. <<t, c + 1>> \notin Unmerged(w)
        BY <3>1, <4>1 DEF c
      <4>5. QED
        BY <2>5, <3>3, <4>3, <4>4, FS_AddElement
    <3>4. CASE v # w
      <4>1. \A u \in Threads : Copies(w, local_counts'[u]) = Copies(w, local_counts[u])
        BY <2>7, <3>4
      <4>2. Unmerged(w)' = Unmerged(w)
        BY <3>1, <3>2, <4>1
      <4>3. QED
        BY <2>5, <3>4, <4>2
    <3>5. QED
      BY <3>3, <3>4
  <2>9. Cardinality(Uncounted(w)') + Cardinality(Unmerged(w)') + Copies(w, merged_counts)
          = Cardinality(Uncounted(w)) + Cardinality(Unmerged(w)) + Copies(w, merged_counts)
    BY <2>4, <2>5, <2>6, <2>8
  <2>10. QED
    BY <1>2, <1>4, <2>1, <2>9 DEF Tallied
<1>9. QED
  BY <1>2, <1>4, <1>8 DEF CInv

LEMMA MergingStarts == IInv /\ CInv /\ StartMerge => CInv'
<1> SUFFICES ASSUME IInv, CInv, StartMerge PROVE CInv'
  OBVIOUS
<1>1. /\ phase = "count" /\ phase' = "merge" /\ AllArrived
      /\ at' = [t \in Threads |-> 0]
      /\ UNCHANGED <<input, buf, words, local_counts, merged_counts>>
  BY DEF StartMerge
<1>2. source' = source /\ max_threads \in Nat /\ Threads \subseteq Nat /\ 0 \in Threads
  BY <1>1, StartsStay, TeamIs DEF Threads
<1>3. ASSUME NEW w \in Distinct(source) PROVE Tallied(w)'
  <2>1. Uncounted(w) = {} /\ Uncounted(w)' = {}
    BY <1>1 DEF AllArrived, Uncounted
  <2>2. Unmerged(w)' = Unmerged(w)
    <3>1. \A u \in Threads : at'[0] = 0 /\ u >= 0
      BY <1>1, <1>2
    <3>2. QED
      BY <1>1, <3>1 DEF Unmerged
  <2>3. QED
    BY <1>1, <1>2, <2>1, <2>2 DEF CInv, Tallied
<1>4. at'[0] <= max_threads
  BY <1>1, <1>2
<1>5. QED
  BY <1>2, <1>3, <1>4 DEF CInv

LEMMA MergingGoesOn == IInv /\ CInv /\ Merge => CInv'
<1> SUFFICES ASSUME IInv, CInv, Merge PROVE CInv'
  OBVIOUS
<1> DEFINE t == at[0]
<1>1. /\ phase = "merge" /\ t \in Threads
      /\ merged_counts' = Sum(merged_counts, local_counts[t])
      /\ at' = [at EXCEPT ![0] = t + 1]
      /\ UNCHANGED <<input, buf, phase, words, local_counts>>
  BY DEF Merge
<1>2. source' = source /\ max_threads \in Nat /\ Threads = 0..(max_threads - 1) /\ 0 \in Threads
  BY <1>1, StartsStay, TeamIs DEF Threads
<1>3. at'[0] = t + 1
  BY <1>1, <1>2 DEF IInv, Typed
<1>4. ASSUME NEW w \in Distinct(source) PROVE Tallied(w)'
  <2>1. Tallied(w)
    BY <1>1, <1>4 DEF CInv
  <2>2. Uncounted(w) = {} /\ Uncounted(w)' = {}
    BY <1>1 DEF Uncounted
  <2>3. /\ Unmerged(w) = Weighted(Waiting, Locals(w))
        /\ Locals(w) \in [Threads -> Nat]
        /\ Waiting \in SUBSET Threads /\ IsFiniteSet(Waiting)
        /\ Cardinality(Unmerged(w)) \in Nat
        /\ Copies(w, merged_counts) \in Nat
    BY UnmergedIs
  <2>4. t \in Waiting /\ Waiting' = Waiting \ {t}
    BY <1>1, <1>2, <1>3 DEF Waiting
  <2>5. Unmerged(w)' = Weighted(Waiting \ {t}, Locals(w))
    <3>1. \A u \in Waiting \ {t} : Locals(w)[u] = Copies(w, local_counts[u])
      BY DEF Waiting, Locals
    <3>2. Unmerged(w)' = UNION {{u} \X (1..Copies(w, local_counts[u])) : u \in Waiting'}
      BY <1>1 DEF Unmerged, Waiting
    <3> HIDE DEF t
    <3>3. QED
      BY <2>4, <3>1, <3>2 DEF Weighted
  <2>6. Copies(w, merged_counts') = Copies(w, merged_counts) + Locals(w)[t]
    <3>1. IsABag(merged_counts) /\ IsABag(local_counts[t])
      BY <1>1 DEF IInv, BagsSound, BagSound
    <3>2. Locals(w)[t] = Copies(w, local_counts[t])
      BY <1>1 DEF Locals
    <3> HIDE DEF t
    <3>3. QED
      BY <1>1, <3>1, <3>2, SumIs
  <2> HIDE DEF t
  <2>7. /\ Cardinality(Unmerged(w)') = Cardinality(Unmerged(w)) - Locals(w)[t]
        /\ Locals(w)[t] \in Nat /\ Cardinality(Unmerged(w)') \in Nat
    BY <2>3, <2>4, <2>5, WeightRemove DEF Weight
  <2>8. Cardinality(Uncounted(w)) = 0 /\ Cardinality(Uncounted(w)') = 0
    BY <2>2, FS_EmptySet
  <2>9. Cardinality(Unmerged(w)') + Copies(w, merged_counts')
          = Cardinality(Unmerged(w)) + Copies(w, merged_counts)
    BY <2>3, <2>6, <2>7
  <2>10. QED
    BY <1>2, <2>1, <2>3, <2>6, <2>7, <2>8, <2>9 DEF Tallied
<1>5. at'[0] <= max_threads
  BY <1>1, <1>2, <1>3
<1>6. QED
  BY <1>1, <1>2, <1>4, <1>5 DEF CInv

Counting == IInv /\ CInv

LEMMA NextCounts == Team = Threads => (Counting /\ [Next]_vars => Counting')
<1> SUFFICES ASSUME Team = Threads, Counting, [Next]_vars PROVE Counting'
  OBVIOUS
<1>1. IInv /\ CInv /\ IInv'
  BY NextKeeps DEF Counting
<1>2. CInv'
  <2>1. CASE UNCHANGED <<phase, input>> /\ (phase \in {"mark", "scan", "done"} \/ UNCHANGED vars)
    <3>1. CASE UNCHANGED vars
      <4>1. source' = source
        BY <2>1, StartsStay
      <4>2. \A w : Tallied(w)' = Tallied(w)
        <5>1. \A t \in Team : Left(t)' = Left(t)
          BY <3>1 DEF vars, Left, Iterations, Chunk, n
        <5>2. \A w : Uncounted(w)' = Uncounted(w) /\ Unmerged(w)' = Unmerged(w)
          BY <3>1, <5>1 DEF vars, Uncounted, Unmerged
        <5>3. QED
          BY <3>1, <4>1, <5>2 DEF vars, Tallied
      <4>3. QED
        BY <1>1, <3>1, <4>1, <4>2 DEF vars, CInv
    <3>2. CASE phase \in {"mark", "scan", "done"}
      BY <2>1, <3>2 DEF CInv
    <3>3. QED
      BY <2>1, <3>1, <3>2
  <2>2. CASE StartScan \/ Finish
    BY <2>2 DEF StartScan, Finish, CInv
  <2>3. CASE StartCount
    <3>1. SplitExact'
      <4>1. phase' = "count" /\ UNCHANGED input
        BY <2>3 DEF StartCount
      <4>2. /\ input \in Seq(Nat) /\ n \in Nat \ {0} /\ 0..(n - 1) = 0..Len(input)
        BY <1>1, InputFacts DEF IInv
      <4>3. WordStarts(source) \subseteq 0..(n - 1)
        BY <4>2, WordsAre DEF source
      <4>4. StartsScanned = WordStarts(source)
        BY <4>2, <4>3, ChunkDivides DEF StartsScanned
      <4>5. InOrder(words', WordStarts(source))
        BY <1>1, <4>1, <4>4, StartsStay DEF IInv, Scanned
      <4>6. QED
        BY <4>1, <4>5 DEF SplitExact, source
    <3>2. QED
      BY <1>1, <2>3, <3>1, CountingStarts
  <2>4. CASE StartMerge \/ Merge
    BY <1>1, <2>4, MergingStarts, MergingGoesOn
  <2>5. ASSUME NEW t \in Team, ThreadStep(t) PROVE CInv'
    <3>1. CASE Mark(t) \/ Scan(t)
      BY <3>1 DEF Mark, Scan, CInv
    <3>2. CASE Count(t)
      BY <1>1, <3>2, CountingGoesOn
    <3>3. QED
      BY <2>5, <3>1, <3>2 DEF ThreadStep
  <2>6. QED
    BY <2>1, <2>2, <2>3, <2>4, <2>5 DEF Next, MainStep, Terminated, vars
<1>3. QED
  BY <1>1, <1>2 DEF Counting

\* THEOREM.  If the regions get their whole team, no occurrence of a word is lost or
\* counted twice on its way through the local counts to the merged ones, in any
\* interleaving and for any number of threads.
THEOREM NothingIsLost == Team = Threads => (Spec => []NothingLost)
<1> SUFFICES ASSUME Team = Threads PROVE Spec => []NothingLost
  OBVIOUS
<1>1. Init => Counting
  <2>1. Init => CInv
    BY DEF Init, CInv
  <2>2. QED
    BY <2>1, InitHolds DEF Counting
<1>2. Counting /\ [Next]_vars => Counting'
  BY NextCounts
<1>3. Counting => NothingLost
  BY DEF Counting, CInv, NothingLost, Tallied, source
<1>4. QED
  BY <1>1, <1>2, <1>3, PTL DEF Spec

-----------------------------------------------------------------------------
(* The result.                                                             *)

\* Once every local count is merged, the merged counts are the tally.
LEMMA MergedIsTally ==
    ASSUME IInv, CInv, phase = "merge", at[0] \notin Threads
    PROVE  /\ BagToSet(merged_counts) = Distinct(source)
           /\ \A w \in Distinct(source) : merged_counts[w] = Occurrences(source, w)
<1>1. at[0] = max_threads /\ Threads = 0..(max_threads - 1) /\ max_threads \in Nat
  BY TeamIs DEF CInv, IInv, Typed, Threads
<1>2. ASSUME NEW w \in Distinct(source) PROVE Occurrences(source, w) = Copies(w, merged_counts)
  <2>1. Uncounted(w) = {}
    BY DEF Uncounted
  <2>2. Unmerged(w) = {}
    <3>1. \A u \in Threads : ~(u >= at[0])
      BY <1>1
    <3>2. QED
      BY <3>1 DEF Unmerged
  <2>3. Copies(w, merged_counts) \in Nat
    BY UnmergedIs
  <2>4. Tallied(w)
    BY <1>2 DEF CInv
  <2>5. QED
    BY <2>1, <2>2, <2>3, <2>4, FS_EmptySet DEF Tallied
<1>3. ASSUME NEW w \in Distinct(source) PROVE Occurrences(source, w) # 0
  <2>1. input \in Seq(Nat)
    BY InputFacts DEF IInv
  <2>2. IsFiniteSet(WordStarts(source))
    BY <2>1, WordsAre DEF source
  <2>3. PICK i \in WordStarts(source) : RunAt(source, i) = w
    BY DEF Distinct
  <2> DEFINE B == {j \in WordStarts(source) : RunAt(source, j) = w}
  <2>4. i \in B /\ B \in SUBSET WordStarts(source)
    BY <2>3
  <2> HIDE DEF B
  <2>5. IsFiniteSet(B) /\ B # {}
    BY <2>2, <2>4, FS_Subset
  <2>6. Cardinality(B) # 0
    BY <2>5, FS_EmptySet
  <2>7. QED
    BY <2>6 DEF B, Occurrences
<1>4. BagToSet(merged_counts) \subseteq Distinct(source)
  BY DEF IInv, BagsSound, BagSound
<1>5. \A w \in Distinct(source) : BagIn(w, merged_counts)
  BY <1>2, <1>3 DEF Copies
<1>6. QED
  BY <1>2, <1>4, <1>5 DEF Copies, BagIn

\* The tally is copied out completely in whatever order the table is gone through.
LEMMA FinishTallies == IInv /\ CInv /\ Finish => ResultExact'
<1> SUFFICES ASSUME IInv, CInv, Finish PROVE ResultExact'
  OBVIOUS
<1> DEFINE D == Distinct(source)
<1>1. phase = "merge" /\ at[0] \notin Threads /\ UNCHANGED input
  BY DEF Finish
<1>2. BagToSet(merged_counts) = D /\ \A w \in D : merged_counts[w] = Occurrences(source, w)
  BY <1>1, MergedIsTally
<1>3. PICK order \in [1..Cardinality(D) -> D] :
        /\ \A i, j \in DOMAIN order : i # j => order[i] # order[j]
        /\ char_splits' = [k \in DOMAIN order |->
                             [chars |-> order[k], count |-> merged_counts[order[k]]]]
  BY <1>2, FinishFacts
<1>4. IsFiniteSet(D) /\ Cardinality(D) \in Nat
  <2>1. input \in Seq(Nat)
    BY InputFacts DEF IInv
  <2>2. QED
    BY <2>1, WordsAre, FS_CardinalityType DEF source
<1>5. source' = source
  BY <1>1, StartsStay
<1> HIDE DEF D
<1>6. \A w \in D : \E k \in 1..Cardinality(D) : order[k] = w
  <2>1. order \in Injection(1..Cardinality(D), D)
    BY <1>3 DEF Injection, IsInjective
  <2>2. Cardinality(1..Cardinality(D)) = Cardinality(D)
    BY <1>4, FS_Interval
  <2>3. order \in Surjection(1..Cardinality(D), D)
    BY <1>4, <2>1, <2>2, FS_Injection
  <2>4. QED
    BY <2>3 DEF Surjection
<1> DEFINE list == char_splits'
           Entry(w) == [chars |-> w, count |-> Occurrences(source, w)]
<1>7. DOMAIN list = 1..Cardinality(D) /\ \A k \in 1..Cardinality(D) : list[k] = Entry(order[k])
  BY <1>2, <1>3
<1>8. Len(list) = Cardinality(D)
  BY <1>3, <1>4, <1>7
<1> HIDE DEF list, Entry
<1>9. {list[k] : k \in DOMAIN list} = {Entry(w) : w \in D}
  BY <1>3, <1>6, <1>7
<1>10. IsTally(list, source)
  BY <1>8, <1>9 DEF IsTally, D, Entry
<1>11. QED
  BY <1>5, <1>10 DEF ResultExact, source, list

Exact == Counting /\ ResultExact

\* THEOREM.  If the regions get their whole team, parallel_task1 returns the tally of the
\* words of its input: every distinct word once, with its number of occurrences, for
\* every input, every number of threads and every order of the hash table.
THEOREM ResultIsTally == Team = Threads => (Spec => []ResultExact)
<1> SUFFICES ASSUME Team = Threads PROVE Spec => []ResultExact
  OBVIOUS
<1>1. Init => Exact
  <2>1. Init => CInv /\ ResultExact
    BY DEF Init, CInv, ResultExact
  <2>2. QED
    BY <2>1, InitHolds DEF Exact, Counting
<1>2. Exact /\ [Next]_vars => Exact'
  <2> SUFFICES ASSUME Exact, [Next]_vars PROVE Exact'
    OBVIOUS
  <2>1. Counting'
    BY NextCounts DEF Exact
  <2>2. CASE Finish
    BY <2>1, <2>2, FinishTallies DEF Exact, Counting
  <2>3. CASE UNCHANGED <<phase, input, char_splits>>
    BY <2>1, <2>3 DEF Exact, ResultExact
  <2>4. CASE phase' \in {"scan", "count", "merge"}
    BY <2>1, <2>4 DEF Exact, ResultExact
  <2>5. QED
    BY <2>2, <2>3, <2>4 DEF Next, ThreadStep, MainStep, Terminated, vars, Mark, Scan, Count,
                            StartScan, StartCount, StartMerge, Merge
<1>3. Exact => ResultExact
  BY DEF Exact
<1>4. QED
  BY <1>1, <1>2, <1>3, PTL DEF Spec
===============================================================================
