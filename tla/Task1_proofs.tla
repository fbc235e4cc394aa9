----------------------------- MODULE Task1_proofs -----------------------------
(***************************************************************************)
(* The chunked scan of split_words and the chunked hash and equality of    *)
(* task1, for any number of values of a byte, of bytes in a chunk, any     *)
(* separators below the limit and any input.                               *)
(***************************************************************************)
EXTENDS Task1, CountingLemmas

-----------------------------------------------------------------------------
(* Words and lists of words.                                               *)

\* The bytes of b from i to just before j.
Slice(b, i, j) == [k \in 1..(j - i) |-> b[i + k - 1]]

\* The run from i ends just before j.
EndsAt(b, i, Stops, j) ==
    /\ b[j] \in Stops
    /\ \A k \in i..(j - 1) : b[k] \notin Stops
    /\ Until(b, i, Stops) = Slice(b, i, j)

LEMMA UntilIs ==
    ASSUME NEW m \in Nat, NEW b, DOMAIN b = 0..m, NEW Stops, b[m] \in Stops, NEW i \in 0..m
    PROVE  \E last \in i..m : EndsAt(b, i, Stops, last)
<1> DEFINE T == {j \in 0..m : j >= i /\ b[j] \in Stops}
           Is(j) == j >= i /\ b[j] \in Stops /\ \A k \in i..(j - 1) : b[k] \notin Stops
           last == CHOOSE j \in 0..m : Is(j)
<1>1. m \in T /\ T \in SUBSET Nat
  OBVIOUS
<1>2. PICK j \in T : \A k \in T : j <= k
  BY <1>1, Least
<1>3. ASSUME NEW k \in i..(j - 1) PROVE b[k] \notin Stops
  <2>1. k \in 0..m /\ k >= i /\ k < j
    OBVIOUS
  <2>2. QED
    BY <1>2, <2>1
<1>4. j \in 0..m /\ Is(j)
  BY <1>2, <1>3
<1> HIDE DEF T, Is
<1>5. last \in 0..m /\ Is(last)
  BY <1>4
<1>6. Until(b, i, Stops) = Slice(b, i, last)
  BY DEF Until, Is, Slice
<1> HIDE DEF last
<1>7. QED
  BY <1>5, <1>6 DEF Is, EndsAt

LEMMA AppendInOrder ==
    ASSUME NEW s \in Seq(Nat), NEW S, InOrder(s, S), NEW x \in Nat, \A y \in S : y < x
    PROVE  InOrder(Append(s, x), S \cup {x})
<1> DEFINE r == Append(s, x)
<1>1. /\ Len(s) \in Nat /\ DOMAIN s = 1..Len(s)
      /\ DOMAIN r = 1..(Len(s) + 1)
      /\ \A k \in 1..Len(s) : r[k] = s[k] /\ s[k] \in Nat /\ s[k] \in S
      /\ r[Len(s) + 1] = x
  BY DEF InOrder
<1> HIDE DEF r
<1>2. {r[k] : k \in DOMAIN r} = {s[k] : k \in DOMAIN s} \cup {x}
  <2>1. DOMAIN r = DOMAIN s \cup {Len(s) + 1}
    BY <1>1
  <2>2. QED
    BY <1>1, <2>1
<1>3. ASSUME NEW j \in DOMAIN r, NEW k \in DOMAIN r, j < k PROVE r[j] < r[k]
  <2>1. CASE k = Len(s) + 1
    BY <1>1, <1>3, <2>1
  <2>2. CASE k # Len(s) + 1
    BY <1>1, <1>3, <2>2 DEF InOrder
  <2>3. QED
    BY <2>1, <2>2
<1>4. QED
  BY <1>2, <1>3 DEF InOrder, r

-----------------------------------------------------------------------------
(* Numbers and their digits.                                               *)

Bytes == 0..(Base - 1)

LEMMA Widths ==
    /\ Base \in Nat \ {0, 1}
    /\ ChunkBytes \in Nat \ {0}
    /\ limit \in Nat \ {0}
    /\ limit <= Base \div 2
    /\ Base \div 2 \in Nat
    /\ 2 * (Base \div 2) <= Base
  BY WidthAssumption

LEMMA Division ==
    ASSUME NEW b \in Nat \ {0}, NEW q \in Int, NEW r \in 0..(b - 1)
    PROVE  (r + b * q) \div b = q /\ (r + b * q) % b = r
  OBVIOUS

LEMMA DivideTwice ==
    ASSUME NEW b \in Nat \ {0}, NEW c \in Nat \ {0}, NEW x \in Int
    PROVE  x \div (b * c) = (x \div c) \div b
  OBVIOUS

LEMMA Regroup ==
    ASSUME NEW a \in Int, NEW b \in Int, NEW y \in Int, NEW q \in Int
    PROVE  (a * (b * y)) * q = a * (b * (y * q))
  OBVIOUS

LEMMA Distribute ==
    ASSUME NEW a \in Int, NEW y \in Int, NEW z \in Int
    PROVE  a * (y - z) = a * y - a * z
  OBVIOUS

-----------------------------------------------------------------------------
(* The recursive definitions have solutions.                               *)

LEMMA PowerSolution ==
    ASSUME NEW n \in Nat
    PROVE  \E f : f = [k \in 0..n |-> IF k = 0 THEN 1 ELSE Base * f[k - 1]]
<1> DEFINE Solves(f, m) == f = [k \in 0..m |-> IF k = 0 THEN 1 ELSE Base * f[k - 1]]
           S == {m \in Nat : \E f : Solves(f, m)}
<1>1. 0 \in S
  <2>1. Solves([k \in 0..0 |-> 1], 0)
    OBVIOUS
  <2>2. QED
    BY <2>1
<1>2. ASSUME NEW m \in 0..(n - 1), m \in S PROVE m + 1 \in S
  <2>1. PICK f : Solves(f, m)
    BY <1>2
  <2> DEFINE g == [k \in 0..(m + 1) |-> IF k = m + 1 THEN Base * f[m] ELSE f[k]]
  <2>2. ASSUME NEW k \in 0..(m + 1) PROVE g[k] = IF k = 0 THEN 1 ELSE Base * g[k - 1]
    <3>1. CASE k = m + 1
      BY <1>2, <3>1
    <3>2. CASE k \in 0..m
      BY <1>2, <2>1, <3>2
    <3>3. QED
      BY <1>2, <3>1, <3>2
  <2>3. Solves(g, m + 1)
    BY <2>2
  <2> HIDE DEF g, Solves
  <2>4. \E h : Solves(h, m + 1)
    BY <2>3
  <2>5. QED
    BY <1>2, <2>4
<1> HIDE DEF S
<1>3. n \in S
  BY <1>1, <1>2, Climb
<1>4. QED
  BY <1>3 DEF S

LEMMA PowerIs ==
    /\ Power[0] = 1
    /\ \A k \in 0..(ChunkBytes - 1) : Power[k + 1] = Base * Power[k]
    /\ \A k \in 0..ChunkBytes : Power[k] \in Nat \ {0}
<1>1. Power = [k \in 0..ChunkBytes |-> IF k = 0 THEN 1 ELSE Base * Power[k - 1]]
  BY PowerSolution, Widths DEF Power
<1>2. Power[0] = 1 /\ \A k \in 0..(ChunkBytes - 1) : Power[k + 1] = Base * Power[k]
  BY <1>1, Widths
<1> DEFINE S == {k \in Nat : Power[k] \in Nat \ {0}}
<1>3. 0 \in S
  BY <1>2
<1>4. ASSUME NEW k \in 0..(ChunkBytes - 1), k \in S PROVE k + 1 \in S
  <2>1. Base * Power[k] \in Nat \ {0}
    BY <1>4, Widths
  <2>2. QED
    BY <1>2, <2>1
<1> HIDE DEF S
<1>5. \A k \in 0..ChunkBytes : k \in S
  BY <1>3, <1>4, Widths, Climb
<1>6. QED
  BY <1>2, <1>5 DEF S

From(digits, k, f) == f = [m \in 0..k |-> IF m = k THEN 0 ELSE digits[m] + Base * f[m + 1]]

LEMMA NumberSolution ==
    ASSUME NEW n \in Nat, NEW d
    PROVE  \E f : From(d, n, f)
<1> DEFINE Solves(f, i) == f = [m \in (n - i)..n |-> IF m = n THEN 0 ELSE d[m] + Base * f[m + 1]]
           S == {i \in 0..n : \E f : Solves(f, i)}
<1>1. 0 \in S
  <2>1. Solves([m \in n..n |-> 0], 0)
    OBVIOUS
  <2> HIDE DEF Solves
  <2>2. \E f : Solves(f, 0)
    BY <2>1
  <2>3. QED
    BY <2>2
<1>2. ASSUME NEW i \in 0..(n - 1), i \in S PROVE i + 1 \in S
  <2>1. PICK f : Solves(f, i)
    BY <1>2
  <2> DEFINE l == n - (i + 1)
             g == [m \in l..n |-> IF m = l THEN d[m] + Base * f[m + 1] ELSE f[m]]
  <2>2. l \in Nat /\ l < n /\ l..n = {l} \cup ((n - i)..n) /\ l + 1 = n - i
    OBVIOUS
  <2> HIDE DEF l
  <2>3. ASSUME NEW m \in l..n PROVE g[m] = IF m = n THEN 0 ELSE d[m] + Base * g[m + 1]
    <3>1. CASE m = l
      BY <2>2, <3>1
    <3>2. CASE m \in (n - i)..n
      BY <2>1, <2>2, <3>2
    <3>3. QED
      BY <2>2, <3>1, <3>2
  <2>4. Solves(g, i + 1)
    BY <2>3 DEF l
  <2> HIDE DEF g, Solves
  <2>5. \E h : Solves(h, i + 1)
    BY <2>4
  <2>6. QED
    BY <1>2, <2>5
<1> HIDE DEF S
<1>3. n \in S
  BY <1>1, <1>2, Climb
<1>4. QED
  BY <1>3 DEF S, From

LEMMA NumberIs ==
    ASSUME NEW n \in Nat, NEW d \in [0..(n - 1) -> Int]
    PROVE  \E f \in [0..n -> Int] : /\ f[n] = 0
                                    /\ \A m \in 0..(n - 1) : f[m] = d[m] + Base * f[m + 1]
                                    /\ Number(d, n) = f[0]
<1> DEFINE f == CHOOSE g : From(d, n, g)
<1>1. From(d, n, f)
  BY NumberSolution
<1>2. Number(d, n) = f[0]
  BY DEF Number, From
<1> HIDE DEF f
<1>3. f = [m \in 0..n |-> IF m = n THEN 0 ELSE d[m] + Base * f[m + 1]]
  BY <1>1 DEF From
<1>4. f[n] = 0 /\ \A m \in 0..(n - 1) : f[m] = d[m] + Base * f[m + 1]
  BY <1>3
<1> DEFINE S == {i \in 0..n : f[n - i] \in Int}
<1>5. 0 \in S
  BY <1>4
<1>6. ASSUME NEW i \in 0..(n - 1), i \in S PROVE i + 1 \in S
  <2>1. n - (i + 1) \in 0..(n - 1) /\ (n - (i + 1)) + 1 = n - i
    BY <1>6
  <2>2. f[n - (i + 1)] = d[n - (i + 1)] + Base * f[n - i]
    BY <1>4, <2>1
  <2>3. f[n - (i + 1)] \in Int
    BY <1>6, <2>1, <2>2, Widths
  <2>4. QED
    BY <1>6, <2>3
<1> HIDE DEF S
<1>7. \A i \in 0..n : i \in S
  BY <1>5, <1>6, Climb
<1>8. ASSUME NEW m \in 0..n PROVE f[m] \in Int
  <2>1. n - m \in 0..n /\ n - (n - m) = m
    OBVIOUS
  <2>2. QED
    BY <1>7, <2>1 DEF S
<1>9. f \in [0..n -> Int]
  BY <1>3, <1>8
<1>10. QED
  BY <1>2, <1>4, <1>9

-----------------------------------------------------------------------------
(* Dividing by the powers of Base peels the bytes off, lowest first.       *)

\* d and f are the bytes of a number and of its quotients.
LEMMA Peel ==
    ASSUME NEW n \in 0..ChunkBytes, NEW d \in [0..(n - 1) -> Bytes], NEW f \in [0..n -> Int],
           \A m \in 0..(n - 1) : f[m] = d[m] + Base * f[m + 1]
    PROVE  \A k \in 0..n : f[0] \div Power[k] = f[k]
<1> DEFINE S == {k \in 0..n : f[0] \div Power[k] = f[k]}
<1>1. 0 \in S
  <2>1. f[0] \div 1 = f[0]
    OBVIOUS
  <2>2. QED
    BY <2>1, PowerIs, Widths
<1>2. ASSUME NEW k \in 0..(n - 1), k \in S PROVE k + 1 \in S
  <2>1. k \in 0..(ChunkBytes - 1) /\ k \in 0..ChunkBytes /\ k + 1 \in 0..n
    BY <1>2, Widths
  <2>2. Power[k + 1] = Base * Power[k] /\ Power[k] \in Nat \ {0}
    BY <2>1, PowerIs
  <2>3. f[0] \in Int /\ f[k + 1] \in Int /\ d[k] \in 0..(Base - 1)
    BY <2>1 DEF Bytes
  <2>4. f[0] \div Power[k + 1] = (f[0] \div Power[k]) \div Base
    BY <2>2, <2>3, DivideTwice, Widths
  <2>5. f[0] \div Power[k] = d[k] + Base * f[k + 1]
    BY <1>2
  <2>6. (d[k] + Base * f[k + 1]) \div Base = f[k + 1]
    BY <2>3, Division, Widths
  <2>7. QED
    BY <2>1, <2>4, <2>5, <2>6
<1> HIDE DEF S
<1>3. n \in Nat
  BY Widths
<1>4. \A k \in 0..n : k \in S
  BY <1>1, <1>2, <1>3, Climb
<1>5. QED
  BY <1>4 DEF S

\* A higher power is a multiple of Base times a lower one.
LEMMA PowerSplits ==
    ASSUME NEW k \in 0..(ChunkBytes - 1)
    PROVE  \E y \in Nat : Power[ChunkBytes] = Power[k] * (Base * y)
<1> DEFINE n == ChunkBytes - 1 - k
           S == {i \in Nat : \E y \in Nat : Power[k + 1 + i] = Power[k] * (Base * y)}
<1>1. n \in Nat /\ k + 1 + n = ChunkBytes
  BY Widths
<1>2. 0 \in S
  <2>1. k + 1 + 0 = k + 1 /\ k \in 0..ChunkBytes
    BY Widths
  <2>2. Power[k] \in Nat /\ Power[k + 1] = Base * Power[k]
    BY <2>1, PowerIs
  <2>3. Base * Power[k] = Power[k] * (Base * 1)
    BY <2>2, Widths
  <2>4. QED
    BY <2>1, <2>2, <2>3
<1>3. ASSUME NEW i \in 0..(n - 1), i \in S PROVE i + 1 \in S
  <2>1. PICK y \in Nat : Power[k + 1 + i] = Power[k] * (Base * y)
    BY <1>3
  <2>2. k + 1 + i \in 0..(ChunkBytes - 1) /\ k + 1 + (i + 1) = (k + 1 + i) + 1 /\ k \in 0..ChunkBytes
    BY <1>3, Widths
  <2>3. Power[k + 1 + (i + 1)] = Base * (Power[k] * (Base * y)) /\ Power[k] \in Nat
    BY <2>1, <2>2, PowerIs
  <2>4. Base * (Power[k] * (Base * y)) = Power[k] * (Base * (Base * y)) /\ Base * y \in Nat
    BY <2>3, Widths
  <2>5. QED
    BY <1>3, <2>3, <2>4
<1> HIDE DEF S
<1>4. n \in S
  BY <1>1, <1>2, <1>3, Climb
<1>5. QED
  BY <1>1, <1>4 DEF S

\* Reducing a number to the width of a chunk leaves its low bytes.
LEMMA LowBytesStay ==
    ASSUME NEW x \in Int, NEW k \in 0..(ChunkBytes - 1)
    PROVE  ByteOf(x % Power[ChunkBytes], k) = ByteOf(x, k)
<1>1. PICK y \in Nat : Power[ChunkBytes] = Power[k] * (Base * y)
  BY PowerSplits
<1>2. Power[k] \in Nat \ {0} /\ Power[ChunkBytes] \in Nat \ {0}
  BY PowerIs, Widths
<1> DEFINE a == Power[k]
           c == Power[ChunkBytes]
           q == x \div c
           z == x \div a
<1>3. q \in Int /\ x % c = x - c * q
  BY <1>2
<1>4. z \in Int /\ x % a \in Int /\ 0 <= x % a /\ x % a < a /\ x = (x % a) + a * z
  BY <1>2
<1>5. c * q = a * (Base * (y * q))
  <2>1. c * q = (a * (Base * y)) * q
    BY <1>1
  <2>2. (a * (Base * y)) * q = a * (Base * (y * q))
    <3>1. a \in Int /\ Base \in Int /\ y \in Int /\ q \in Int
      BY <1>2, <1>3, Widths
    <3> HIDE DEF a, q
    <3>2. QED
      BY <3>1, Regroup
  <2>3. QED
    BY <2>1, <2>2
<1> HIDE DEF a, c, q, z
<1>6. Base * (y * q) \in Int /\ y * q \in Int
  BY <1>3, Widths
<1>7. x % c = (x % a) + a * (z - Base * (y * q))
  <2>1. a * (z - Base * (y * q)) = a * z - a * (Base * (y * q))
    BY <1>2, <1>4, <1>6, Distribute DEF a
  <2>2. a \in Int /\ a * z \in Int /\ a * (Base * (y * q)) \in Int
    BY <1>2, <1>4, <1>6 DEF a
  <2>3. QED
    BY <1>3, <1>4, <1>5, <2>1, <2>2
<1>8. (x % c) \div a = z - Base * (y * q)
  <2>1. x % a \in 0..(a - 1) /\ z - Base * (y * q) \in Int /\ a \in Nat \ {0}
    BY <1>2, <1>4, <1>6 DEF a
  <2>2. QED
    BY <1>7, <2>1, Division
<1>9. (z - Base * (y * q)) % Base = z % Base
  <2>1. /\ z \div Base \in Int /\ z % Base \in Int /\ 0 <= z % Base /\ z % Base < Base
        /\ z = (z % Base) + Base * (z \div Base)
    BY <1>4, Widths
  <2>2. z % Base \in 0..(Base - 1) /\ (z \div Base) - y * q \in Int /\ Base \in Nat \ {0}
    BY <1>6, <2>1, Widths
  <2> DEFINE w == (z \div Base) - y * q
  <2>3. z - Base * (y * q) = (z % Base) + Base * w
    <3>1. Base * w = Base * (z \div Base) - Base * (y * q)
      BY <1>6, <2>1, Distribute, Widths
    <3>2. Base * (z \div Base) \in Int
      BY <2>1, Widths
    <3> HIDE DEF w
    <3>3. QED
      BY <1>4, <1>6, <2>1, <3>1, <3>2
  <2> HIDE DEF w
  <2>4. w \in Int
    BY <2>2 DEF w
  <2>5. QED
    BY <2>2, <2>3, <2>4, Division
<1>10. QED
  BY <1>8, <1>9 DEF ByteOf, a, c, z

-----------------------------------------------------------------------------
(* hasless_any.                                                            *)

LEMMA NoBorrow ==
    ASSUME NEW bound \in 1..(Base \div 2), NEW b \in Bytes, NEW q \in Int, b >= bound
    PROVE  /\ ((b - bound) + Base * q) % Base = b - bound
           /\ b - bound \in Bytes
           /\ TopBitSet(b - bound) => TopBitSet(b)
<1>1. b - bound \in 0..(Base - 1)
  BY Widths DEF Bytes
<1>2. ((b - bound) + Base * q) % Base = b - bound
  BY <1>1, Division, Widths
<1>3. TopBitSet(b - bound) => TopBitSet(b)
  BY Widths DEF Bytes, TopBitSet
<1>4. QED
  BY <1>1, <1>2, <1>3 DEF Bytes

LEMMA Borrow ==
    ASSUME NEW bound \in 1..(Base \div 2), NEW b \in Bytes, NEW q \in Int, b < bound
    PROVE  TopBitSet(((b - bound) + Base * q) % Base) /\ ~TopBitSet(b)
<1> DEFINE r == b - bound + Base
<1>1. r \in 0..(Base - 1) /\ r \in Int
  BY Widths DEF Bytes
<1>2. (b - bound) + Base * q = r + Base * (q - 1)
  <2>1. Base * (q - 1) = Base * q - Base * 1 /\ Base * q \in Int /\ Base * 1 = Base
    BY Distribute, Widths
  <2>2. b \in Int /\ bound \in Int /\ Base \in Int
    BY Widths DEF Bytes
  <2>3. QED
    BY <2>1, <2>2
<1>3. TopBitSet(r) /\ ~TopBitSet(b)
  BY Widths DEF Bytes, TopBitSet
<1> HIDE DEF r
<1>4. (r + Base * (q - 1)) % Base = r
  <2>1. q - 1 \in Int /\ Base \in Nat \ {0}
    BY Widths
  <2>2. QED
    BY <1>1, <2>1, Division
<1>5. QED
  BY <1>2, <1>3, <1>4

LEMMA Difference ==
    ASSUME NEW bound \in Int, NEW b \in Int, NEW w \in Int, NEW o \in Int
    PROVE  (b + Base * w) - (1 + Base * o) * bound = (b - bound) + Base * (w - o * bound)
<1>1. Base \in Int /\ bound \in Int
  BY Widths
<1>2. (1 + Base * o) * bound = bound + Base * (o * bound)
  BY <1>1
<1>3. o * bound \in Int /\ Base * w \in Int /\ Base * (o * bound) \in Int
  BY <1>1
<1>4. Base * (w - o * bound) = Base * w - Base * (o * bound)
  BY <1>1, <1>3, Distribute
<1>5. QED
  BY <1>1, <1>2, <1>3, <1>4

\* Up to the first byte below the bound, a byte is marked exactly if it is below it.
LEMMA MarksExact ==
    ASSUME NEW bound \in 1..(Base \div 2),
           NEW d \in [0..(ChunkBytes - 1) -> Bytes],
           NEW k \in 0..(ChunkBytes - 1), \A j \in 0..(k - 1) : d[j] >= bound
    PROVE  k \in hasless_any(Number(d, ChunkBytes), bound) <=> d[k] < bound
<1> DEFINE n == ChunkBytes
           one == [j \in 0..(n - 1) |-> 1]
           word == Number(d, n)
<1>1. n \in Nat \ {0} /\ k \in Nat /\ k < n /\ bound \in Nat /\ Base \in Nat \ {0}
  BY Widths
<1>2. \A j \in 0..(n - 1) : d[j] \in Int /\ d[j] \in 0..(Base - 1)
  BY <1>1 DEF Bytes
<1>3. PICK w \in [0..n -> Int] : /\ w[n] = 0
                                 /\ \A m \in 0..(n - 1) : w[m] = d[m] + Base * w[m + 1]
                                 /\ word = w[0]
  <2>1. d \in [0..(n - 1) -> Int]
    BY <1>2
  <2>2. QED
    BY <1>1, <2>1, NumberIs
<1>4. PICK o \in [0..n -> Int] : /\ o[n] = 0
                                 /\ \A m \in 0..(n - 1) : o[m] = 1 + Base * o[m + 1]
                                 /\ ones = o[0]
  <2>1. one \in [0..(n - 1) -> Int] /\ \A m \in 0..(n - 1) : one[m] = 1
    OBVIOUS
  <2>2. ones = Number(one, n)
    BY DEF ones
  <2> HIDE DEF one
  <2>3. \E o \in [0..n -> Int] : /\ o[n] = 0
                                 /\ \A m \in 0..(n - 1) : o[m] = one[m] + Base * o[m + 1]
                                 /\ Number(one, n) = o[0]
    BY <1>1, <2>1, NumberIs
  <2>4. QED
    BY <2>1, <2>2, <2>3
<1> DEFINE x == [m \in 0..n |-> w[m] - o[m] * bound]
<1> HIDE DEF word
<1>5. \A m \in 0..(n - 1) : x[m] = (d[m] - bound) + Base * x[m + 1]
  <2> TAKE m \in 0..(n - 1)
  <2>1. m + 1 \in 0..n /\ m \in 0..n
    BY <1>1
  <2>2. /\ w[m] = d[m] + Base * w[m + 1] /\ o[m] = 1 + Base * o[m + 1]
        /\ w[m + 1] \in Int /\ o[m + 1] \in Int /\ d[m] \in Int
    BY <1>2, <1>3, <1>4, <2>1
  <2>3. x[m] = (d[m] + Base * w[m + 1]) - (1 + Base * o[m + 1]) * bound
    BY <2>1, <2>2
  <2>4. x[m + 1] = w[m + 1] - o[m + 1] * bound
    BY <2>1
  <2> HIDE DEF x
  <2>5. ASSUME NEW b \in Int, NEW v \in Int, NEW c \in Int
        PROVE  (b + Base * v) - (1 + Base * c) * bound = (b - bound) + Base * (v - c * bound)
    BY <1>1, Difference
  <2> DEFINE v == w[m + 1]
             c == o[m + 1]
             b == d[m]
  <2>6. b \in Int /\ v \in Int /\ c \in Int
    BY <2>2
  <2>7. x[m] = (b + Base * v) - (1 + Base * c) * bound /\ x[m + 1] = v - c * bound
    BY <2>3, <2>4
  <2> HIDE DEF b, v, c
  <2>8. x[m] = (b - bound) + Base * x[m + 1]
    BY <2>5, <2>6, <2>7
  <2>9. QED
    BY <2>8 DEF b
<1>6. \A m \in 0..n : x[m] \in Int
  BY <1>1, <1>3, <1>4
<1>7. x[0] = word - ones * bound
  BY <1>1, <1>3, <1>4
<1> HIDE DEF x
<1>8. ByteOf(word, k) = d[k]
  <2>1. word \div Power[k] = w[k]
    <3>1. ChunkBytes \in 0..ChunkBytes /\ k \in 0..ChunkBytes
      BY <1>1
    <3>2. /\ w \in [0..ChunkBytes -> Int]
          /\ \A m \in 0..(ChunkBytes - 1) : w[m] = d[m] + Base * w[m + 1]
          /\ word = w[0]
      BY <1>3
    <3> HIDE DEF n
    <3>3. \A i \in 0..ChunkBytes : w[0] \div Power[i] = w[i]
      BY <3>1, <3>2, Peel
    <3>4. w[0] \div Power[k] = w[k]
      BY <3>1, <3>3
    <3>5. QED
      BY <3>2, <3>4
  <2>2. w[k] = d[k] + Base * w[k + 1] /\ w[k + 1] \in Int
    <3>1. k \in 0..(n - 1) /\ k + 1 \in 0..n
      BY <1>1
    <3>2. QED
      BY <1>3, <3>1
  <2>3. (d[k] + Base * w[k + 1]) % Base = d[k]
    BY <1>1, <1>2, <2>2, Division
  <2>4. QED
    BY <2>1, <2>2, <2>3 DEF ByteOf
<1>9. x[0] \div Power[k] = x[k]
  <2> DEFINE e == [j \in 0..(k - 1) |-> d[j] - bound]
             y == [m \in 0..k |-> x[m]]
  <2>1. e \in [0..(k - 1) -> Bytes]
    BY <1>1, <1>2 DEF Bytes
  <2>2. y \in [0..k -> Int]
    BY <1>1, <1>6
  <2>3. \A m \in 0..(k - 1) : y[m] = e[m] + Base * y[m + 1]
    BY <1>1, <1>5
  <2>4. y[0] = x[0] /\ y[k] = x[k]
    BY <1>1
  <2> HIDE DEF e, y
  <2>5. k \in 0..ChunkBytes /\ k \in 0..k
    BY <1>1
  <2>6. y[0] \div Power[k] = y[k]
    BY <2>1, <2>2, <2>3, <2>5, Peel
  <2>7. QED
    BY <2>4, <2>6
<1>10. ByteOf((word - ones * bound) % Power[n], k) = x[k] % Base
  <2>1. x[0] \in Int
    BY <1>1, <1>6
  <2>2. ByteOf(x[0] % Power[n], k) = ByteOf(x[0], k)
    BY <1>1, <2>1, LowBytesStay
  <2>3. QED
    BY <1>7, <1>9, <2>2 DEF ByteOf
<1>11. x[k] = (d[k] - bound) + Base * x[k + 1] /\ x[k + 1] \in Int /\ d[k] \in 0..(Base - 1)
  BY <1>1, <1>2, <1>5, <1>6
<1>12. k \in hasless_any(word, bound) <=> TopBitSet(x[k] % Base) /\ ~TopBitSet(d[k])
  BY <1>8, <1>10 DEF hasless_any
<1>13. CASE d[k] >= bound
  <2>1. d[k] \in Bytes /\ x[k + 1] \in Int
    BY <1>11 DEF Bytes
  <2>2. x[k] % Base = d[k] - bound /\ (TopBitSet(d[k] - bound) => TopBitSet(d[k]))
    BY <1>11, <1>13, <2>1, NoBorrow
  <2>3. ~(d[k] < bound)
    BY <1>1, <1>11, <1>13
  <2>4. QED
    BY <1>12, <2>2, <2>3 DEF word
<1>14. CASE d[k] < bound
  BY <1>11, <1>12, <1>14, Borrow DEF Bytes, word
<1>15. QED
  <2>1. d[k] \in Int /\ bound \in Int
    BY <1>1, <1>2
  <2>2. QED
    BY <1>13, <1>14, <2>1

\* What the two branches of the chunked scan know of the chunk at the cursor.
LEMMA Chunk ==
    ASSUME buf \in [0..Len(input) -> Bytes], Len(input) \in Nat,
           p \in Nat, p + ChunkBytes <= end
    PROVE  /\ hasless_any(chunk, limit) \subseteq 0..(ChunkBytes - 1)
           /\ hasless_any(chunk, limit) = {} =>
                \A i \in p..(p + ChunkBytes - 1) : buf[i] >= limit
           /\ hasless_any(chunk, limit) # {} =>
                /\ FirstHit(hasless_any(chunk, limit)) \in 0..(ChunkBytes - 1)
                /\ \A i \in p..(p + FirstHit(hasless_any(chunk, limit)) - 1) : buf[i] >= limit
<1> DEFINE d == [j \in 0..(ChunkBytes - 1) |-> buf[p + j]]
           hits == hasless_any(chunk, limit)
<1>1. end = Len(input) + 1 /\ ChunkBytes \in Nat \ {0} /\ limit \in Nat
  BY Widths DEF end
<1>2. d \in [0..(ChunkBytes - 1) -> Bytes]
  BY <1>1
<1>3. \A j \in 0..(ChunkBytes - 1) : d[j] = buf[p + j] /\ d[j] \in Nat
  BY <1>1, <1>2, Widths DEF Bytes
<1>4. chunk = Number(d, ChunkBytes)
  BY DEF chunk, Packed
<1>5. hits \subseteq 0..(ChunkBytes - 1)
  BY DEF hasless_any
<1> HIDE DEF d, hits
<1>6. \A k \in 0..(ChunkBytes - 1) :
         (\A j \in 0..(k - 1) : d[j] >= limit) => (k \in hits <=> d[k] < limit)
  BY <1>1, <1>2, <1>4, Widths, MarksExact DEF hits
\* Below a byte that, with all before it, is not marked, no byte is below the limit.
<1>7. ASSUME NEW n \in 0..ChunkBytes, \A k \in 0..(n - 1) : k \notin hits
      PROVE  \A k \in 0..(n - 1) : d[k] >= limit
  <2> DEFINE Low == {k \in 0..(n - 1) : ~(d[k] >= limit)}
  <2> SUFFICES ASSUME Low # {} PROVE FALSE
    OBVIOUS
  <2>1. Low \in SUBSET Nat
    OBVIOUS
  <2>2. PICK k \in Low : \A j \in Low : k <= j
    BY <2>1, Least
  <2>3. k \in 0..(n - 1) /\ k \in 0..(ChunkBytes - 1) /\ ~(d[k] >= limit)
    BY <1>1
  <2>4. \A j \in 0..(k - 1) : d[j] >= limit
    BY <2>2, <2>3
  <2>5. d[k] < limit
    BY <1>1, <1>3, <2>3
  <2>6. QED
    BY <1>6, <1>7, <2>3, <2>4, <2>5
<1>8. ASSUME NEW n \in 0..ChunkBytes, \A k \in 0..(n - 1) : k \notin hits
      PROVE  \A i \in p..(p + n - 1) : buf[i] >= limit
  <2> TAKE i \in p..(p + n - 1)
  <2>1. i - p \in 0..(n - 1) /\ i - p \in 0..(ChunkBytes - 1) /\ p + (i - p) = i
    BY <1>1
  <2>2. d[i - p] >= limit
    BY <1>7, <1>8, <2>1
  <2>3. QED
    BY <1>3, <2>1, <2>2
<1>9. CASE hits = {}
  <2>1. ChunkBytes \in 0..ChunkBytes
    BY <1>1
  <2>2. \A i \in p..(p + ChunkBytes - 1) : buf[i] >= limit
    BY <1>8, <1>9, <2>1
  <2>3. QED
    BY <1>5, <1>9, <2>2 DEF hits
<1>10. CASE hits # {}
  <2>1. hits \in SUBSET Nat
    BY <1>5
  <2>2. \E k \in hits : \A j \in hits : k <= j
    BY <1>10, <2>1, Least
  <2>3. FirstHit(hits) \in hits /\ \A j \in hits : FirstHit(hits) <= j
    BY <2>2 DEF FirstHit
  <2> DEFINE n == FirstHit(hits)
  <2>4. n \in 0..(ChunkBytes - 1) /\ n \in 0..ChunkBytes /\ n \in Nat
    BY <1>1, <1>5, <2>3
  <2> HIDE DEF n
  <2>5. \A k \in 0..(n - 1) : k \notin hits
    BY <2>3, <2>4 DEF n
  <2>6. \A i \in p..(p + n - 1) : buf[i] >= limit
    BY <1>8, <2>4, <2>5
  <2>7. QED
    BY <1>5, <1>10, <2>4, <2>6 DEF hits, n
<1>11. QED
  BY <1>9, <1>10

-----------------------------------------------------------------------------
(* The scan.                                                               *)

\* From the cursor on the buffer is as it was read, and the open word starts at or
\* before the cursor.
Ahead == \A k \in p..Len(input) : buf[k] = Buffer(input)[k]

IInv == TypeOK /\ NoSeparatorSkipped /\ Ahead

LEMMA BufferIs ==
    ASSUME NEW s \in Inputs
    PROVE  /\ Len(s) \in Nat
           /\ Buffer(s) \in [0..Len(s) -> Bytes]
           /\ Buffer(s)[Len(s)] = 0
<1>1. s \in Seq(Bytes)
  BY InputAssumption DEF Bytes
<1>2. Len(s) \in Nat /\ \A k \in 1..Len(s) : s[k] \in Bytes
  BY <1>1
<1>3. 0 \in Bytes
  BY Widths DEF Bytes
<1>4. \A k \in 0..Len(s) : Buffer(s)[k] \in Bytes
  BY <1>2, <1>3 DEF Buffer
<1>5. QED
  BY <1>2, <1>4 DEF Buffer

LEMMA SeparatorsLow ==
    /\ is_separator(0)
    /\ \A b : is_separator(b) => b \in Nat /\ b < limit
<1>1. limit \in Int /\ 0 \in Separators
  BY SeparatorAssumption, Widths
<1>2. Separators \subseteq 0..(limit - 1)
  BY WidthAssumption
<1>3. ASSUME NEW b \in Separators PROVE b \in Nat /\ b < limit
  <2>1. b \in 0..(limit - 1)
    BY <1>2
  <2>2. QED
    BY <1>1, <2>1
<1>4. QED
  BY <1>1, <1>3 DEF is_separator

LEMMA InitHolds == Init => IInv
<1> SUFFICES ASSUME Init PROVE IInv
  OBVIOUS
<1>1. input \in Inputs /\ buf = Buffer(input) /\ p = 0 /\ words = << >> /\ pc = "between"
  BY DEF Init
<1>2. Len(input) \in Nat /\ buf \in [0..Len(input) -> Bytes]
  BY <1>1, BufferIs
<1>3. TypeOK
  BY <1>1, <1>2 DEF TypeOK, InWord, end, Bytes
<1>4. NoSeparatorSkipped /\ Ahead
  BY <1>1 DEF NoSeparatorSkipped, InWord, Ahead
<1>5. QED
  BY <1>3, <1>4 DEF IInv

\* A step that leaves the buffer alone and moves the cursor over bytes that are no
\* separators, inside an open word.
LEMMA Advance ==
    ASSUME IInv, InWord, UNCHANGED <<input, buf, words>>, pc' \in {"chunks", "bytes"},
           NEW n \in Nat, p' = p + n, p + n <= end,
           \A i \in p..(p + n - 1) : ~is_separator(buf[i])
    PROVE  IInv'
<1>1. /\ input \in Inputs /\ buf \in [0..Len(input) -> Bytes] /\ p \in 0..end /\ p < end
      /\ words \in Seq(0..Len(input)) /\ end = Len(input) + 1 /\ Len(input) \in Nat
  BY BufferIs DEF IInv, TypeOK, Bytes, end
<1>2. p + n < end
  <2>0. p + n \in Int /\ end \in Int
    BY <1>1
  <2> SUFFICES ASSUME p + n = end PROVE FALSE
    BY <2>0
  <2>1. Len(input) \in p..(p + n - 1) /\ Len(input) \in p..Len(input)
    BY <1>1
  <2>2. buf[Len(input)] = 0
    BY <1>1, <2>1, BufferIs DEF IInv, Ahead
  <2>3. QED
    BY <2>1, <2>2, SeparatorsLow
<1>3. TypeOK'
  BY <1>1, <1>2 DEF TypeOK, InWord, Bytes, end
<1>4. NoSeparatorSkipped'
  <2> DEFINE s == words[Len(words)]
  <2>1. \A i \in s..(p - 1) : ~is_separator(Buffer(input)[i])
    BY DEF IInv, NoSeparatorSkipped
  <2>2. \A i \in p..(p + n - 1) : ~is_separator(Buffer(input)[i])
    <3> TAKE i \in p..(p + n - 1)
    <3>1. i \in p..Len(input)
      BY <1>1
    <3>2. buf[i] = Buffer(input)[i]
      BY <3>1 DEF IInv, Ahead
    <3>3. QED
      BY <3>2
  <2>3. \A i \in s..(p + n - 1) : i \in s..(p - 1) \/ i \in p..(p + n - 1)
    BY <1>1
  <2>4. \A i \in s..(p + n - 1) : ~is_separator(Buffer(input)[i])
    BY <2>1, <2>2, <2>3
  <2>5. words' = words /\ input' = input /\ p' = p + n
    OBVIOUS
  <2>6. words'[Len(words')] = s /\ p' - 1 = p + n - 1 /\ Buffer(input') = Buffer(input)
    BY <1>1, <2>5
  <2> HIDE DEF s
  <2>7. \A i \in words'[Len(words')]..(p' - 1) : ~is_separator(Buffer(input')[i])
    BY <2>4, <2>6
  <2>8. QED
    BY <2>7 DEF NoSeparatorSkipped
<1>5. Ahead'
  <2>1. \A k \in (p + n)..Len(input) : k \in p..Len(input)
    BY <1>1
  <2>2. QED
    BY <2>1 DEF IInv, Ahead
<1>6. QED
  BY <1>3, <1>4, <1>5 DEF IInv

LEMMA StepKeeps ==
    ASSUME IInv, [Next]_vars
    PROVE  IInv'
<1>1. /\ input \in Inputs /\ buf \in [0..Len(input) -> Bytes] /\ p \in 0..end
      /\ words \in Seq(0..Len(input)) /\ end = Len(input) + 1 /\ Len(input) \in Nat
      /\ pc \in {"between", "chunks", "bytes", "done"}
  BY BufferIs DEF IInv, TypeOK, Bytes, end
<1>2. ASSUME p' = p + 1, p < end, UNCHANGED <<input, words>>, pc' = "between",
             buf' \in [0..Len(input) -> Bytes],
             \A k \in (p + 1)..Len(input) : buf'[k] = buf[k]
      PROVE  IInv'
  <2>1. TypeOK'
    BY <1>1, <1>2 DEF TypeOK, InWord, Bytes, end
  <2>2. NoSeparatorSkipped'
    BY <1>2 DEF NoSeparatorSkipped, InWord
  <2>3. Ahead'
    <3>1. \A k \in (p + 1)..Len(input) : k \in p..Len(input)
      BY <1>1
    <3>2. input' = input
      BY <1>2
    <3>3. QED
      BY <1>2, <3>1, <3>2 DEF IInv, Ahead
  <2>4. QED
    BY <2>1, <2>2, <2>3 DEF IInv
<1>3. CASE SkipSeparator
  BY <1>1, <1>2, <1>3 DEF SkipSeparator
<1>4. CASE StartWord
  <2>1. /\ p < end /\ words' = Append(words, p) /\ pc' = "chunks"
        /\ input' = input /\ buf' = buf /\ p' = p
    BY <1>4 DEF StartWord
  <2>2. p \in 0..Len(input)
    BY <1>1, <2>1
  <2>3. words' \in Seq(0..Len(input)) /\ words'[Len(words')] = p
    BY <1>1, <2>1, <2>2
  <2>4. TypeOK'
    BY <1>1, <2>1, <2>3 DEF TypeOK, InWord, Bytes, end
  <2>5. NoSeparatorSkipped'
    BY <1>1, <2>1, <2>3 DEF NoSeparatorSkipped
  <2>6. Ahead'
    BY <2>1 DEF IInv, Ahead
  <2>7. QED
    BY <2>4, <2>5, <2>6 DEF IInv
<1>5. CASE SkipChunk
  <2>1. /\ InWord /\ p + ChunkBytes <= end /\ hasless_any(chunk, limit) = {}
        /\ p' = p + ChunkBytes /\ UNCHANGED <<input, buf, words>> /\ pc' = "chunks"
    BY <1>5 DEF SkipChunk, InWord
  <2>2. \A i \in p..(p + ChunkBytes - 1) : buf[i] >= limit
    BY <1>1, <2>1, Chunk
  <2>3. \A i \in p..(p + ChunkBytes - 1) : ~is_separator(buf[i])
    BY <2>2, SeparatorsLow, Widths
  <2>4. QED
    BY <2>1, <2>3, Advance, Widths
<1>6. CASE StopInChunk
  <2> DEFINE n == FirstHit(hasless_any(chunk, limit))
  <2>1. /\ InWord /\ p + ChunkBytes <= end /\ hasless_any(chunk, limit) # {}
        /\ p' = p + n /\ UNCHANGED <<input, buf, words>> /\ pc' = "bytes"
    BY <1>6 DEF StopInChunk, InWord
  <2>2. n \in 0..(ChunkBytes - 1) /\ \A i \in p..(p + n - 1) : buf[i] >= limit
    BY <1>1, <2>1, Chunk
  <2> HIDE DEF n
  <2>3. \A i \in p..(p + n - 1) : ~is_separator(buf[i])
    BY <2>2, SeparatorsLow, Widths
  <2>4. n \in Nat /\ p + n <= end
    BY <1>1, <2>1, <2>2, Widths
  <2>5. QED
    BY <2>1, <2>3, <2>4, Advance
<1>7. CASE NoWholeChunk
  <2>1. /\ InWord /\ p' = p + 0 /\ UNCHANGED <<input, buf, words>> /\ pc' = "bytes"
        /\ p + 0 <= end
    BY <1>1, <1>7 DEF NoWholeChunk, InWord
  <2>2. \A i \in p..(p + 0 - 1) : ~is_separator(buf[i])
    BY <1>1
  <2>3. QED
    BY <2>1, <2>2, Advance
<1>8. CASE SkipByte
  <2>1. /\ InWord /\ p' = p + 1 /\ UNCHANGED <<input, buf, words>> /\ pc' = "bytes"
        /\ p + 1 <= end /\ ~is_separator(buf[p])
    BY <1>1, <1>8 DEF SkipByte, InWord
  <2>2. \A i \in p..(p + 1 - 1) : ~is_separator(buf[i])
    BY <1>1, <2>1
  <2>3. QED
    BY <2>1, <2>2, Advance
<1>9. CASE EndWord
  <2>1. /\ p < end /\ p' = p + 1 /\ UNCHANGED <<input, words>> /\ pc' = "between"
        /\ buf' = [buf EXCEPT ![p] = 0]
    BY <1>9 DEF EndWord, IInv, TypeOK, InWord
  <2>2. 0 \in Bytes
    BY Widths DEF Bytes
  <2>3. buf' \in [0..Len(input) -> Bytes] /\ \A k \in (p + 1)..Len(input) : buf'[k] = buf[k]
    BY <1>1, <2>1, <2>2
  <2>4. QED
    BY <1>2, <2>1, <2>3
<1>10. CASE Return
  BY <1>10 DEF Return, IInv, TypeOK, InWord, NoSeparatorSkipped, Ahead, end
<1>11. CASE Terminated \/ UNCHANGED vars
  BY <1>11 DEF Terminated, vars, IInv, TypeOK, InWord, NoSeparatorSkipped, Ahead, end
<1>12. QED
  BY <1>3, <1>4, <1>5, <1>6, <1>7, <1>8, <1>9, <1>10, <1>11 DEF Next, Step

\* THEOREM.  While a word is open the cursor is in the buffer: neither the chunked scan
\* nor the byte loop runs past the NUL pushed behind the input, and the NUL that ends
\* the word is written inside the buffer.
THEOREM TypeCorrect == Spec => []TypeOK
<1>1. IInv /\ [Next]_vars => IInv'
  BY StepKeeps
<1>2. IInv => TypeOK
  BY DEF IInv
<1>3. QED
  BY <1>1, <1>2, InitHolds, PTL DEF Spec

\* THEOREM.  The subtraction trick skips no separator, whatever bytes a borrow marks: for
\* every number of values of a byte, every chunk length and every input, the open word
\* has none up to the cursor.
THEOREM NoneSkipped == Spec => []NoSeparatorSkipped
<1>1. IInv /\ [Next]_vars => IInv'
  BY StepKeeps
<1>2. IInv => NoSeparatorSkipped
  BY DEF IInv
<1>3. QED
  BY <1>1, <1>2, InitHolds, PTL DEF Spec

-----------------------------------------------------------------------------
(* The words found.                                                        *)

\* The starts of words up to the cursor, the open word's included.
StartsSeen == {i \in WordStarts(Buffer(input)) : i < p \/ (InWord /\ i = p)}

\* Between words the byte before the cursor is a separator.
Apart ==
    /\ ~InWord /\ p > 0 => is_separator(Buffer(input)[p - 1])
    /\ pc = "done" => p = end

\* The words are as they were read, and those before the cursor have their NUL.
Ended ==
    \A i \in 0..Len(input) :
        /\ \/ buf[i] = Buffer(input)[i]
           \/ (is_separator(Buffer(input)[i]) /\ buf[i] = 0)
        /\ i \in 1..(p - 1) /\ is_separator(Buffer(input)[i]) /\ ~is_separator(Buffer(input)[i - 1])
              => buf[i] = 0

WInv == InOrder(words, StartsSeen) /\ Apart /\ Ended

LEMMA SourceFacts ==
    ASSUME IInv
    PROVE  /\ Len(input) \in Nat /\ end = Len(input) + 1 /\ p \in 0..end
           /\ Buffer(input) \in [0..Len(input) -> Nat]
           /\ Buffer(input)[Len(input)] = 0
           /\ buf \in [0..Len(input) -> Nat]
           /\ words \in Seq(Nat)
           /\ WordStarts(Buffer(input)) \subseteq 0..Len(input)
           /\ \A i \in p..Len(input) : buf[i] = Buffer(input)[i]
<1>1. /\ input \in Inputs /\ buf \in [0..Len(input) -> Bytes] /\ p \in 0..end
      /\ words \in Seq(0..Len(input))
  BY DEF IInv, TypeOK, Bytes
<1>2. /\ Len(input) \in Nat /\ Buffer(input) \in [0..Len(input) -> Bytes]
      /\ Buffer(input)[Len(input)] = 0
  BY <1>1, BufferIs
<1>3. Bytes \subseteq Nat /\ 0..Len(input) \subseteq Nat
  BY Widths DEF Bytes
<1>4. words \in Seq(Nat)
  BY <1>1, <1>3
<1>5. QED
  BY <1>1, <1>2, <1>3, <1>4 DEF IInv, Ahead, end, WordStarts

\* The word goes on: nothing starts behind the cursor's old place.
LEMMA WordGoesOn ==
    ASSUME IInv, WInv, InWord, UNCHANGED <<input, buf, words>>, pc' \in {"chunks", "bytes"},
           NEW n \in Nat, p' = p + n, p + n <= end,
           \A i \in p..(p + n - 1) : ~is_separator(buf[i])
    PROVE  WInv'
<1>1. /\ Len(input) \in Nat /\ p \in Nat /\ WordStarts(Buffer(input)) \subseteq 0..Len(input)
      /\ \A i \in p..Len(input) : buf[i] = Buffer(input)[i]
      /\ end = Len(input) + 1
  BY SourceFacts
<1>2. ASSUME NEW i \in p..(p + n - 1) PROVE ~is_separator(Buffer(input)[i])
  BY <1>1, <1>2
<1>3. StartsSeen' = StartsSeen
  <2>1. ASSUME NEW i \in WordStarts(Buffer(input)), i > p PROVE ~(i <= p + n)
    <3>1. CASE i <= p + n
      <4>1. i \in Nat /\ i - 1 \in p..(p + n - 1) /\ i # 0
        BY <1>1, <2>1, <3>1
      <4>2. QED
        BY <1>2, <4>1 DEF WordStarts
    <3>2. QED
      BY <3>1
  <2>2. \A i \in WordStarts(Buffer(input)) : i \in Int
    BY <1>1
  <2>3. InWord' /\ input' = input
    BY DEF InWord
  <2>4. \A i \in WordStarts(Buffer(input)) : (i < p + n \/ i = p + n) <=> (i < p \/ i = p)
    BY <1>1, <2>1, <2>2
  <2>5. QED
    BY <2>3, <2>4 DEF StartsSeen
<1>4. Apart'
  BY DEF Apart, InWord
<1>5. Ended'
  <2>1. ASSUME NEW i \in 0..Len(input), i \in 1..(p + n - 1),
               is_separator(Buffer(input)[i]), ~is_separator(Buffer(input)[i - 1])
        PROVE  buf[i] = 0
    <3>1. ~(i \in p..(p + n - 1))
      BY <1>2, <2>1
    <3>2. i \in 1..(p - 1)
      BY <1>1, <2>1, <3>1
    <3>3. QED
      BY <2>1, <3>2 DEF WInv, Ended
  <2>2. \A i \in 0..Len(input) : buf[i] = Buffer(input)[i] \/ (is_separator(Buffer(input)[i]) /\ buf[i] = 0)
    BY DEF WInv, Ended
  <2>3. input' = input /\ buf' = buf /\ p' - 1 = p + n - 1
    BY <1>1
  <2> DEFINE q == p + n - 1
  <2>4. p' - 1 = q /\ \A i \in 0..Len(input) :
           i \in 1..q /\ is_separator(Buffer(input)[i]) /\ ~is_separator(Buffer(input)[i - 1]) => buf[i] = 0
    BY <2>1, <2>3
  <2> HIDE DEF q
  <2>5. QED
    BY <2>2, <2>3, <2>4 DEF Ended
<1>6. QED
  BY <1>3, <1>4, <1>5 DEF WInv, InOrder

LEMMA WordsKept ==
    ASSUME IInv, WInv, [Next]_vars
    PROVE  WInv'
<1>1. /\ Len(input) \in Nat /\ end = Len(input) + 1 /\ p \in 0..end
      /\ WordStarts(Buffer(input)) \subseteq 0..Len(input)
      /\ Buffer(input) \in [0..Len(input) -> Nat]
      /\ buf \in [0..Len(input) -> Nat] /\ words \in Seq(Nat)
      /\ \A i \in p..Len(input) : buf[i] = Buffer(input)[i]
  BY SourceFacts
<1>2. CASE SkipSeparator
  <2>1. /\ pc = "between" /\ p \in 0..Len(input) /\ is_separator(Buffer(input)[p])
        /\ p' = p + 1 /\ UNCHANGED <<input, buf, words, pc>> /\ ~InWord /\ ~InWord'
    BY <1>1, <1>2 DEF SkipSeparator, InWord
  <2>2. StartsSeen' = StartsSeen
    <3>1. \A i \in WordStarts(Buffer(input)) : i \in Int /\ i # p
      BY <1>1, <2>1 DEF WordStarts
    <3>2. \A i \in WordStarts(Buffer(input)) : i < p + 1 <=> i < p
      BY <1>1, <3>1
    <3>3. QED
      BY <2>1, <3>2 DEF StartsSeen
  <2>3. Apart'
    BY <1>1, <2>1 DEF Apart
  <2>4. Ended'
    <3>1. ASSUME NEW i \in 0..Len(input), i \in 1..p,
                 is_separator(Buffer(input)[i]), ~is_separator(Buffer(input)[i - 1])
          PROVE  buf[i] = 0
      <4>1. i # p
        BY <2>1, <3>1 DEF WInv, Apart
      <4>2. i \in 1..(p - 1)
        BY <1>1, <3>1, <4>1
      <4>3. QED
        BY <3>1, <4>2 DEF WInv, Ended
    <3>2. \A i \in 0..Len(input) : buf[i] = Buffer(input)[i] \/ (is_separator(Buffer(input)[i]) /\ buf[i] = 0)
      BY DEF WInv, Ended
    <3>3. input' = input /\ buf' = buf /\ p' - 1 = p
      BY <1>1, <2>1
    <3>4. QED
      BY <3>1, <3>2, <3>3 DEF Ended
  <2>5. QED
    BY <2>1, <2>2, <2>3, <2>4 DEF WInv
<1>3. CASE StartWord
  <2>1. /\ pc = "between" /\ p \in 0..Len(input) /\ ~is_separator(Buffer(input)[p])
        /\ words' = Append(words, p) /\ pc' = "chunks" /\ UNCHANGED <<input, buf, p>>
        /\ ~InWord /\ InWord'
    BY <1>1, <1>3 DEF StartWord, InWord
  <2>2. p \in WordStarts(Buffer(input))
    BY <1>1, <2>1 DEF WInv, Apart, WordStarts
  <2>3. StartsSeen' = StartsSeen \cup {p} /\ \A i \in StartsSeen : i < p
    BY <2>1, <2>2 DEF StartsSeen
  <2>4. InOrder(words', StartsSeen')
    <3> DEFINE S == StartsSeen
    <3>1. InOrder(words, S) /\ \A i \in S : i < p
      BY <2>3 DEF WInv
    <3>2. p \in Nat /\ words \in Seq(Nat)
      BY <1>1
    <3> HIDE DEF S
    <3>3. InOrder(Append(words, p), S \cup {p})
      BY <3>1, <3>2, AppendInOrder
    <3>4. QED
      BY <2>1, <2>3, <3>3 DEF S
  <2>5. Apart' /\ Ended'
    BY <2>1 DEF WInv, Apart, Ended, InWord
  <2>6. QED
    BY <2>4, <2>5 DEF WInv
<1>4. CASE SkipChunk
  <2>1. /\ InWord /\ p + ChunkBytes <= end /\ hasless_any(chunk, limit) = {}
        /\ p' = p + ChunkBytes /\ UNCHANGED <<input, buf, words>> /\ pc' = "chunks"
    BY <1>4 DEF SkipChunk, InWord
  <2>2. buf \in [0..Len(input) -> Bytes]
    BY DEF IInv, TypeOK, Bytes
  <2>3. \A i \in p..(p + ChunkBytes - 1) : buf[i] >= limit
    BY <1>1, <2>1, <2>2, Chunk
  <2>4. \A i \in p..(p + ChunkBytes - 1) : ~is_separator(buf[i])
    BY <2>3, SeparatorsLow, Widths
  <2>5. QED
    BY <2>1, <2>4, WordGoesOn, Widths
<1>5. CASE StopInChunk
  <2> DEFINE n == FirstHit(hasless_any(chunk, limit))
  <2>1. /\ InWord /\ p + ChunkBytes <= end /\ hasless_any(chunk, limit) # {}
        /\ p' = p + n /\ UNCHANGED <<input, buf, words>> /\ pc' = "bytes"
    BY <1>5 DEF StopInChunk, InWord
  <2>2. buf \in [0..Len(input) -> Bytes]
    BY DEF IInv, TypeOK, Bytes
  <2>3. n \in 0..(ChunkBytes - 1) /\ \A i \in p..(p + n - 1) : buf[i] >= limit
    BY <1>1, <2>1, <2>2, Chunk
  <2> HIDE DEF n
  <2>4. \A i \in p..(p + n - 1) : ~is_separator(buf[i])
    BY <2>3, SeparatorsLow, Widths
  <2>5. n \in Nat /\ p + n <= end
    BY <1>1, <2>1, <2>3, Widths
  <2>6. QED
    BY <2>1, <2>4, <2>5, WordGoesOn
<1>6. CASE NoWholeChunk
  <2>1. /\ InWord /\ p' = p + 0 /\ UNCHANGED <<input, buf, words>> /\ pc' = "bytes"
        /\ p + 0 <= end
    BY <1>1, <1>6 DEF NoWholeChunk, InWord
  <2>2. \A i \in p..(p + 0 - 1) : ~is_separator(buf[i])
    BY <1>1
  <2>3. QED
    BY <2>1, <2>2, WordGoesOn
<1>7. CASE SkipByte
  <2>1. /\ InWord /\ p' = p + 1 /\ UNCHANGED <<input, buf, words>> /\ pc' = "bytes"
        /\ p + 1 <= end /\ ~is_separator(buf[p])
    BY <1>1, <1>7 DEF SkipByte, InWord
  <2>2. \A i \in p..(p + 1 - 1) : ~is_separator(buf[i])
    BY <1>1, <2>1
  <2>3. QED
    BY <2>1, <2>2, WordGoesOn
<1>8. CASE EndWord
  <2>1. /\ InWord /\ ~InWord' /\ p < end /\ p' = p + 1 /\ UNCHANGED <<input, words>>
        /\ pc' = "between" /\ buf' = [buf EXCEPT ![p] = 0] /\ is_separator(buf[p])
    BY <1>8 DEF EndWord, IInv, TypeOK, InWord
  <2>2. p \in 0..Len(input) /\ is_separator(Buffer(input)[p])
    BY <1>1, <2>1
  <2>3. StartsSeen' = StartsSeen
    <3>1. \A i \in WordStarts(Buffer(input)) : i \in Int
      BY <1>1
    <3>2. \A i \in WordStarts(Buffer(input)) : i < p + 1 <=> i < p \/ i = p
      BY <1>1, <3>1
    <3>3. QED
      BY <2>1, <3>2 DEF StartsSeen
  <2>4. Apart'
    BY <1>1, <2>1, <2>2 DEF Apart
  <2>5. Ended'
    <3>1. ASSUME NEW i \in 0..Len(input), i \in 1..p,
                 is_separator(Buffer(input)[i]), ~is_separator(Buffer(input)[i - 1])
          PROVE  buf'[i] = 0
      <4>1. CASE i = p
        BY <1>1, <2>1, <2>2, <4>1
      <4>2. CASE i # p
        <5>1. i \in 1..(p - 1)
          BY <1>1, <3>1, <4>2
        <5>2. buf[i] = 0
          BY <3>1, <5>1 DEF WInv, Ended
        <5>3. QED
          BY <1>1, <2>1, <4>2, <5>2
      <4>3. QED
        BY <4>1, <4>2
    <3>2. ASSUME NEW i \in 0..Len(input)
          PROVE  buf'[i] = Buffer(input)[i] \/ (is_separator(Buffer(input)[i]) /\ buf'[i] = 0)
      <4>1. buf[i] = Buffer(input)[i] \/ (is_separator(Buffer(input)[i]) /\ buf[i] = 0)
        BY DEF WInv, Ended
      <4>2. buf'[i] = IF i = p THEN 0 ELSE buf[i]
        BY <1>1, <2>1
      <4>3. QED
        BY <2>2, <4>1, <4>2
    <3>3. input' = input /\ p' - 1 = p
      BY <1>1, <2>1
    <3>4. QED
      BY <3>1, <3>2, <3>3 DEF Ended
  <2>6. QED
    BY <2>1, <2>3, <2>4, <2>5 DEF WInv
<1>9. CASE Return
  <2>1. /\ ~InWord /\ ~InWord' /\ UNCHANGED <<input, buf, p, words>> /\ p = end
    BY <1>1, <1>9 DEF Return, InWord
  <2>2. end' = end
    BY <2>1 DEF end
  <2>3. QED
    BY <2>1, <2>2 DEF WInv, StartsSeen, Apart, Ended
<1>10. CASE Terminated \/ UNCHANGED vars
  BY <1>10 DEF Terminated, vars, WInv, StartsSeen, Apart, Ended, InWord, end
<1>11. QED
  BY <1>2, <1>3, <1>4, <1>5, <1>6, <1>7, <1>8, <1>9, <1>10 DEF Next, Step

LEMMA InitWords == Init => WInv
<1> SUFFICES ASSUME Init PROVE WInv
  OBVIOUS
<1>1. input \in Inputs /\ buf = Buffer(input) /\ p = 0 /\ words = << >> /\ pc = "between"
  BY DEF Init
<1>2. Len(input) \in Nat /\ WordStarts(Buffer(input)) \subseteq 0..Len(input)
  <2>1. Len(input) \in Nat /\ DOMAIN Buffer(input) = 0..Len(input)
    BY <1>1, BufferIs
  <2>2. QED
    BY <2>1 DEF WordStarts
<1>3. StartsSeen = {}
  <2>1. \A i \in WordStarts(Buffer(input)) : ~(i < 0)
    BY <1>2
  <2>2. QED
    BY <1>1, <2>1 DEF StartsSeen, InWord
<1>4. InOrder(words, StartsSeen)
  BY <1>1, <1>3 DEF InOrder
<1>5. Apart /\ Ended
  BY <1>1 DEF Apart, Ended, InWord
<1>6. QED
  BY <1>4, <1>5 DEF WInv

\* A word that has its NUL denotes the run it starts.
LEMMA WordDenotes ==
    ASSUME IInv, WInv, p = end, NEW w \in WordStarts(Buffer(input))
    PROVE  CString(buf, w) = RunAt(Buffer(input), w)
<1> DEFINE b == Buffer(input)
           c == buf
           m == Len(input)
           Nul == {0}
<1>1. /\ m \in Nat /\ b \in [0..m -> Nat] /\ b[m] = 0 /\ c \in [0..m -> Nat]
      /\ w \in 0..m /\ b[w] \notin Separators /\ end = m + 1
  BY SourceFacts DEF WordStarts, is_separator
<1>2. /\ \A i \in 0..m : b[i] \notin Separators => c[i] = b[i]
      /\ \A i \in 1..m : b[i] \in Separators /\ b[i - 1] \notin Separators => c[i] = 0
      /\ c[m] = 0
  <2>1. p - 1 = m
    BY <1>1
  <2>2. QED
    BY <1>1, <2>1 DEF WInv, Ended, is_separator
<1> HIDE DEF b, c, m
<1>3. DOMAIN b = 0..m /\ b[m] \in Separators /\ DOMAIN c = 0..m /\ 0 \in Separators
  BY <1>1, SeparatorAssumption
<1>4. PICK y \in w..m : EndsAt(b, w, Separators, y)
  BY <1>1, <1>3, UntilIs
<1>5. /\ b[y] \in Separators
      /\ \A k \in w..(y - 1) : b[k] \notin Separators
      /\ Until(b, w, Separators) = Slice(b, w, y)
  BY <1>4 DEF EndsAt
<1>6. y > w /\ y \in 1..m /\ y - 1 \in w..(y - 1)
  BY <1>1, <1>5
<1>7. /\ c[y] = 0
      /\ \A k \in w..(y - 1) : c[k] = b[k] /\ c[k] # 0
  <2>1. c[y] = 0
    BY <1>2, <1>5, <1>6
  <2>2. ASSUME NEW k \in w..(y - 1) PROVE c[k] = b[k] /\ c[k] # 0
    <3>1. k \in 0..m /\ b[k] \notin Separators
      BY <1>1, <1>5, <1>6
    <3>2. QED
      BY <1>2, <1>3, <3>1
  <2>3. QED
    BY <2>1, <2>2
<1>8. c[y] \in Nul /\ \A j \in 0..m : j >= w /\ c[j] \in Nul /\ (\A k \in w..(j - 1) : c[k] \notin Nul) => j = y
  <2>1. ASSUME NEW j \in 0..m, j >= w, c[j] \in Nul, \A k \in w..(j - 1) : c[k] \notin Nul PROVE j = y
    <3>1. ~(j < y)
      <4>1. ASSUME j < y PROVE FALSE
        <5>1. j \in w..(y - 1)
          BY <1>1, <1>6, <2>1, <4>1
        <5>2. QED
          BY <1>7, <2>1, <5>1
      <4>2. QED
        BY <4>1
    <3>2. ~(y < j)
      <4>1. ASSUME y < j PROVE FALSE
        <5>1. y \in w..(j - 1)
          BY <1>1, <1>6, <2>1, <4>1
        <5>2. QED
          BY <1>7, <2>1, <5>1
      <4>2. QED
        BY <4>1
    <3>3. QED
      BY <1>6, <2>1, <3>1, <3>2
  <2>2. QED
    BY <1>7, <2>1
<1> HIDE DEF Nul
<1>9. 0..m = DOMAIN c /\ m \in 0..m /\ w \in 0..m
  BY <1>1, <1>3
<1>10. Until(c, w, Nul) = Slice(c, w, y)
  <2>1. PICK x \in w..m : EndsAt(c, w, Nul, x)
    <3>1. c[m] \in Nul
      BY <1>2 DEF Nul
    <3>2. QED
      BY <1>1, <1>3, <3>1, UntilIs
  <2>2. c[x] \in Nul /\ (\A k \in w..(x - 1) : c[k] \notin Nul) /\ Until(c, w, Nul) = Slice(c, w, x)
    BY <2>1 DEF EndsAt
  <2>3. x \in 0..m /\ x >= w
    BY <1>1
  <2>4. x = y
    BY <1>8, <2>2, <2>3
  <2>5. QED
    BY <2>2, <2>4
<1>11. Slice(c, w, y) = Slice(b, w, y)
  <2>1. ASSUME NEW k \in 1..(y - w) PROVE c[w + k - 1] = b[w + k - 1]
    <3>1. w + k - 1 \in w..(y - 1)
      BY <1>1, <1>6
    <3>2. QED
      BY <1>7, <3>1
  <2>2. QED
    BY <2>1 DEF Slice
<1>12. QED
  BY <1>5, <1>10, <1>11 DEF CString, RunAt, b, c, Nul

LEMMA WordsFoundAll == IInv /\ WInv => WordsExact
<1> SUFFICES ASSUME IInv, WInv, pc = "done" PROVE WordsExact
  BY DEF WordsExact
<1>1. p = end /\ ~InWord
  BY DEF WInv, Apart, InWord
<1>2. Len(input) \in Nat /\ end = Len(input) + 1 /\ WordStarts(Buffer(input)) \subseteq 0..Len(input)
  BY SourceFacts
<1>3. StartsSeen = WordStarts(Buffer(input))
  <2>1. \A i \in WordStarts(Buffer(input)) : i < p
    BY <1>1, <1>2
  <2>2. QED
    BY <2>1 DEF StartsSeen
<1>4. InOrder(words, WordStarts(Buffer(input)))
  BY <1>3 DEF WInv
<1>5. \A k \in DOMAIN words : words[k] \in WordStarts(Buffer(input))
  BY <1>4 DEF InOrder
<1>6. \A k \in DOMAIN words : CString(buf, words[k]) = RunAt(Buffer(input), words[k])
  BY <1>1, <1>5, WordDenotes
<1>7. QED
  BY <1>4, <1>6 DEF WordsExact

\* THEOREM.  For every input, chunk length and number of values of a byte, the words
\* returned are the maximal runs of the input in order, and each is a C string of its
\* own in the buffer, whatever of the buffer the NULs have overwritten.
THEOREM WordsAreRuns == Spec => []WordsExact
<1>1. IInv /\ WInv /\ [Next]_vars => IInv' /\ WInv'
  BY StepKeeps, WordsKept
<1>2. IInv /\ WInv => WordsExact
  BY WordsFoundAll
<1>3. Init => IInv /\ WInv
  BY InitHolds, InitWords
<1>4. QED
  BY <1>1, <1>2, <1>3, PTL DEF Spec
-----------------------------------------------------------------------------
(* Chunks and parts of them.                                               *)

\* The bytes of a number are its digits.
LEMMA NumberBytes ==
    ASSUME NEW n \in 0..ChunkBytes, NEW d \in [0..(n - 1) -> Bytes]
    PROVE  \A k \in 0..(n - 1) : ByteOf(Number(d, n), k) = d[k]
<1>1. n \in Nat /\ \A k \in 0..(n - 1) : d[k] \in Int /\ d[k] \in 0..(Base - 1)
  BY Widths DEF Bytes
<1>2. PICK f \in [0..n -> Int] : /\ f[n] = 0
                                 /\ \A m \in 0..(n - 1) : f[m] = d[m] + Base * f[m + 1]
                                 /\ Number(d, n) = f[0]
  <2>1. d \in [0..(n - 1) -> Int]
    BY <1>1
  <2>2. QED
    BY <1>1, <2>1, NumberIs
<1>3. \A k \in 0..n : f[0] \div Power[k] = f[k]
  <2>1. /\ n \in 0..ChunkBytes /\ d \in [0..(n - 1) -> Bytes] /\ f \in [0..n -> Int]
        /\ \A m \in 0..(n - 1) : f[m] = d[m] + Base * f[m + 1]
    BY <1>2
  <2>2. QED
    BY ONLY <2>1, Peel
<1> TAKE k \in 0..(n - 1)
<1>4. k \in 0..n /\ k + 1 \in 0..n
  BY <1>1
<1>5. f[k] = d[k] + Base * f[k + 1] /\ f[k + 1] \in Int
  BY <1>2, <1>4
<1>6. (d[k] + Base * f[k + 1]) % Base = d[k]
  <2>1. d[k] \in 0..(Base - 1) /\ Base \in Nat \ {0}
    BY <1>1, Widths
  <2>2. QED
    BY <1>5, <2>1, Division
<1>7. QED
  BY <1>2, <1>3, <1>4, <1>5, <1>6 DEF ByteOf

\* The remainder by a power of Base is the number of the low bytes.
LEMMA NumberLow ==
    ASSUME NEW k \in 0..ChunkBytes, NEW n \in 0..k, NEW d \in [0..(k - 1) -> Bytes],
           NEW e \in [0..(n - 1) -> Bytes], \A j \in 0..(n - 1) : e[j] = d[j]
    PROVE  Number(d, k) % Power[n] = Number(e, n)
<1>1. /\ k \in Nat /\ n \in Nat /\ n <= k /\ n \in 0..ChunkBytes
      /\ \A j \in 0..(k - 1) : d[j] \in Int
      /\ \A j \in 0..(n - 1) : e[j] \in Int
  BY Widths DEF Bytes
<1>2. PICK f \in [0..k -> Int] : /\ f[k] = 0
                                 /\ \A m \in 0..(k - 1) : f[m] = d[m] + Base * f[m + 1]
                                 /\ Number(d, k) = f[0]
  <2>1. d \in [0..(k - 1) -> Int]
    BY <1>1
  <2>2. QED
    BY <1>1, <2>1, NumberIs
<1>3. PICK g \in [0..n -> Int] : /\ g[n] = 0
                                 /\ \A m \in 0..(n - 1) : g[m] = e[m] + Base * g[m + 1]
                                 /\ Number(e, n) = g[0]
  <2>1. e \in [0..(n - 1) -> Int]
    BY <1>1
  <2>2. QED
    BY <1>1, <2>1, NumberIs
<1>4. f[0] \div Power[n] = f[n]
  <2>1. \A i \in 0..k : f[0] \div Power[i] = f[i]
    <3>1. /\ k \in 0..ChunkBytes /\ d \in [0..(k - 1) -> Bytes] /\ f \in [0..k -> Int]
          /\ \A m \in 0..(k - 1) : f[m] = d[m] + Base * f[m + 1]
      BY <1>2
    <3>2. QED
      BY ONLY <3>1, Peel
  <2>2. QED
    BY <1>1, <2>1
<1>5. /\ Power[n] \in Nat \ {0} /\ f[0] \in Int /\ g[0] \in Int /\ f[n] \in Int
      /\ Power[0] = 1
  <2>1. 0 \in 0..k /\ 0 \in 0..n /\ n \in 0..k
    BY <1>1
  <2>2. QED
    BY <1>1, <1>2, <1>3, <2>1, PowerIs
<1> DEFINE S == {m \in 0..n : f[0] - g[0] = Power[m] * (f[m] - g[m])}
<1>6. 0 \in S
  <2>1. 0 \in 0..n
    BY <1>1
  <2>2. Power[0] * (f[0] - g[0]) = f[0] - g[0]
    BY <1>5
  <2>3. QED
    BY <2>1, <2>2
<1>7. ASSUME NEW m \in 0..(n - 1), m \in S PROVE m + 1 \in S
  <2>1. m \in 0..(k - 1) /\ m + 1 \in 0..n /\ m + 1 \in 0..k /\ m \in 0..(ChunkBytes - 1) /\ m \in 0..ChunkBytes
    BY <1>1, Widths
  <2> DEFINE x == f[m + 1]
             y == g[m + 1]
             a == Power[m]
             b == d[m]
  <2>2. x \in Int /\ y \in Int /\ a \in Int /\ b \in Int /\ Base \in Int
    <3>1. a \in Int /\ Base \in Int
      <4>1. Power[m] \in Nat \ {0}
        BY <2>1, PowerIs
      <4>2. QED
        BY <4>1, Widths
    <3>2. x \in Int /\ y \in Int /\ b \in Int
      BY <1>1, <1>2, <1>3, <2>1
    <3>3. QED
      BY <3>1, <3>2
  <2>3. f[m] = b + Base * x /\ g[m] = b + Base * y /\ Power[m + 1] = Base * a
    BY <1>2, <1>3, <2>1, PowerIs
  <2>4. f[0] - g[0] = a * (f[m] - g[m])
    BY <1>7
  <2> HIDE DEF x, y, a, b
  <2>5. f[m] - g[m] = Base * (x - y)
    <3>1. Base * (x - y) = Base * x - Base * y /\ Base * x \in Int /\ Base * y \in Int
      BY <2>2, Distribute
    <3>2. QED
      BY <2>2, <2>3, <3>1
  <2>6. a * (Base * (x - y)) = (Base * a) * (x - y)
    <3>1. x - y \in Int
      BY <2>2
    <3> DEFINE z == x - y
    <3> HIDE DEF z
    <3>2. a * (Base * z) = (Base * a) * z
      BY <2>2, <3>1 DEF z
    <3>3. QED
      BY <3>2 DEF z
  <2>7. f[0] - g[0] = Power[m + 1] * (f[m + 1] - g[m + 1])
    BY <2>3, <2>4, <2>5, <2>6 DEF x, y
  <2>8. QED
    BY <2>1, <2>7
<1> HIDE DEF S
<1>8. n \in S
  <2>1. n \in Nat
    BY <1>1
  <2>2. \A m \in 0..n : m \in S
    BY ONLY <1>6, <1>7, <2>1, Climb
  <2>3. QED
    BY <1>1, <2>2
<1>9. f[0] - g[0] = Power[n] * f[n]
  <2>1. f[0] - g[0] = Power[n] * (f[n] - g[n]) /\ g[n] = 0
    BY <1>3, <1>8 DEF S
  <2>2. f[n] - 0 = f[n]
    BY <1>5
  <2>3. QED
    BY <2>1, <2>2
<1>10. f[0] % Power[n] = g[0]
  <2> DEFINE c == Power[n]
             x == f[0]
             y == g[0]
             q == f[n]
  <2>1. c \in Nat \ {0} /\ x \in Int /\ y \in Int /\ q \in Int /\ x \div c = q /\ x - y = c * q
    BY <1>4, <1>5, <1>9
  <2> HIDE DEF c, x, y, q
  <2>2. x = c * (x \div c) + (x % c)
    BY <2>1
  <2>3. c * q \in Int /\ x % c \in Int
    BY <2>1
  <2> DEFINE r == x % c
             e1 == c * q
  <2>4. x \in Int /\ y \in Int /\ e1 \in Int /\ r \in Int /\ x = e1 + r /\ x - y = e1
    BY <2>1, <2>2, <2>3
  <2> HIDE DEF r, e1
  <2>6. r = y
    BY <2>4
  <2>5. QED
    BY <2>6 DEF c, x, y, r
<1>11. QED
  BY <1>2, <1>3, <1>10

\* The bytes from offset i on.
BytesFrom(i, n) == [j \in 0..(n - 1) |-> buf[i + j]]

LEMMA PackedTyped ==
    ASSUME buf \in [0..Len(input) -> Bytes], Len(input) \in Nat,
           NEW i \in Nat, NEW n \in Nat, i + n <= Len(input) + 1
    PROVE  /\ BytesFrom(i, n) \in [0..(n - 1) -> Bytes]
           /\ \A j \in 0..(n - 1) : BytesFrom(i, n)[j] = buf[i + j]
           /\ Packed(i, n) = Number(BytesFrom(i, n), n)
<1>1. \A j \in 0..(n - 1) : i + j \in 0..Len(input)
  OBVIOUS
<1>2. QED
  BY <1>1 DEF BytesFrom, Packed

\* The mask leaves the number of the bytes it covers.
LEMMA PackedLow ==
    ASSUME buf \in [0..Len(input) -> Bytes], Len(input) \in Nat,
           NEW i \in Nat, NEW k \in 0..ChunkBytes, NEW n \in 0..k, i + k <= Len(input) + 1
    PROVE  MaskedHash(Packed(i, k), n) = Packed(i, n)
<1>1. k \in Nat /\ n \in Nat /\ i + n <= Len(input) + 1
  BY Widths
<1> DEFINE d == BytesFrom(i, k)
           e == BytesFrom(i, n)
<1>2. /\ d \in [0..(k - 1) -> Bytes] /\ Packed(i, k) = Number(d, k)
      /\ e \in [0..(n - 1) -> Bytes] /\ Packed(i, n) = Number(e, n)
      /\ \A j \in 0..(k - 1) : d[j] = buf[i + j]
      /\ \A j \in 0..(n - 1) : e[j] = buf[i + j]
  BY <1>1, PackedTyped
<1>3. \A j \in 0..(n - 1) : e[j] = d[j]
  BY <1>1, <1>2
<1> HIDE DEF d, e
<1>4. Number(d, k) % Power[n] = Number(e, n)
  BY <1>2, <1>3, NumberLow
<1>5. QED
  BY <1>2, <1>4 DEF MaskedHash

LEMMA PackedEqual ==
    ASSUME buf \in [0..Len(input) -> Bytes], Len(input) \in Nat, NEW n \in 0..ChunkBytes,
           NEW a \in Nat, a + n <= Len(input) + 1, NEW b \in Nat, b + n <= Len(input) + 1
    PROVE  Packed(a, n) = Packed(b, n) <=> \A j \in 0..(n - 1) : buf[a + j] = buf[b + j]
<1> DEFINE d == BytesFrom(a, n)
           e == BytesFrom(b, n)
<1>1. n \in Nat
  BY Widths
<1>2. /\ d \in [0..(n - 1) -> Bytes] /\ Packed(a, n) = Number(d, n)
      /\ e \in [0..(n - 1) -> Bytes] /\ Packed(b, n) = Number(e, n)
      /\ \A j \in 0..(n - 1) : d[j] = buf[a + j]
      /\ \A j \in 0..(n - 1) : e[j] = buf[b + j]
  BY <1>1, PackedTyped
<1> HIDE DEF d, e
<1>3. ASSUME \A j \in 0..(n - 1) : buf[a + j] = buf[b + j] PROVE Packed(a, n) = Packed(b, n)
  <2>1. \A j \in 0..(n - 1) : d[j] = e[j]
    BY <1>2, <1>3
  <2>2. d = e
    BY <1>2, <2>1
  <2>3. QED
    BY <1>2, <2>2
<1>4. ASSUME Packed(a, n) = Packed(b, n), NEW j \in 0..(n - 1) PROVE buf[a + j] = buf[b + j]
  <2>1. ByteOf(Number(d, n), j) = d[j] /\ ByteOf(Number(e, n), j) = e[j]
    BY <1>2, NumberBytes
  <2>2. QED
    BY <1>2, <1>4, <2>1
<1>5. QED
  BY <1>3, <1>4

\* haszero on two chunks: the lowest mark of either is the first NUL.
FirstNul(a, b, z) ==
    /\ z = {} => \A j \in 0..(ChunkBytes - 1) : buf[a + j] # 0 /\ buf[b + j] # 0
    /\ z # {} => /\ FirstHit(z) \in 0..(ChunkBytes - 1)
                 /\ \A j \in 0..(FirstHit(z) - 1) : buf[a + j] # 0 /\ buf[b + j] # 0
                 /\ buf[a + FirstHit(z)] = 0 \/ buf[b + FirstHit(z)] = 0

LEMMA ZeroMarks ==
    ASSUME buf \in [0..Len(input) -> Bytes], Len(input) \in Nat,
           NEW a \in Nat, a + ChunkBytes <= Len(input) + 1,
           NEW b \in Nat, b + ChunkBytes <= Len(input) + 1,
           NEW z, z = haszero(Packed(a, ChunkBytes)) \cup haszero(Packed(b, ChunkBytes))
    PROVE  FirstNul(a, b, z)
<1> DEFINE n == ChunkBytes
           d == BytesFrom(a, n)
           e == BytesFrom(b, n)
           y == haszero(Packed(a, n))
           x == haszero(Packed(b, n))
<1>1. n \in Nat \ {0} /\ 1 \in 1..(Base \div 2) /\ n \in Nat
  BY Widths
<1>2. /\ d \in [0..(n - 1) -> Bytes] /\ Packed(a, n) = Number(d, n)
      /\ e \in [0..(n - 1) -> Bytes] /\ Packed(b, n) = Number(e, n)
      /\ \A j \in 0..(n - 1) : d[j] = buf[a + j]
      /\ \A j \in 0..(n - 1) : e[j] = buf[b + j]
  BY <1>1, PackedTyped
<1> HIDE DEF d, e
<1>3. /\ y \subseteq 0..(n - 1) /\ x \subseteq 0..(n - 1) /\ z = y \cup x
  BY DEF haszero, hasless_any
<1>4. \A j \in 0..(n - 1) : d[j] \in Nat /\ e[j] \in Nat
  BY <1>2, Widths DEF Bytes
<1>5. ASSUME NEW k \in 0..(n - 1), \A j \in 0..(k - 1) : d[j] # 0
      PROVE  k \in y <=> d[k] = 0
  <2>1. \A j \in 0..(k - 1) : d[j] >= 1
    BY <1>1, <1>4, <1>5
  <2>2. k \in hasless_any(Number(d, ChunkBytes), 1) <=> d[k] < 1
    BY <1>1, <1>2, <2>1, MarksExact
  <2>3. QED
    BY <1>2, <1>4, <2>2 DEF haszero
<1>6. ASSUME NEW k \in 0..(n - 1), \A j \in 0..(k - 1) : e[j] # 0
      PROVE  k \in x <=> e[k] = 0
  <2>1. \A j \in 0..(k - 1) : e[j] >= 1
    BY <1>1, <1>4, <1>6
  <2>2. k \in hasless_any(Number(e, ChunkBytes), 1) <=> e[k] < 1
    BY <1>1, <1>2, <2>1, MarksExact
  <2>3. QED
    BY <1>2, <1>4, <2>2 DEF haszero
<1> HIDE DEF y, x
\* Below a byte that, with all before it, is not marked, there is no NUL.
<1>7. ASSUME NEW m \in 0..n, \A k \in 0..(m - 1) : k \notin z
      PROVE  \A k \in 0..(m - 1) : d[k] # 0 /\ e[k] # 0
  <2> DEFINE Low == {k \in 0..(m - 1) : d[k] = 0 \/ e[k] = 0}
  <2> SUFFICES ASSUME Low # {} PROVE FALSE
    OBVIOUS
  <2>1. Low \in SUBSET Nat
    OBVIOUS
  <2>2. PICK k \in Low : \A j \in Low : k <= j
    BY <2>1, Least
  <2>3. k \in 0..(m - 1) /\ k \in 0..(n - 1) /\ (d[k] = 0 \/ e[k] = 0)
    BY <1>1
  <2>4. \A j \in 0..(k - 1) : d[j] # 0 /\ e[j] # 0
    BY <2>2, <2>3
  <2>5. k \in y \/ k \in x
    BY <1>5, <1>6, <2>3, <2>4
  <2>6. QED
    BY <1>3, <1>7, <2>3, <2>5
<1>8. CASE z = {}
  <2>1. \A k \in 0..(n - 1) : d[k] # 0 /\ e[k] # 0
    <3>1. n \in 0..n
      BY <1>1
    <3>2. QED
      BY <1>7, <1>8, <3>1
  <2>2. QED
    BY <1>2, <1>8, <2>1 DEF FirstNul
<1>9. CASE z # {}
  <2>1. z \in SUBSET Nat /\ z \subseteq 0..(n - 1)
    <3>1. z \subseteq 0..(n - 1)
      BY <1>3
    <3>2. 0..(n - 1) \subseteq Nat
      BY <1>1
    <3>3. QED
      BY <3>1, <3>2
  <2>2. \E k \in z : \A j \in z : k <= j
    BY <1>9, <2>1, Least
  <2> DEFINE h == FirstHit(z)
  <2>3. h \in z /\ \A j \in z : h <= j
    BY <2>2 DEF FirstHit
  <2>4. h \in 0..(n - 1) /\ h \in 0..n /\ h \in Nat
    BY <1>1, <2>1, <2>3
  <2> HIDE DEF h
  <2>5. \A k \in 0..(h - 1) : k \notin z
    BY <2>3, <2>4
  <2>6. \A k \in 0..(h - 1) : d[k] # 0 /\ e[k] # 0
    BY <1>7, <2>4, <2>5
  <2>7. d[h] = 0 \/ e[h] = 0
    BY <1>3, <1>5, <1>6, <2>3, <2>4, <2>6
  <2>8. \A k \in 0..(h - 1) : k \in 0..(n - 1)
    BY <1>1, <2>4
  <2>9. /\ h \in 0..(ChunkBytes - 1)
        /\ \A j \in 0..(h - 1) : buf[a + j] # 0 /\ buf[b + j] # 0
        /\ buf[a + h] = 0 \/ buf[b + h] = 0
    BY <1>2, <2>4, <2>6, <2>7, <2>8
  <2>10. QED
    BY <1>9, <2>9 DEF h, FirstNul
<1>10. QED
  BY <1>8, <1>9 DEF FirstNul

-----------------------------------------------------------------------------
(* Strings in the buffer.                                                  *)

\* The C string at offset i has r bytes.
StringAt(i, r) ==
    /\ i \in Nat /\ r \in Nat /\ i + r <= Len(input)
    /\ buf[i + r] = 0
    /\ \A j \in 0..(r - 1) : buf[i + j] # 0

SameBytes(a, b, n) == \A j \in 0..(n - 1) : buf[a + j] = buf[b + j]

\* What the counting loop knows of the buffer: the bytes up to `stop' end with a NUL.
Ready ==
    /\ Len(input) \in Nat /\ buf \in [0..Len(input) -> Bytes]
    /\ stop \in 1..(Len(input) + 1) /\ buf[stop - 1] = 0

\* A word, or what is left of one.
IsWord(i, r) == StringAt(i, r) /\ i + r < stop

LEMMA StringIs ==
    ASSUME buf \in [0..Len(input) -> Bytes], Len(input) \in Nat,
           NEW i, NEW r, StringAt(i, r)
    PROVE  /\ CString(buf, i) = [k \in 1..r |-> buf[i + k - 1]]
           /\ CString(buf, i) \in Seq(Nat \ {0})
           /\ Len(CString(buf, i)) = r
<1>1. /\ i \in Nat /\ r \in Nat /\ i + r <= Len(input) /\ DOMAIN buf = 0..Len(input)
      /\ buf[i + r] = 0 /\ \A j \in 0..(r - 1) : buf[i + j] # 0
      /\ \A j \in 0..Len(input) : buf[j] \in Nat
  BY Widths DEF StringAt, Bytes
<1> DEFINE Nul == {0}
           Is(j) == j >= i /\ buf[j] \in Nul /\ \A k \in i..(j - 1) : buf[k] \notin Nul
           e == i + r
           last == CHOOSE j \in DOMAIN buf : Is(j)
<1>2. \A k \in i..(e - 1) : buf[k] # 0
  <2> TAKE k \in i..(e - 1)
  <2>1. k - i \in 0..(r - 1) /\ i + (k - i) = k
    BY <1>1
  <2>2. QED
    BY <1>1, <2>1
<1>3. e \in DOMAIN buf /\ Is(e)
  BY <1>1, <1>2
<1>4. ASSUME NEW j \in DOMAIN buf, Is(j) PROVE j = e
  <2>1. j \in Nat /\ j >= i /\ buf[j] = 0 /\ \A k \in i..(j - 1) : buf[k] # 0
    BY <1>1, <1>4
  <2>2. ~(j < e)
    <3>1. j < e => j \in i..(e - 1)
      BY <1>1, <2>1
    <3>2. QED
      BY <1>2, <2>1, <3>1
  <2>3. ~(e < j)
    <3>1. e < j => e \in i..(j - 1)
      BY <1>1, <2>1
    <3>2. QED
      BY <1>1, <2>1, <3>1
  <2>4. QED
    BY <1>1, <2>1, <2>2, <2>3
<1> HIDE DEF Is, e
<1>5. last = e
  BY <1>3, <1>4
<1>6. CString(buf, i) = [k \in 1..(last - i) |-> buf[i + k - 1]]
  BY DEF CString, Until, Is
<1> HIDE DEF last
<1>7. CString(buf, i) = [k \in 1..r |-> buf[i + k - 1]]
  <2>1. e - i = r
    BY <1>1 DEF e
  <2>2. QED
    BY <1>5, <1>6, <2>1
<1>8. \A k \in 1..r : buf[i + k - 1] \in Nat \ {0}
  <2> TAKE k \in 1..r
  <2>1. k - 1 \in 0..(r - 1) /\ i + (k - 1) = i + k - 1 /\ i + k - 1 \in 0..Len(input)
    BY <1>1
  <2>2. QED
    BY <1>1, <2>1
<1> DEFINE c == [k \in 1..r |-> buf[i + k - 1]]
<1>9. c \in Seq(Nat \ {0}) /\ Len(c) = r
  <2>1. c \in [1..r -> Nat \ {0}]
    BY <1>8
  <2> HIDE DEF c
  <2>2. QED
    BY <1>1, <2>1
<1>10. QED
  BY <1>7, <1>9

\* Two words are equal if they have the same bytes.
LEMMA StringsEqual ==
    ASSUME buf \in [0..Len(input) -> Bytes], Len(input) \in Nat,
           NEW a, NEW n, StringAt(a, n), NEW b, NEW m, StringAt(b, m)
    PROVE  CString(buf, a) = CString(buf, b) <=> n = m /\ SameBytes(a, b, n)
<1> DEFINE c == CString(buf, a)
           d == CString(buf, b)
<1>1. /\ c = [k \in 1..n |-> buf[a + k - 1]] /\ Len(c) = n
      /\ d = [k \in 1..m |-> buf[b + k - 1]] /\ Len(d) = m
  BY StringIs
<1>2. a \in Nat /\ b \in Nat /\ n \in Nat /\ m \in Nat
  BY DEF StringAt
<1> HIDE DEF c, d
<1>3. ASSUME c = d PROVE n = m /\ SameBytes(a, b, n)
  <2>1. n = m
    BY <1>1, <1>3
  <2>2. ASSUME NEW j \in 0..(n - 1) PROVE buf[a + j] = buf[b + j]
    <3>1. j + 1 \in 1..n /\ a + (j + 1) - 1 = a + j /\ b + (j + 1) - 1 = b + j
      BY <1>2
    <3>2. c[j + 1] = buf[a + (j + 1) - 1] /\ d[j + 1] = buf[b + (j + 1) - 1]
      BY <1>1, <2>1, <3>1
    <3>3. QED
      BY <1>3, <3>1, <3>2
  <2>3. QED
    BY <2>1, <2>2 DEF SameBytes
<1>4. ASSUME n = m, SameBytes(a, b, n) PROVE c = d
  <2>1. ASSUME NEW k \in 1..n PROVE buf[a + k - 1] = buf[b + k - 1]
    <3>1. k - 1 \in 0..(n - 1) /\ a + (k - 1) = a + k - 1 /\ b + (k - 1) = b + k - 1
      BY <1>2
    <3>2. buf[a + (k - 1)] = buf[b + (k - 1)]
      BY <1>4, <3>1 DEF SameBytes
    <3>3. QED
      BY <3>1, <3>2
  <2>2. QED
    BY <1>1, <1>4, <2>1
<1>5. QED
  BY <1>3, <1>4 DEF c, d

-----------------------------------------------------------------------------
(* ChunkedHash.                                                            *)

HashStep(i, f) ==
    LET c == Packed(i, ChunkBytes)
        n == Len(CString(buf, i))
        z == haszero(c)
    IN  IF i + ChunkBytes > stop THEN <<MaskedHash(Packed(i, n), n), n + 1>>
        ELSE IF z # {} THEN <<MaskedHash(c, FirstHit(z)), FirstHit(z) + 1>>
        ELSE <<c>> \o f[i + ChunkBytes]

\* f mixes in a word's chunks from any offset up to m.
Hashes(f, l) == f = [i \in l..(stop - 1) |-> HashStep(i, f)]

\* The chunk that holds the last NUL is not followed by another.
LEMMA HashStepSame ==
    ASSUME Ready, NEW i \in 0..(stop - 1), NEW f, NEW g,
           i + ChunkBytes \in 0..(stop - 1) => f[i + ChunkBytes] = g[i + ChunkBytes]
    PROVE  HashStep(i, f) = HashStep(i, g)
<1>1. /\ Len(input) \in Nat /\ buf \in [0..Len(input) -> Bytes]
      /\ stop \in 1..(Len(input) + 1) /\ buf[stop - 1] = 0
      /\ ChunkBytes \in Nat \ {0} /\ i \in Nat
  BY Widths DEF Ready
<1> DEFINE c == Packed(i, ChunkBytes)
           z == haszero(c)
<1>2. CASE i + ChunkBytes > stop
  BY <1>2 DEF HashStep
<1>3. CASE z # {}
  BY <1>3 DEF HashStep
<1>4. CASE ~(i + ChunkBytes > stop) /\ z = {}
  <2>1. i + ChunkBytes <= Len(input) + 1
    BY <1>1, <1>4
  <2>2. z = z \cup z
    OBVIOUS
  <2>3. \A j \in 0..(ChunkBytes - 1) : buf[i + j] # 0
    <3>1. FirstNul(i, i, z)
      BY <1>1, <2>1, <2>2, ZeroMarks
    <3>2. QED
      BY <1>4, <3>1 DEF FirstNul
  <2>4. i + ChunkBytes # stop
    <3>1. ASSUME i + ChunkBytes = stop PROVE FALSE
      <4>1. ChunkBytes - 1 \in 0..(ChunkBytes - 1) /\ i + (ChunkBytes - 1) = stop - 1
        BY <1>1, <3>1
      <4>2. buf[i + (ChunkBytes - 1)] # 0
        BY <2>3, <4>1
      <4>3. QED
        BY <1>1, <4>1, <4>2
    <3>2. QED
      BY <3>1
  <2>5. i + ChunkBytes \in 0..(stop - 1)
    BY <1>1, <1>4, <2>4
  <2>6. f[i + ChunkBytes] = g[i + ChunkBytes]
    BY <2>5
  <2>7. QED
    BY <2>6 DEF HashStep
<1>5. QED
  BY <1>2, <1>3, <1>4

LEMMA HashSolution == Ready => \E f : Hashes(f, 0)
<1> SUFFICES ASSUME Ready PROVE \E f : Hashes(f, 0)
  OBVIOUS
<1>1. stop \in Nat /\ ChunkBytes \in Nat \ {0}
  BY Widths DEF Ready
<1> DEFINE S == {k \in 0..stop : \E f : Hashes(f, stop - k)}
<1>2. 0 \in S
  <2>1. stop - 0 = stop /\ stop..(stop - 1) = {}
    BY <1>1
  <2> DEFINE f == [i \in {} |-> 0]
  <2>2. f = [i \in {} |-> HashStep(i, f)]
    OBVIOUS
  <2>3. Hashes(f, stop)
    BY <2>1, <2>2 DEF Hashes
  <2> HIDE DEF f
  <2>4. QED
    BY <1>1, <2>1, <2>3
<1>3. ASSUME NEW k \in 0..(stop - 1), k \in S PROVE k + 1 \in S
  <2>1. PICK f : Hashes(f, stop - k)
    BY <1>3
  <2> DEFINE l == stop - (k + 1)
             g == [i \in l..(stop - 1) |-> IF i = l THEN HashStep(l, f) ELSE f[i]]
  <2>2. /\ l \in 0..(stop - 1) /\ stop - k = l + 1
        /\ l..(stop - 1) = {l} \cup ((l + 1)..(stop - 1))
    BY <1>1
  <2> HIDE DEF l
  <2>3. f = [i \in (l + 1)..(stop - 1) |-> HashStep(i, f)]
    BY <2>1, <2>2 DEF Hashes
  <2>4. \A i \in (l + 1)..(stop - 1) : f[i] = HashStep(i, f) /\ g[i] = f[i]
    <3> TAKE i \in (l + 1)..(stop - 1)
    <3>1. i # l /\ i \in l..(stop - 1)
      BY <1>1, <2>2
    <3>2. f[i] = HashStep(i, f)
      BY <2>3
    <3>3. QED
      BY <3>1, <3>2
  <2>5. g[l] = HashStep(l, f) /\ l \in l..(stop - 1)
    BY <1>1, <2>2
  <2>6. DOMAIN g = l..(stop - 1) /\ g = [i \in l..(stop - 1) |-> g[i]]
    OBVIOUS
  <2> HIDE DEF g
  <2>7. ASSUME NEW i \in l..(stop - 1) PROVE g[i] = HashStep(i, g)
    <3>1. i \in 0..(stop - 1) /\ i \in Nat
      BY <1>1, <2>2
    <3>2. i + ChunkBytes \in 0..(stop - 1) => f[i + ChunkBytes] = g[i + ChunkBytes]
      <4>1. ASSUME i + ChunkBytes \in 0..(stop - 1) PROVE i + ChunkBytes \in (l + 1)..(stop - 1)
        BY <1>1, <2>2, <3>1, <4>1
      <4>2. QED
        BY <2>4, <4>1
    <3>3. HashStep(i, f) = HashStep(i, g)
      BY <3>1, <3>2, HashStepSame
    <3>4. g[i] = HashStep(i, f)
      <4>1. CASE i = l
        BY <2>5, <4>1
      <4>2. CASE i \in (l + 1)..(stop - 1)
        BY <2>4, <4>2
      <4>3. QED
        BY <2>2, <4>1, <4>2
    <3>5. QED
      BY <3>3, <3>4
  <2>8. Hashes(g, l)
    BY <2>6, <2>7 DEF Hashes
  <2>9. \E h : Hashes(h, stop - (k + 1))
    BY <2>8 DEF l
  <2>10. k + 1 \in 0..stop
    BY <1>1
  <2>11. QED
    BY <2>9, <2>10
<1> HIDE DEF S
<1>4. stop \in S
  <2>1. \A k \in 0..stop : k \in S
    BY <1>1, <1>2, <1>3, Climb
  <2>2. QED
    BY <1>1, <2>1
<1>5. stop - stop = 0
  BY <1>1
<1>6. QED
  BY <1>4, <1>5 DEF S

LEMMA HashUnfolds ==
    ASSUME Ready
    PROVE  \E f : /\ \A s : Mixed(s) = f[s]
                  /\ \A i \in 0..(stop - 1) : f[i] = HashStep(i, f)
<1> DEFINE f == CHOOSE g : Hashes(g, 0)
<1>1. Hashes(f, 0)
  BY HashSolution
<1>2. \A s : Mixed(s) = f[s]
  BY DEF Mixed, Hashes, HashStep
<1> HIDE DEF f
<1>3. f = [i \in 0..(stop - 1) |-> HashStep(i, f)]
  BY <1>1 DEF Hashes
<1>4. \A i \in 0..(stop - 1) : f[i] = HashStep(i, f)
  BY <1>3
<1>5. QED
  BY <1>2, <1>4

\* What is mixed in does not depend on what stands behind the word's NUL.
LEMMA HashString ==
    ASSUME Ready, NEW i, NEW r, IsWord(i, r)
    PROVE  /\ r < ChunkBytes => Mixed(i) = <<Packed(i, r), r + 1>>
           /\ r >= ChunkBytes =>
                /\ IsWord(i + ChunkBytes, r - ChunkBytes)
                /\ Mixed(i) = <<Packed(i, ChunkBytes)>> \o Mixed(i + ChunkBytes)
<1>1. /\ Len(input) \in Nat /\ buf \in [0..Len(input) -> Bytes]
      /\ stop \in 1..(Len(input) + 1) /\ buf[stop - 1] = 0
      /\ ChunkBytes \in Nat \ {0} /\ i \in Nat /\ r \in Nat
      /\ i + r <= Len(input) /\ i + r < stop
      /\ buf[i + r] = 0 /\ \A j \in 0..(r - 1) : buf[i + j] # 0
  BY Widths DEF Ready, IsWord, StringAt
<1>2. Len(CString(buf, i)) = r
  BY <1>1, StringIs DEF IsWord
<1>3. PICK f : /\ \A s : Mixed(s) = f[s]
               /\ \A k \in 0..(stop - 1) : f[k] = HashStep(k, f)
  BY HashUnfolds
<1>4. Mixed(i) = HashStep(i, f)
  <2>1. i \in 0..(stop - 1)
    BY <1>1
  <2>2. QED
    BY <1>3, <2>1
<1> DEFINE c == Packed(i, ChunkBytes)
           z == haszero(c)
           h == FirstHit(z)
<1>5. CASE i + ChunkBytes > stop
  <2>1. r < ChunkBytes /\ r \in 0..ChunkBytes /\ r \in 0..r
    BY <1>1, <1>5
  <2>2. i + r <= Len(input) + 1
    BY <1>1
  <2>3. MaskedHash(Packed(i, r), r) = Packed(i, r)
    BY <1>1, <2>1, <2>2, PackedLow
  <2>4. HashStep(i, f) = <<MaskedHash(Packed(i, r), r), r + 1>>
    BY <1>2, <1>5 DEF HashStep
  <2>5. ~(r >= ChunkBytes)
    BY <1>1, <2>1
  <2>6. QED
    BY <1>4, <2>3, <2>4, <2>5
<1>6. CASE ~(i + ChunkBytes > stop)
  <2>1. i + ChunkBytes <= Len(input) + 1 /\ z = z \cup z
    BY <1>1, <1>6
  <2>2. /\ z = {} => \A j \in 0..(ChunkBytes - 1) : buf[i + j] # 0
        /\ z # {} => /\ h \in 0..(ChunkBytes - 1)
                     /\ \A j \in 0..(h - 1) : buf[i + j] # 0
                     /\ buf[i + h] = 0
    <3>1. /\ buf \in [0..Len(input) -> Bytes] /\ Len(input) \in Nat
          /\ i \in Nat /\ i + ChunkBytes <= Len(input) + 1
          /\ z = haszero(Packed(i, ChunkBytes)) \cup haszero(Packed(i, ChunkBytes))
      BY <1>1, <2>1
    <3> HIDE DEF c, z, h
    <3>2. FirstNul(i, i, z)
      BY <3>1, ZeroMarks
    <3>3. QED
      BY <3>2 DEF FirstNul, h
  <2>3. HashStep(i, f) = IF z # {} THEN <<MaskedHash(c, h), h + 1>>
                         ELSE <<c>> \o f[i + ChunkBytes]
    BY <1>6 DEF HashStep
  <2> HIDE DEF z, h
  <2>4. CASE z # {}
    <3>1. h \in 0..(ChunkBytes - 1) /\ (\A j \in 0..(h - 1) : buf[i + j] # 0) /\ buf[i + h] = 0
      BY <2>2, <2>4
    <3>2. h = r
      <4>1. ~(h < r)
        <5>1. h < r => h \in 0..(r - 1)
          BY <1>1, <3>1
        <5>2. QED
          BY <1>1, <3>1, <5>1
      <4>2. ~(r < h)
        <5>1. r < h => r \in 0..(h - 1)
          BY <1>1, <3>1
        <5>2. QED
          BY <1>1, <3>1, <5>1
      <4>3. QED
        BY <1>1, <3>1, <4>1, <4>2
    <3>3. ChunkBytes \in 0..ChunkBytes /\ r \in 0..ChunkBytes /\ r < ChunkBytes /\ ~(r >= ChunkBytes)
      BY <1>1, <3>1, <3>2
    <3>4. MaskedHash(c, r) = Packed(i, r)
      BY <1>1, <2>1, <3>3, PackedLow
    <3>5. QED
      BY <1>4, <2>3, <2>4, <3>2, <3>3, <3>4
  <2>5. CASE z = {}
    <3>1. \A j \in 0..(ChunkBytes - 1) : buf[i + j] # 0
      BY <2>2, <2>5
    <3>2. ~(r < ChunkBytes)
      <4>1. r < ChunkBytes => r \in 0..(ChunkBytes - 1)
        BY <1>1
      <4>2. QED
        BY <1>1, <3>1, <4>1
    <3>3. IsWord(i + ChunkBytes, r - ChunkBytes)
      <4>1. /\ i + ChunkBytes \in Nat /\ r - ChunkBytes \in Nat
            /\ (i + ChunkBytes) + (r - ChunkBytes) = i + r
        BY <1>1, <3>2
      <4>2. ASSUME NEW j \in 0..((r - ChunkBytes) - 1) PROVE buf[(i + ChunkBytes) + j] # 0
        <5>1. ChunkBytes + j \in 0..(r - 1) /\ i + (ChunkBytes + j) = (i + ChunkBytes) + j
          BY <1>1
        <5>2. QED
          BY <1>1, <5>1
      <4>3. QED
        BY <1>1, <4>1, <4>2 DEF IsWord, StringAt
    <3>4. Mixed(i) = <<c>> \o Mixed(i + ChunkBytes)
      BY <1>3, <1>4, <2>3, <2>5
    <3>5. QED
      BY <3>2, <3>3, <3>4
  <2>6. QED
    BY <2>4, <2>5
<1>7. QED
  BY <1>5, <1>6

\* Equal words feed the hash alike, wherever they stand.
LEMMA HashesAgree ==
    ASSUME Ready, NEW a, NEW b, NEW n, IsWord(a, n), IsWord(b, n), SameBytes(a, b, n)
    PROVE  Mixed(a) = Mixed(b)
<1> DEFINE Alike(x, y, k) == IsWord(x, k) /\ IsWord(y, k) /\ SameBytes(x, y, k)
           Bad == {k \in Nat : \E x, y : Alike(x, y, k) /\ Mixed(x) # Mixed(y)}
<1>1. Bad \in SUBSET Nat
  OBVIOUS
<1>2. ASSUME Bad # {} PROVE FALSE
  <2>1. PICK k \in Bad : \A j \in Bad : k <= j
    BY <1>1, <1>2, Least
  <2>2. PICK x, y : Alike(x, y, k) /\ Mixed(x) # Mixed(y)
    OBVIOUS
  <2>3. /\ k \in Nat /\ x \in Nat /\ y \in Nat /\ x + k <= Len(input) /\ y + k <= Len(input)
        /\ IsWord(x, k) /\ IsWord(y, k)
        /\ \A j \in 0..(k - 1) : buf[x + j] = buf[y + j]
    BY <2>2 DEF IsWord, StringAt, SameBytes
  <2>4. /\ Len(input) \in Nat /\ buf \in [0..Len(input) -> Bytes] /\ ChunkBytes \in Nat \ {0}
    BY Widths DEF Ready
  <2>5. CASE k < ChunkBytes
    <3>1. k \in 0..ChunkBytes /\ x + k <= Len(input) + 1 /\ y + k <= Len(input) + 1
      BY <2>3, <2>4, <2>5
    <3>2. Packed(x, k) = Packed(y, k)
      BY <2>3, <2>4, <3>1, PackedEqual
    <3>3. Mixed(x) = <<Packed(x, k), k + 1>> /\ Mixed(y) = <<Packed(y, k), k + 1>>
      BY <2>3, <2>5, HashString
    <3>4. QED
      BY <2>2, <3>2, <3>3
  <2>6. CASE k >= ChunkBytes
    <3> DEFINE q == ChunkBytes
    <3>1. /\ q \in 0..ChunkBytes /\ x + q <= Len(input) + 1 /\ y + q <= Len(input) + 1
          /\ \A j \in 0..(q - 1) : j \in 0..(k - 1)
      BY <2>3, <2>4, <2>6
    <3>2. Packed(x, q) = Packed(y, q)
      BY <2>3, <2>4, <3>1, PackedEqual
    <3>3. /\ IsWord(x + q, k - q) /\ Mixed(x) = <<Packed(x, q)>> \o Mixed(x + q)
          /\ IsWord(y + q, k - q) /\ Mixed(y) = <<Packed(y, q)>> \o Mixed(y + q)
      BY <2>3, <2>6, HashString
    <3>4. ASSUME NEW j \in 0..((k - q) - 1) PROVE buf[(x + q) + j] = buf[(y + q) + j]
      <4>1. q + j \in 0..(k - 1) /\ x + (q + j) = (x + q) + j /\ y + (q + j) = (y + q) + j
        BY <2>3, <2>4, <2>6
      <4>2. buf[x + (q + j)] = buf[y + (q + j)]
        BY <2>3, <4>1
      <4>3. QED
        BY <4>1, <4>2
    <3>5. Alike(x + q, y + q, k - q)
      BY <3>3, <3>4 DEF SameBytes
    <3>6. k - q \in Nat /\ ~(k <= k - q)
      BY <2>3, <2>4, <2>6
    <3> HIDE DEF Alike, q
    <3>7. k - q \notin Bad
      BY <2>1, <3>6
    <3>8. Mixed(x + q) = Mixed(y + q)
      BY <3>5, <3>6, <3>7
    <3>9. QED
      BY <2>2, <3>2, <3>3, <3>8
  <2>7. QED
    BY <2>3, <2>4, <2>5, <2>6
<1>3. Alike(a, b, n) /\ n \in Nat
  BY DEF IsWord, StringAt
<1> HIDE DEF Alike
<1>4. QED
  BY <1>2, <1>3

-----------------------------------------------------------------------------
(* ChunkedEq.                                                              *)

EqStep(a, b, d, f) ==
    LET ca == Packed(a + d, ChunkBytes)
        cb == Packed(b + d, ChunkBytes)
        z  == haszero(ca) \cup haszero(cb)
    IN  IF a + d + ChunkBytes > stop \/ b + d + ChunkBytes > stop
        THEN CString(buf, a + d) = CString(buf, b + d)
        ELSE IF z # {} THEN SameLowBytes(ca, cb, FirstHit(z) + 1)
        ELSE ca = cb /\ f[d + ChunkBytes]

Equals(a, b, f, l) == f = [d \in l..stop |-> EqStep(a, b, d, f)]

LEMMA EqStepSame ==
    ASSUME stop \in Nat, NEW a \in Nat, NEW b \in Nat, NEW d \in Nat, NEW f, NEW g,
           d + ChunkBytes \in 0..stop => f[d + ChunkBytes] = g[d + ChunkBytes]
    PROVE  EqStep(a, b, d, f) = EqStep(a, b, d, g)
<1>1. ChunkBytes \in Nat
  BY Widths
<1>2. CASE a + d + ChunkBytes > stop \/ b + d + ChunkBytes > stop
  BY <1>2 DEF EqStep
<1>3. CASE ~(a + d + ChunkBytes > stop \/ b + d + ChunkBytes > stop)
  <2>1. d + ChunkBytes \in 0..stop
    BY <1>1, <1>3
  <2>2. f[d + ChunkBytes] = g[d + ChunkBytes]
    BY <2>1
  <2>3. QED
    BY <2>2 DEF EqStep
<1>4. QED
  BY <1>2, <1>3

LEMMA EqSolution ==
    ASSUME stop \in Nat, NEW a \in Nat, NEW b \in Nat
    PROVE  \E f : Equals(a, b, f, 0)
<1>1. stop \in Nat /\ ChunkBytes \in Nat \ {0}
  BY Widths
<1> DEFINE S == {k \in 0..(stop + 1) : \E f : Equals(a, b, f, (stop + 1) - k)}
<1>2. 0 \in S
  <2>1. (stop + 1) - 0 = stop + 1 /\ (stop + 1)..stop = {}
    BY <1>1
  <2> DEFINE f == [d \in {} |-> 0]
  <2>2. f = [d \in {} |-> EqStep(a, b, d, f)]
    OBVIOUS
  <2>3. Equals(a, b, f, stop + 1)
    BY <2>1, <2>2 DEF Equals
  <2> HIDE DEF f
  <2>4. QED
    BY <1>1, <2>1, <2>3
<1>3. ASSUME NEW k \in 0..((stop + 1) - 1), k \in S PROVE k + 1 \in S
  <2>1. PICK f : Equals(a, b, f, (stop + 1) - k)
    BY <1>3
  <2> DEFINE l == (stop + 1) - (k + 1)
             g == [d \in l..stop |-> IF d = l THEN EqStep(a, b, l, f) ELSE f[d]]
  <2>2. /\ l \in 0..stop /\ (stop + 1) - k = l + 1
        /\ l..stop = {l} \cup ((l + 1)..stop)
    BY <1>1
  <2> HIDE DEF l
  <2>3. f = [d \in (l + 1)..stop |-> EqStep(a, b, d, f)]
    BY <2>1, <2>2 DEF Equals
  <2>4. \A d \in (l + 1)..stop : f[d] = EqStep(a, b, d, f) /\ g[d] = f[d]
    <3> TAKE d \in (l + 1)..stop
    <3>1. d # l /\ d \in l..stop
      BY <1>1, <2>2
    <3>2. f[d] = EqStep(a, b, d, f)
      BY <2>3
    <3>3. QED
      BY <3>1, <3>2
  <2>5. g[l] = EqStep(a, b, l, f) /\ l \in l..stop
    BY <1>1, <2>2
  <2>6. DOMAIN g = l..stop /\ g = [d \in l..stop |-> g[d]]
    OBVIOUS
  <2> HIDE DEF g
  <2>7. ASSUME NEW d \in l..stop PROVE g[d] = EqStep(a, b, d, g)
    <3>1. d \in 0..stop /\ d \in Nat
      BY <1>1, <2>2
    <3>2. d + ChunkBytes \in 0..stop => f[d + ChunkBytes] = g[d + ChunkBytes]
      <4>1. ASSUME d + ChunkBytes \in 0..stop PROVE d + ChunkBytes \in (l + 1)..stop
        BY <1>1, <2>2, <3>1, <4>1
      <4>2. QED
        BY <2>4, <4>1
    <3>3. EqStep(a, b, d, f) = EqStep(a, b, d, g)
      BY <3>1, <3>2, EqStepSame
    <3>4. g[d] = EqStep(a, b, d, f)
      <4>1. CASE d = l
        BY <2>5, <4>1
      <4>2. CASE d \in (l + 1)..stop
        BY <2>4, <4>2
      <4>3. QED
        BY <2>2, <4>1, <4>2
    <3>5. QED
      BY <3>3, <3>4
  <2>8. Equals(a, b, g, l)
    BY <2>6, <2>7 DEF Equals
  <2>9. \E h : Equals(a, b, h, (stop + 1) - (k + 1))
    BY <2>8 DEF l
  <2>10. k + 1 \in 0..(stop + 1)
    BY <1>1
  <2>11. QED
    BY <2>9, <2>10
<1> HIDE DEF S
<1>4. stop + 1 \in S
  <2>1. stop + 1 \in Nat
    BY <1>1
  <2>2. \A k \in 0..(stop + 1) : k \in S
    BY <1>2, <1>3, <2>1, Climb
  <2>3. QED
    BY <2>1, <2>2
<1>5. (stop + 1) - (stop + 1) = 0
  BY <1>1
<1>6. QED
  BY <1>4, <1>5 DEF S

LEMMA EqUnfolds ==
    ASSUME stop \in Nat, NEW a \in Nat, NEW b \in Nat
    PROVE  \E f : /\ ChunkedEq(a, b) <=> a = b \/ f[0]
                  /\ \A d \in 0..stop : f[d] = EqStep(a, b, d, f)
<1> DEFINE f == CHOOSE g : Equals(a, b, g, 0)
<1>1. Equals(a, b, f, 0)
  BY EqSolution
<1>2. ChunkedEq(a, b) <=> a = b \/ f[0]
  BY DEF ChunkedEq, Equals, EqStep
<1> HIDE DEF f
<1>3. f = [d \in 0..stop |-> EqStep(a, b, d, f)]
  BY <1>1 DEF Equals
<1>4. \A d \in 0..stop : f[d] = EqStep(a, b, d, f)
  BY <1>3
<1>5. QED
  BY <1>2, <1>4

\* What is left of a word.
LEMMA WordRest ==
    ASSUME Ready, NEW a, NEW n, IsWord(a, n), NEW d \in 0..n
    PROVE  IsWord(a + d, n - d)
<1>1. /\ a \in Nat /\ n \in Nat /\ d \in Nat /\ a + n <= Len(input) /\ a + n < stop
      /\ Len(input) \in Nat /\ stop \in Nat
      /\ buf[a + n] = 0 /\ \A j \in 0..(n - 1) : buf[a + j] # 0
  BY DEF IsWord, StringAt, Ready
<1>2. a + d \in Nat /\ n - d \in Nat /\ (a + d) + (n - d) = a + n
  BY <1>1
<1>3. ASSUME NEW j \in 0..((n - d) - 1) PROVE buf[(a + d) + j] # 0
  <2>1. d + j \in 0..(n - 1) /\ a + (d + j) = (a + d) + j
    BY <1>1
  <2>2. QED
    BY <1>1, <2>1
<1>4. QED
  BY <1>1, <1>2, <1>3 DEF IsWord, StringAt

\* One chunk of two words: where it finds a NUL, it decides.
LEMMA ChunkDecides ==
    ASSUME Ready, NEW a, NEW n, IsWord(a, n), NEW b, NEW m, IsWord(b, m),
           a + ChunkBytes <= stop, b + ChunkBytes <= stop,
           NEW z, z = haszero(Packed(a, ChunkBytes)) \cup haszero(Packed(b, ChunkBytes))
    PROVE  /\ z # {} => ( MaskedHash(Packed(a, ChunkBytes), FirstHit(z) + 1)
                            = MaskedHash(Packed(b, ChunkBytes), FirstHit(z) + 1)
                          <=> n = m /\ SameBytes(a, b, n) )
           /\ z = {} => /\ n >= ChunkBytes /\ m >= ChunkBytes
                        /\ Packed(a, ChunkBytes) = Packed(b, ChunkBytes)
                             <=> SameBytes(a, b, ChunkBytes)
<1> DEFINE q == ChunkBytes
           h == FirstHit(z)
<1>1. /\ Len(input) \in Nat /\ buf \in [0..Len(input) -> Bytes] /\ stop \in 1..(Len(input) + 1)
      /\ q \in Nat \ {0} /\ q \in 0..q
      /\ a \in Nat /\ n \in Nat /\ b \in Nat /\ m \in Nat
      /\ buf[a + n] = 0 /\ \A j \in 0..(n - 1) : buf[a + j] # 0
      /\ buf[b + m] = 0 /\ \A j \in 0..(m - 1) : buf[b + j] # 0
  BY Widths DEF Ready, IsWord, StringAt
<1>2. a + q <= Len(input) + 1 /\ b + q <= Len(input) + 1
  BY <1>1
<1>3. /\ z = {} => \A j \in 0..(q - 1) : buf[a + j] # 0 /\ buf[b + j] # 0
      /\ z # {} => /\ h \in 0..(q - 1)
                   /\ \A j \in 0..(h - 1) : buf[a + j] # 0 /\ buf[b + j] # 0
                   /\ buf[a + h] = 0 \/ buf[b + h] = 0
  <2>1. /\ buf \in [0..Len(input) -> Bytes] /\ Len(input) \in Nat
        /\ a \in Nat /\ a + ChunkBytes <= Len(input) + 1
        /\ b \in Nat /\ b + ChunkBytes <= Len(input) + 1
        /\ z = haszero(Packed(a, ChunkBytes)) \cup haszero(Packed(b, ChunkBytes))
    BY <1>1, <1>2
  <2>2. FirstNul(a, b, z)
    BY <2>1, ZeroMarks
  <2>3. QED
    BY <2>2 DEF FirstNul
<1> HIDE DEF h
<1>4. CASE z = {}
  <2>1. ~(n < q) /\ ~(m < q)
    <3>1. n < q => n \in 0..(q - 1)
      BY <1>1
    <3>2. m < q => m \in 0..(q - 1)
      BY <1>1
    <3>3. QED
      BY <1>1, <1>3, <1>4, <3>1, <3>2
  <2>2. Packed(a, q) = Packed(b, q) <=> SameBytes(a, b, q)
    BY <1>1, <1>2, PackedEqual DEF SameBytes
  <2>3. QED
    BY <1>1, <1>4, <2>1, <2>2
<1>5. CASE z # {}
  <2>1. /\ h \in 0..(q - 1) /\ (\A j \in 0..(h - 1) : buf[a + j] # 0 /\ buf[b + j] # 0)
        /\ buf[a + h] = 0 \/ buf[b + h] = 0
    BY <1>3, <1>5
  <2>2. h + 1 \in 0..q /\ h \in Nat /\ a + (h + 1) <= Len(input) + 1 /\ b + (h + 1) <= Len(input) + 1
    BY <1>1, <1>2, <2>1
  <2>3. /\ MaskedHash(Packed(a, q), h + 1) = Packed(a, h + 1)
        /\ MaskedHash(Packed(b, q), h + 1) = Packed(b, h + 1)
    BY <1>1, <1>2, <2>2, PackedLow
  <2>4. Packed(a, h + 1) = Packed(b, h + 1) <=> \A j \in 0..((h + 1) - 1) : buf[a + j] = buf[b + j]
    BY <1>1, <2>2, PackedEqual
  <2>5. n >= h /\ m >= h
    <3>1. n < h => n \in 0..(h - 1)
      BY <1>1, <2>2
    <3>2. m < h => m \in 0..(h - 1)
      BY <1>1, <2>2
    <3>3. ~(n < h) /\ ~(m < h)
      BY <1>1, <2>1, <3>1, <3>2
    <3>4. QED
      BY <1>1, <2>2, <3>3
  <2>6. n = h \/ m = h
    <3>1. n # h => h \in 0..(n - 1)
      BY <1>1, <2>2, <2>5
    <3>2. m # h => h \in 0..(m - 1)
      BY <1>1, <2>2, <2>5
    <3>3. QED
      BY <1>1, <2>1, <3>1, <3>2
  <2>7. ASSUME \A j \in 0..((h + 1) - 1) : buf[a + j] = buf[b + j]
        PROVE  n = m /\ SameBytes(a, b, n)
    <3>1. buf[a + h] = buf[b + h] /\ \A j \in 0..(h - 1) : buf[a + j] = buf[b + j]
      BY <2>2, <2>7
    <3>2. n = h
      <4>1. n # h => h \in 0..(n - 1)
        BY <1>1, <2>2, <2>5
      <4>2. m = h => buf[b + h] = 0
        BY <1>1
      <4>3. QED
        BY <1>1, <2>6, <3>1, <4>1, <4>2
    <3>3. m = h
      <4>1. m # h => h \in 0..(m - 1)
        BY <1>1, <2>2, <2>5
      <4>2. buf[a + h] = 0
        BY <1>1, <3>2
      <4>3. QED
        BY <1>1, <3>1, <4>1, <4>2
    <3>4. QED
      BY <3>1, <3>2, <3>3 DEF SameBytes
  <2>8. ASSUME n = m, SameBytes(a, b, n)
        PROVE  \A j \in 0..((h + 1) - 1) : buf[a + j] = buf[b + j]
    <3>1. n = h
      BY <2>6, <2>8
    <3>2. buf[a + h] = buf[b + h]
      BY <1>1, <2>8, <3>1
    <3>3. \A j \in 0..((h + 1) - 1) : j \in 0..(n - 1) \/ j = h
      BY <2>2, <3>1
    <3>4. QED
      BY <2>8, <3>2, <3>3 DEF SameBytes
  <2>9. QED
    BY <1>5, <2>3, <2>4, <2>7, <2>8 DEF h
<1>6. QED
  BY <1>4, <1>5

\* ChunkedEq is equality of words, whatever stands behind them.
LEMMA EqIsEquality ==
    ASSUME Ready, NEW a, NEW n, IsWord(a, n), NEW b, NEW m, IsWord(b, m)
    PROVE  ChunkedEq(a, b) <=> n = m /\ SameBytes(a, b, n)
<1>1. /\ a \in Nat /\ n \in Nat /\ b \in Nat /\ m \in Nat /\ a + n < stop /\ b + m < stop
      /\ ChunkBytes \in Nat \ {0} /\ stop \in Nat /\ Len(input) \in Nat
      /\ buf \in [0..Len(input) -> Bytes]
  BY Widths DEF Ready, IsWord, StringAt
<1>2. PICK f : /\ ChunkedEq(a, b) <=> a = b \/ f[0]
               /\ \A d \in 0..stop : f[d] = EqStep(a, b, d, f)
  BY <1>1, EqUnfolds
<1> DEFINE Same(d) == n - d = m - d /\ SameBytes(a + d, b + d, n - d)
           Right(d) == f[d] <=> Same(d)
           Bad == {k \in 0..n : n - k <= m /\ ~Right(n - k)}
<1>3. ASSUME Bad # {} PROVE FALSE
  <2>1. Bad \in SUBSET Nat
    BY <1>1
  <2>2. PICK k \in Bad : \A j \in Bad : k <= j
    BY <1>3, <2>1, Least
  <2> DEFINE d == n - k
             x == a + d
             y == b + d
             q == ChunkBytes
  <2>3. /\ k \in 0..n /\ d \in 0..n /\ d \in 0..m /\ d \in 0..stop /\ d \in Nat /\ ~Right(d)
        /\ x \in Nat /\ y \in Nat
    BY <1>1
  <2>4. /\ IsWord(x, n - d) /\ IsWord(y, m - d) /\ StringAt(x, n - d) /\ StringAt(y, m - d)
    <3>1. IsWord(x, n - d) /\ IsWord(y, m - d)
      BY <2>3, WordRest
    <3>2. QED
      BY <3>1 DEF IsWord
  <2>5. f[d] = EqStep(a, b, d, f)
    BY <1>2, <2>3
  <2> DEFINE z == haszero(Packed(x, q)) \cup haszero(Packed(y, q))
  <2>6. f[d] = IF a + d + q > stop \/ b + d + q > stop
               THEN CString(buf, x) = CString(buf, y)
               ELSE IF z # {} THEN MaskedHash(Packed(x, q), FirstHit(z) + 1)
                                     = MaskedHash(Packed(y, q), FirstHit(z) + 1)
               ELSE Packed(x, q) = Packed(y, q) /\ f[d + q]
    BY <2>5 DEF EqStep, SameLowBytes
  <2> HIDE DEF d, x, y, z, Same
  <2>7. CASE a + d + q > stop \/ b + d + q > stop
    <3>1. f[d] <=> CString(buf, x) = CString(buf, y)
      BY <2>6, <2>7
    <3>2. CString(buf, x) = CString(buf, y) <=> n - d = m - d /\ SameBytes(x, y, n - d)
      BY <1>1, <2>4, StringsEqual
    <3>3. QED
      BY <2>3, <3>1, <3>2 DEF Same, x, y
  <2>8. CASE ~(a + d + q > stop \/ b + d + q > stop)
    <3>1. x + q <= stop /\ y + q <= stop
      BY <1>1, <2>3, <2>8 DEF x, y
    <3>2. CASE z # {}
      <4>1. f[d] <=> MaskedHash(Packed(x, q), FirstHit(z) + 1) = MaskedHash(Packed(y, q), FirstHit(z) + 1)
        BY <2>6, <2>8, <3>2
      <4>2. MaskedHash(Packed(x, q), FirstHit(z) + 1) = MaskedHash(Packed(y, q), FirstHit(z) + 1)
              <=> n - d = m - d /\ SameBytes(x, y, n - d)
        BY <2>4, <3>1, <3>2, ChunkDecides DEF z
      <4>3. QED
        BY <2>3, <4>1, <4>2 DEF Same, x, y
    <3>3. CASE z = {}
      <4>1. f[d] <=> Packed(x, q) = Packed(y, q) /\ f[d + q]
        BY <2>6, <2>8, <3>3
      <4>2. /\ n - d >= q /\ m - d >= q
            /\ Packed(x, q) = Packed(y, q) <=> SameBytes(x, y, q)
        BY <2>4, <3>1, <3>3, ChunkDecides DEF z
      <4>3. /\ k - q \in 0..n /\ n - (k - q) = d + q /\ d + q <= m /\ ~(k <= k - q)
            /\ d + q \in Nat /\ n - d \in Nat
        BY <1>1, <2>3, <4>2 DEF d
      <4>4. Right(d + q)
        <5>1. k - q \notin Bad
          BY <2>2, <4>3
        <5>2. QED
          BY <4>3, <5>1
      <4>5. Same(d) <=> SameBytes(x, y, q) /\ Same(d + q)
        <5> DEFINE e == d + q
        <5>1. e \in Nat /\ a + e = x + q /\ b + e = y + q /\ n - e = (n - d) - q /\ n - e \in Nat
          BY <1>1, <2>3, <4>2 DEF x, y
        <5>2. (n - d = m - d) <=> (n - e = m - e)
          BY <1>1, <2>3
        <5>3. SameBytes(x, y, n - d) <=> SameBytes(x, y, q) /\ SameBytes(x + q, y + q, (n - d) - q)
          <6> DEFINE r == n - d
          <6>1. r \in Nat /\ r >= q /\ q \in Nat
            BY <1>1, <4>2, <4>3
          <6> HIDE DEF r, q
          <6>2. ASSUME SameBytes(x, y, r)
                PROVE  SameBytes(x, y, q) /\ SameBytes(x + q, y + q, r - q)
            <7>1. ASSUME NEW j \in 0..(q - 1) PROVE buf[x + j] = buf[y + j]
              <8>1. j \in 0..(r - 1)
                BY <6>1
              <8>2. QED
                BY <6>2, <8>1 DEF SameBytes
            <7>2. ASSUME NEW j \in 0..((r - q) - 1) PROVE buf[(x + q) + j] = buf[(y + q) + j]
              <8>1. q + j \in 0..(r - 1) /\ x + (q + j) = (x + q) + j /\ y + (q + j) = (y + q) + j
                BY <2>3, <6>1
              <8>2. buf[x + (q + j)] = buf[y + (q + j)]
                BY <6>2, <8>1 DEF SameBytes
              <8>3. QED
                BY <8>1, <8>2
            <7>3. QED
              BY <7>1, <7>2 DEF SameBytes
          <6>3. ASSUME SameBytes(x, y, q), SameBytes(x + q, y + q, r - q)
                PROVE  SameBytes(x, y, r)
            <7> SUFFICES ASSUME NEW j \in 0..(r - 1) PROVE buf[x + j] = buf[y + j]
              BY DEF SameBytes
            <7>1. CASE j < q
              <8>1. j \in 0..(q - 1)
                BY <6>1, <7>1
              <8>2. QED
                BY <6>3, <8>1 DEF SameBytes
            <7>2. CASE ~(j < q)
              <8>1. j - q \in 0..((r - q) - 1) /\ (x + q) + (j - q) = x + j /\ (y + q) + (j - q) = y + j
                BY <2>3, <6>1, <7>2
              <8>2. buf[(x + q) + (j - q)] = buf[(y + q) + (j - q)]
                BY <6>3, <8>1 DEF SameBytes
              <8>3. QED
                BY <8>1, <8>2
            <7>3. QED
              BY <7>1, <7>2
          <6>4. QED
            BY <6>2, <6>3 DEF r
        <5> HIDE DEF e
        <5>4. Same(e) <=> n - e = m - e /\ SameBytes(x + q, y + q, (n - d) - q)
          BY <5>1 DEF Same
        <5>5. Same(d) <=> n - d = m - d /\ SameBytes(x, y, n - d)
          BY DEF Same, x, y
        <5>6. Same(d) <=> SameBytes(x, y, q) /\ Same(e)
          BY <5>2, <5>3, <5>4, <5>5
        <5>7. QED
          BY <5>6 DEF e
      <4>6. QED
        BY <2>3, <4>1, <4>2, <4>4, <4>5
    <3>4. QED
      BY <3>2, <3>3
  <2>9. QED
    BY <2>7, <2>8
<1>4. Right(0)
  <2>1. n \in 0..n /\ n - n = 0 /\ 0 <= m
    BY <1>1
  <2> HIDE DEF Right
  <2>2. n \notin Bad
    BY <1>3
  <2>3. QED
    BY <2>1, <2>2
<1>5. Same(0) <=> n = m /\ SameBytes(a, b, n)
  <2>1. a + 0 = a /\ b + 0 = b /\ n - 0 = n /\ m - 0 = m
    BY <1>1
  <2>2. QED
    BY <2>1
<1>6. a = b => n = m /\ SameBytes(a, b, n)
  <2> SUFFICES ASSUME a = b PROVE n = m /\ SameBytes(a, b, n)
    OBVIOUS
  <2>1. SameBytes(a, b, n)
    BY DEF SameBytes
  <2>2. StringAt(a, n) /\ StringAt(a, m)
    BY DEF IsWord
  <2>3. n = m
    BY <1>1, <2>2, StringIs
  <2>4. QED
    BY <2>1, <2>3
<1>7. QED
  BY <1>2, <1>4, <1>5, <1>6

-----------------------------------------------------------------------------
(* ByteStrLess.                                                            *)

LEMMA LessIsStrcmp ==
    ASSUME Ready, NEW a, NEW n, IsWord(a, n), NEW b, NEW m, IsWord(b, m),
           CString(buf, a) # CString(buf, b), ~ByteStrLess(b, a)
    PROVE  Text!strcmp_less(CString(buf, a), CString(buf, b))
<1>1. /\ a \in Nat /\ n \in Nat /\ b \in Nat /\ m \in Nat /\ a + n < stop /\ b + m < stop
      /\ stop \in Nat /\ Len(input) \in Nat /\ buf \in [0..Len(input) -> Bytes]
      /\ a + n <= Len(input) /\ b + m <= Len(input)
      /\ buf[a + n] = 0 /\ \A j \in 0..(n - 1) : buf[a + j] # 0
      /\ buf[b + m] = 0 /\ \A j \in 0..(m - 1) : buf[b + j] # 0
      /\ StringAt(a, n) /\ StringAt(b, m)
  BY DEF Ready, IsWord, StringAt
<1> DEFINE Differ == {k \in Nat : k <= n /\ k <= m /\ buf[a + k] # buf[b + k]}
<1>2. Differ # {}
  <2> SUFFICES ASSUME Differ = {} PROVE FALSE
    OBVIOUS
  <2>1. \A k \in Nat : k <= n /\ k <= m => buf[a + k] = buf[b + k]
    OBVIOUS
  <2>2. n = m
    <3>1. ~(n < m)
      <4>1. n < m => buf[a + n] = buf[b + n] /\ n \in 0..(m - 1)
        BY <1>1, <2>1
      <4>2. QED
        BY <1>1, <4>1
    <3>2. ~(m < n)
      <4>1. m < n => buf[a + m] = buf[b + m] /\ m \in 0..(n - 1)
        BY <1>1, <2>1
      <4>2. QED
        BY <1>1, <4>1
    <3>3. QED
      BY <1>1, <3>1, <3>2
  <2>3. SameBytes(a, b, n)
    <3>1. \A j \in 0..(n - 1) : j \in Nat /\ j <= n
      BY <1>1
    <3>2. QED
      BY <2>1, <2>2, <3>1 DEF SameBytes
  <2>4. QED
    BY <1>1, <2>2, <2>3, StringsEqual
<1>3. PICK q \in Differ : \A k \in Differ : q <= k
  <2>1. Differ \in SUBSET Nat
    OBVIOUS
  <2>2. QED
    BY <1>2, <2>1, Least
<1>4. /\ q \in Nat /\ q <= n /\ q <= m /\ buf[a + q] # buf[b + q] /\ q \in 0..stop
      /\ a + q \in 0..Len(input) /\ b + q \in 0..Len(input)
  BY <1>1
<1>5. \A j \in 0..(q - 1) : buf[a + j] = buf[b + j] /\ buf[a + j] # 0 /\ buf[b + j] # 0
  <2> TAKE j \in 0..(q - 1)
  <2>1. j \in Nat /\ j <= n /\ j <= m /\ ~(q <= j) /\ j \in 0..(n - 1)
    BY <1>1, <1>4
  <2>2. buf[a + j] = buf[b + j]
    BY <1>3, <2>1
  <2>3. QED
    BY <1>1, <2>1, <2>2
<1> HIDE DEF Differ
<1> DEFINE Ends(i) == buf[b + i] = 0 \/ buf[b + i] # buf[a + i]
           Is(k) == Ends(k) /\ \A j \in 0..(k - 1) : ~Ends(j)
           i0 == CHOOSE k \in 0..stop : Is(k)
<1>6. ByteStrLess(b, a) <=> buf[b + i0] < buf[a + i0]
  BY DEF ByteStrLess
<1>7. Is(q)
  BY <1>4, <1>5
<1>8. ASSUME NEW k \in 0..stop, Is(k) PROVE k = q
  <2>1. ~(k < q)
    <3>1. k < q => k \in 0..(q - 1)
      BY <1>1, <1>4
    <3>2. QED
      BY <1>7, <1>8, <3>1
  <2>2. ~(q < k)
    <3>1. q < k => q \in 0..(k - 1)
      BY <1>1, <1>4
    <3>2. QED
      BY <1>7, <1>8, <3>1
  <2>3. QED
    BY <1>1, <1>4, <2>1, <2>2
<1> HIDE DEF Is
<1>9. i0 = q
  BY <1>4, <1>7, <1>8
<1> HIDE DEF i0
<1>10. buf[a + q] < buf[b + q]
  <2>1. buf[a + q] \in Nat /\ buf[b + q] \in Nat
    BY <1>1, <1>4, Widths DEF Bytes
  <2>2. QED
    BY <1>4, <1>6, <1>9, <2>1
<1> DEFINE s == CString(buf, a)
           t == CString(buf, b)
<1>11. /\ Len(s) = n /\ Len(t) = m
       /\ \A j \in 1..n : s[j] = buf[a + j - 1]
       /\ \A j \in 1..m : t[j] = buf[b + j - 1]
  <2>1. s = [k \in 1..n |-> buf[a + k - 1]] /\ Len(s) = n
    BY <1>1, StringIs
  <2>2. t = [k \in 1..m |-> buf[b + k - 1]] /\ Len(t) = m
    BY <1>1, StringIs
  <2>3. QED
    BY <2>1, <2>2
<1> HIDE DEF s, t
<1>12. ASSUME NEW j \in 0..n PROVE Text!ByteAt(s, j + 1) = buf[a + j]
  <2>1. CASE j < n
    <3>1. j + 1 \in 1..n /\ j + 1 <= Len(s) /\ a + (j + 1) - 1 = a + j
      BY <1>1, <1>11, <2>1
    <3>2. QED
      BY <1>11, <3>1 DEF Text!ByteAt
  <2>2. CASE ~(j < n)
    <3>1. j = n /\ ~(j + 1 <= Len(s))
      BY <1>1, <1>11, <2>2
    <3>2. QED
      BY <1>1, <3>1 DEF Text!ByteAt
  <2>3. QED
    BY <2>1, <2>2
<1>13. ASSUME NEW j \in 0..m PROVE Text!ByteAt(t, j + 1) = buf[b + j]
  <2>1. CASE j < m
    <3>1. j + 1 \in 1..m /\ j + 1 <= Len(t) /\ b + (j + 1) - 1 = b + j
      BY <1>1, <1>11, <2>1
    <3>2. QED
      BY <1>11, <3>1 DEF Text!ByteAt
  <2>2. CASE ~(j < m)
    <3>1. j = m /\ ~(j + 1 <= Len(t))
      BY <1>1, <1>11, <2>2
    <3>2. QED
      BY <1>1, <3>1 DEF Text!ByteAt
  <2>3. QED
    BY <2>1, <2>2
<1>14. q # m
  <2>1. buf[a + q] \in Nat
    BY <1>1, <1>4, Widths DEF Bytes
  <2>2. QED
    BY <1>1, <1>10, <2>1
<1>15. q + 1 \in 1..Len(t) /\ q \in 0..n /\ q \in 0..m
  BY <1>1, <1>4, <1>11, <1>14
<1>16. Text!ByteAt(s, q + 1) < Text!ByteAt(t, q + 1)
  BY <1>10, <1>12, <1>13, <1>15
<1>17. ASSUME NEW j \in 1..((q + 1) - 1) PROVE Text!ByteAt(s, j) = Text!ByteAt(t, j)
  <2>1. j - 1 \in 0..(q - 1) /\ j - 1 \in 0..n /\ j - 1 \in 0..m /\ (j - 1) + 1 = j
    BY <1>1, <1>4
  <2>2. Text!ByteAt(s, (j - 1) + 1) = buf[a + (j - 1)] /\ Text!ByteAt(t, (j - 1) + 1) = buf[b + (j - 1)]
    BY <1>12, <1>13, <2>1
  <2>3. QED
    BY <1>5, <2>1, <2>2
<1>18. QED
  BY <1>15, <1>16, <1>17 DEF Text!strcmp_less, s, t

-----------------------------------------------------------------------------
(* The counting loop.                                                      *)

SplitDone == IInv /\ WInv /\ pc = "done"

LEMMA WordsReady ==
    ASSUME SplitDone, words # << >>
    PROVE  /\ Ready
           /\ \A k \in DOMAIN words : \E r : IsWord(words[k], r)
<1>1. /\ Len(input) \in Nat /\ end = Len(input) + 1 /\ words \in Seq(Nat)
      /\ Buffer(input)[Len(input)] = 0
  BY SourceFacts DEF SplitDone
<1>2. buf \in [0..Len(input) -> Bytes]
  BY DEF SplitDone, IInv, TypeOK, Bytes
<1>3. /\ Len(words) \in Nat \ {0} /\ DOMAIN words = 1..Len(words)
      /\ \A k \in 1..Len(words) : words[k] \in 0..Len(input)
      /\ \A j, k \in 1..Len(words) : j < k => words[j] < words[k]
  <2>1. InOrder(words, WordStarts(Buffer(input)))
    BY WordsFoundAll DEF SplitDone, WordsExact
  <2>2. WordStarts(Buffer(input)) \subseteq 0..Len(input)
    BY SourceFacts DEF SplitDone
  <2>3. Len(words) \in Nat \ {0} /\ DOMAIN words = 1..Len(words)
    BY <1>1
  <2>4. QED
    BY <2>1, <2>2, <2>3 DEF InOrder
<1>4. buf[Len(input)] = 0
  <2>1. Len(input) \in 0..Len(input)
    BY <1>1
  <2>2. QED
    BY <1>1, <2>1 DEF SplitDone, WInv, Ended
<1> DEFINE m == Len(input)
           c == buf
           Nul == {0}
<1>5. ASSUME NEW i \in 0..m PROVE \E r \in Nat : StringAt(i, r) /\ CString(buf, i) = Slice(buf, i, i + r)
  <2>1. m \in Nat /\ DOMAIN c = 0..m /\ c[m] \in Nul
    BY <1>1, <1>2, <1>4
  <2> HIDE DEF m, c, Nul
  <2>2. PICK e \in i..m : EndsAt(c, i, Nul, e)
    BY <2>1, UntilIs
  <2>3. /\ c[e] \in Nul /\ \A k \in i..(e - 1) : c[k] \notin Nul
        /\ Until(c, i, Nul) = Slice(c, i, e)
    BY <2>2 DEF EndsAt
  <2>4. e - i \in Nat /\ i + (e - i) = e /\ i \in Nat /\ e <= m
    BY <2>1
  <2>5. ASSUME NEW j \in 0..((e - i) - 1) PROVE buf[i + j] # 0
    <3>1. i + j \in i..(e - 1)
      BY <2>1
    <3>2. QED
      BY <2>3, <3>1 DEF c, Nul
  <2>6. StringAt(i, e - i)
    BY <2>3, <2>4, <2>5 DEF StringAt, m, c, Nul
  <2>7. CString(buf, i) = Slice(buf, i, i + (e - i))
    BY <2>3, <2>4 DEF CString, c, Nul
  <2>8. QED
    BY <2>4, <2>6, <2>7
<1> DEFINE last == words[Len(words)]
<1>6. Len(words) \in 1..Len(words) /\ last \in 0..m /\ last \in Nat
  BY <1>1, <1>3
<1>7. PICK r \in Nat : StringAt(last, r)
  BY <1>5, <1>6
<1>8. /\ last + r <= m /\ buf[last + r] = 0
  BY <1>7 DEF StringAt
<1>9. stop = last + r + 1
  <2>1. Len(CString(buf, last)) = r
    BY <1>1, <1>2, <1>7, StringIs
  <2>2. QED
    BY <2>1 DEF stop
<1> HIDE DEF last
<1>10. stop \in 1..(m + 1) /\ stop - 1 = last + r
  BY <1>1, <1>6, <1>8, <1>9
<1>11. Ready
  BY <1>1, <1>2, <1>8, <1>10 DEF Ready
<1>12. ASSUME NEW k \in 1..Len(words) PROVE \E s : IsWord(words[k], s)
  <2>1. words[k] \in 0..m /\ words[k] \in Nat
    BY <1>1, <1>3
  <2>2. PICK s \in Nat : StringAt(words[k], s)
    BY <1>5, <2>1
  <2>3. words[k] <= last
    <3>1. k < Len(words) => words[k] < words[Len(words)]
      BY <1>3, <1>6
    <3>2. QED
      BY <1>3, <1>6, <2>1, <3>1 DEF last
  <2>4. ~(words[k] + s > last + r)
    <3> SUFFICES ASSUME words[k] + s > last + r PROVE FALSE
      OBVIOUS
    <3> DEFINE j == (last + r) - words[k]
    <3>1. j \in 0..(s - 1) /\ words[k] + j = last + r
      BY <1>6, <2>1, <2>3
    <3> HIDE DEF j
    <3>2. buf[words[k] + j] # 0
      BY <2>2, <3>1 DEF StringAt
    <3>3. QED
      BY <1>8, <3>1, <3>2
  <2>5. words[k] + s < stop
    BY <1>6, <1>9, <2>1, <2>4
  <2>6. QED
    BY <2>2, <2>5 DEF IsWord
<1>13. QED
  BY <1>3, <1>11, <1>12

\* A key finds a word exactly if the two are equal, collide what may: nothing is
\* assumed of Folded.
LEMMA KeyFinds ==
    ASSUME SplitDone, NEW j \in DOMAIN words, NEW k \in DOMAIN words
    PROVE  ChunkedHash(words[j]) = ChunkedHash(words[k]) /\ ChunkedEq(words[j], words[k])
             <=> CString(buf, words[j]) = CString(buf, words[k])
<1>1. words # << >>
  OBVIOUS
<1>2. Ready
  BY <1>1, WordsReady
<1>3. PICK n : IsWord(words[j], n)
  BY <1>1, WordsReady
<1>4. PICK m : IsWord(words[k], m)
  BY <1>1, WordsReady
<1> DEFINE a == words[j]
           b == words[k]
<1>5. IsWord(a, n) /\ IsWord(b, m)
  BY <1>3, <1>4
<1> HIDE DEF a, b
<1>6. ChunkedEq(a, b) <=> n = m /\ SameBytes(a, b, n)
  BY <1>2, <1>5, EqIsEquality
<1>7. CString(buf, a) = CString(buf, b) <=> n = m /\ SameBytes(a, b, n)
  BY <1>2, <1>5, StringsEqual DEF Ready, IsWord
<1>8. n = m /\ SameBytes(a, b, n) => ChunkedHash(a) = ChunkedHash(b)
  BY <1>2, <1>5, HashesAgree DEF ChunkedHash
<1>9. QED
  BY <1>6, <1>7, <1>8 DEF a, b

\* The word counted in round j of the loop.
WordAt(j) == CString(buf, words[j])

\* A key counts the words so far that are equal to it, and there is one for each.
Tallied ==
    /\ \A k \in DOMAIN counts : \E j \in 1..counted : words[j] = k
    /\ \A k, l \in DOMAIN counts : CString(buf, k) = CString(buf, l) => k = l
    /\ \A j \in 1..counted : \E k \in DOMAIN counts : CString(buf, k) = WordAt(j)
    /\ \A k \in DOMAIN counts :
          counts[k] = Cardinality({j \in 1..counted : WordAt(j) = CString(buf, k)})

CInv ==
    /\ counted \in 0..Len(words)
    /\ pc # "done" => counted = 0 /\ stage = "count"
    /\ Tallied

SomeCounted(n, w) == {j \in 1..n : WordAt(j) = w}

LEMMA OneMoreCounted ==
    ASSUME NEW n \in Nat, NEW w
    PROVE  /\ Cardinality(SomeCounted(n, w)) \in Nat
           /\ Cardinality(SomeCounted(n + 1, w))
                = Cardinality(SomeCounted(n, w)) + (IF WordAt(n + 1) = w THEN 1 ELSE 0)
<1> DEFINE S == SomeCounted(n, w)
<1>1. IsFiniteSet(S) /\ Cardinality(S) \in Nat
  <2>1. IsFiniteSet(1..n)
    BY FS_Interval
  <2>2. S \in SUBSET (1..n)
    BY DEF SomeCounted
  <2>3. QED
    BY <2>1, <2>2, FS_Subset, FS_CardinalityType
<1>2. 1..(n + 1) = 1..n \cup {n + 1} /\ n + 1 \notin 1..n
  OBVIOUS
<1>3. CASE WordAt(n + 1) = w
  <2>1. SomeCounted(n + 1, w) = S \cup {n + 1} /\ n + 1 \notin S
    BY <1>2, <1>3 DEF SomeCounted
  <2> HIDE DEF S
  <2>2. QED
    BY <1>1, <1>3, <2>1, FS_AddElement DEF S
<1>4. CASE WordAt(n + 1) # w
  <2>1. SomeCounted(n + 1, w) = S
    BY <1>2, <1>4 DEF SomeCounted
  <2>2. QED
    BY <1>1, <1>4, <2>1
<1>5. QED
  BY <1>3, <1>4

LEMMA CountOne ==
    ASSUME SplitDone, CInv, CountWord
    PROVE  CInv'
<1>1. /\ counted \in Nat /\ counted < Len(words) /\ counted' = counted + 1
      /\ words' = words /\ buf' = buf /\ pc' = pc /\ pc = "done"
      /\ Len(words) \in Nat /\ DOMAIN words = 1..Len(words)
      /\ counted + 1 \in DOMAIN words
      /\ 1..counted \subseteq DOMAIN words
  <2>1. words \in Seq(Nat)
    BY SourceFacts DEF SplitDone
  <2>2. QED
    BY <2>1 DEF CInv, CountWord, vars
<1> DEFINE n == counted
           w == words[n + 1]
           K == Keys(w)
           key == IF K = {} THEN w ELSE CHOOSE k \in K : TRUE
           C == counts
           Old(k) == IF k \in DOMAIN C THEN C[k] ELSE 0
<1>2. counts' = [k \in DOMAIN C \cup {key} |-> Old(k) + (IF k = key THEN 1 ELSE 0)]
  BY DEF CountWord
<1>3. /\ \A k \in DOMAIN C : \E j \in 1..n : words[j] = k
      /\ \A k, l \in DOMAIN C : CString(buf, k) = CString(buf, l) => k = l
      /\ \A j \in 1..n : \E k \in DOMAIN C : CString(buf, k) = WordAt(j)
      /\ \A k \in DOMAIN C : C[k] = Cardinality(SomeCounted(n, CString(buf, k)))
  BY DEF CInv, Tallied, SomeCounted
<1>4. K = {k \in DOMAIN C : CString(buf, k) = CString(buf, w)}
  <2>1. ASSUME NEW k \in DOMAIN C
        PROVE  ChunkedHash(k) = ChunkedHash(w) /\ ChunkedEq(k, w) <=> CString(buf, k) = CString(buf, w)
    <3>1. PICK j \in 1..n : words[j] = k
      BY <1>3
    <3>2. j \in DOMAIN words
      BY <1>1
    <3>3. QED
      BY <1>1, <3>1, <3>2, KeyFinds
  <2>2. QED
    BY <2>1 DEF Keys
<1> HIDE DEF K
<1>5. CString(buf, key) = CString(buf, w) /\ (key \in DOMAIN C \/ key = w)
  BY <1>4
<1>6. ASSUME NEW k \in DOMAIN C, CString(buf, k) = CString(buf, w) PROVE k = key
  <2>1. k \in K
    BY <1>4, <1>6
  <2>2. key \in K
    BY <2>1
  <2>3. key \in DOMAIN C
    BY <1>4, <2>2
  <2>4. QED
    BY <1>3, <1>5, <1>6, <2>3
<1>7. WordAt(n + 1) = CString(buf, w)
  BY DEF WordAt
<1> HIDE DEF key, C
<1>8. DOMAIN counts' = DOMAIN C \cup {key} /\ \A k \in DOMAIN C \cup {key} :
          counts'[k] = Old(k) + (IF k = key THEN 1 ELSE 0)
  BY <1>2
<1>9. ASSUME NEW k \in DOMAIN counts' PROVE \E j \in 1..(n + 1) : words[j] = k
  <2>1. CASE k \in DOMAIN C
    <3>1. PICK j \in 1..n : words[j] = k
      BY <1>3, <2>1
    <3>2. j \in 1..(n + 1)
      BY <1>1
    <3>3. QED
      BY <3>1, <3>2
  <2>2. CASE k = w
    <3>1. n + 1 \in 1..(n + 1)
      BY <1>1
    <3>2. QED
      BY <2>2, <3>1
  <2>3. QED
    BY <1>5, <1>8, <2>1, <2>2
<1>10. ASSUME NEW k \in DOMAIN counts', NEW l \in DOMAIN counts', CString(buf, k) = CString(buf, l)
       PROVE  k = l
  <2>1. CASE k \in DOMAIN C /\ l \in DOMAIN C
    BY <1>3, <1>10, <2>1
  <2>2. CASE k = key
    BY <1>5, <1>6, <1>8, <1>10, <2>2
  <2>3. CASE l = key
    BY <1>5, <1>6, <1>8, <1>10, <2>3
  <2>4. QED
    BY <1>8, <2>1, <2>2, <2>3
<1>11. ASSUME NEW j \in 1..(n + 1) PROVE \E k \in DOMAIN counts' : CString(buf, k) = WordAt(j)
  <2>1. CASE j \in 1..n
    BY <1>3, <1>8, <2>1
  <2>2. CASE j = n + 1
    BY <1>5, <1>7, <1>8, <2>2
  <2>3. QED
    BY <1>1, <2>1, <2>2
<1>12. ASSUME NEW k \in DOMAIN counts'
       PROVE  counts'[k] = Cardinality(SomeCounted(n + 1, CString(buf, k)))
  <2> DEFINE x == CString(buf, k)
  <2>1. /\ Cardinality(SomeCounted(n, x)) \in Nat
        /\ Cardinality(SomeCounted(n + 1, x))
             = Cardinality(SomeCounted(n, x)) + (IF WordAt(n + 1) = x THEN 1 ELSE 0)
    BY <1>1, OneMoreCounted
  <2>2. Old(k) = Cardinality(SomeCounted(n, x))
    <3>1. CASE k \in DOMAIN C
      BY <1>3, <3>1
    <3>2. CASE k \notin DOMAIN C
      <4>1. k = key
        BY <1>8, <3>2
      <4>2. ASSUME NEW j \in 1..n, WordAt(j) = x PROVE FALSE
        <5>1. PICK l \in DOMAIN C : CString(buf, l) = WordAt(j)
          BY <1>3
        <5>2. l = key
          BY <1>5, <1>6, <4>1, <4>2, <5>1
        <5>3. QED
          BY <3>2, <4>1, <5>2
      <4>3. SomeCounted(n, x) = {}
        BY <4>2 DEF SomeCounted
      <4>4. QED
        BY <3>2, <4>3, FS_EmptySet
    <3>3. QED
      BY <3>1, <3>2
  <2>3. k = key <=> WordAt(n + 1) = x
    <3>1. k = key => WordAt(n + 1) = x
      BY <1>5, <1>7
    <3>2. WordAt(n + 1) = x => k = key
      <4>1. k \in DOMAIN C \/ k = key
        BY <1>8
      <4>2. QED
        BY <1>6, <1>7, <4>1
    <3>3. QED
      BY <3>1, <3>2
  <2>4. counts'[k] = Old(k) + (IF k = key THEN 1 ELSE 0)
    BY <1>8
  <2> HIDE DEF x
  <2>5. counts'[k] = Cardinality(SomeCounted(n + 1, x))
    BY <2>1, <2>2, <2>3, <2>4
  <2>6. QED
    BY <2>5 DEF x
<1>13. Tallied'
  <2>1. counted' = n + 1 /\ (\A j : WordAt(j)' = WordAt(j))
    BY <1>1 DEF WordAt
  <2>2. \A k \in DOMAIN counts' : \E j \in 1..counted' : words'[j] = k
    BY <1>1, <1>9, <2>1
  <2>3. \A k, l \in DOMAIN counts' : CString(buf', k) = CString(buf', l) => k = l
    BY <1>1, <1>10
  <2>4. \A j \in 1..counted' : \E k \in DOMAIN counts' : CString(buf', k) = WordAt(j)'
    BY <1>1, <1>11, <2>1
  <2>5. \A k \in DOMAIN counts' :
           counts'[k] = Cardinality({j \in 1..counted' : WordAt(j)' = CString(buf', k)})
    <3> TAKE k \in DOMAIN counts'
    <3>1. {j \in 1..counted' : WordAt(j)' = CString(buf', k)} = SomeCounted(n + 1, CString(buf, k))
      BY <1>1, <2>1 DEF SomeCounted
    <3>2. QED
      BY <1>12, <3>1
  <2>6. QED
    BY <2>2, <2>3, <2>4, <2>5 DEF Tallied
<1>14. counted' \in 0..Len(words') /\ pc' = "done"
  BY <1>1
<1>15. QED
  BY <1>13, <1>14 DEF CInv

-----------------------------------------------------------------------------
(* The result.                                                             *)

\* The places of a word in the list of words are as many as its occurrences.
LEMMA PlacesCounted ==
    ASSUME SplitDone, NEW w
    PROVE  Cardinality({j \in 1..Len(words) : WordAt(j) = w}) = Occurrences(Buffer(input), w)
<1> DEFINE b == Buffer(input)
           m == Len(words)
           A == {j \in 1..m : WordAt(j) = w}
           B == {i \in WordStarts(b) : RunAt(b, i) = w}
           f == [j \in A |-> words[j]]
<1>1. /\ m \in Nat /\ DOMAIN words = 1..m
      /\ {words[k] : k \in 1..m} = WordStarts(b)
      /\ \A j, k \in 1..m : j < k => words[j] < words[k]
      /\ \A k \in 1..m : WordAt(k) = RunAt(b, words[k]) /\ words[k] \in Int
  <2>1. InOrder(words, WordStarts(b)) /\ \A k \in DOMAIN words : CString(buf, words[k]) = RunAt(b, words[k])
    BY WordsFoundAll DEF SplitDone, WordsExact
  <2>2. words \in Seq(Nat)
    BY SourceFacts DEF SplitDone
  <2>3. QED
    BY <2>1, <2>2 DEF InOrder, WordAt
<1>2. \A j, k \in 1..m : words[j] = words[k] => j = k
  BY <1>1
<1> HIDE DEF b
<1>3. f \in Bijection(A, B)
  <2>1. \A k \in A : f[k] \in B
    BY <1>1
  <2>2. \A i \in B : \E k \in A : f[k] = i
    BY <1>1
  <2>3. \A j, k \in A : f[j] = f[k] => j = k
    BY <1>2
  <2>4. f \in [A -> B]
    BY <2>1
  <2> HIDE DEF f, A, B
  <2>5. QED
    BY <2>2, <2>3, <2>4 DEF Bijection, Injection, Surjection, IsInjective
<1>4. IsFiniteSet(A)
  <2>1. IsFiniteSet(1..m) /\ A \in SUBSET (1..m)
    BY <1>1, FS_Interval
  <2>2. QED
    BY <2>1, FS_Subset
<1>5. Cardinality(B) = Cardinality(A)
  <2> HIDE DEF A, B, f
  <2>1. QED
    BY <1>3, <1>4, FS_Bijection DEF ExistsBijection
<1>6. QED
  BY <1>5 DEF Occurrences, b

LEMMA SortResult ==
    ASSUME SplitDone, CInv, SortWords
    PROVE  WordCountsExact'
<1> DEFINE D == DOMAIN counts
           N == Cardinality(D)
           R == Distinct(Buffer(input))
<1>1. /\ counted = Len(words) /\ input' = input
      /\ \E sorted \in SetToSeqs(D) :
                      /\ Sorted(sorted)
                      /\ word_counts' = [k \in DOMAIN sorted |->
                                           [chars |-> CString(buf, sorted[k]), count |-> counts[sorted[k]]]]
  BY DEF SortWords, vars
<1>2. PICK sorted \in SetToSeqs(D) :
          /\ Sorted(sorted)
          /\ word_counts' = [k \in DOMAIN sorted |->
                               [chars |-> CString(buf, sorted[k]), count |-> counts[sorted[k]]]]
  BY <1>1
<1>3. /\ Len(words) \in Nat /\ DOMAIN words = 1..Len(words)
      /\ \A k \in D : \E j \in 1..Len(words) : words[j] = k
      /\ \A k, l \in D : CString(buf, k) = CString(buf, l) => k = l
      /\ \A j \in 1..Len(words) : \E k \in D : CString(buf, k) = WordAt(j)
      /\ \A k \in D : counts[k] = Cardinality({j \in 1..Len(words) : WordAt(j) = CString(buf, k)})
  <2>1. words \in Seq(Nat)
    BY SourceFacts DEF SplitDone
  <2>2. QED
    BY <1>1, <2>1 DEF CInv, Tallied
<1>4. \A k \in D : counts[k] = Occurrences(Buffer(input), CString(buf, k))
  BY <1>3, PlacesCounted
<1>5. R = {CString(buf, k) : k \in D}
  <2>1. /\ {words[k] : k \in 1..Len(words)} = WordStarts(Buffer(input))
        /\ \A k \in 1..Len(words) : WordAt(k) = RunAt(Buffer(input), words[k])
    <3>1. WordsExact
      BY WordsFoundAll DEF SplitDone
    <3>2. QED
      BY <1>3, <3>1 DEF WordsExact, InOrder, SplitDone, WordAt
  <2>2. R = {WordAt(k) : k \in 1..Len(words)}
    BY <2>1 DEF Distinct
  <2>3. \A k \in D : \E j \in 1..Len(words) : WordAt(j) = CString(buf, k)
    BY <1>3 DEF WordAt
  <2>4. QED
    BY <1>3, <2>2, <2>3
<1>6. IsFiniteSet(D) /\ N \in Nat
  <2>1. D \in SUBSET Nat /\ \A k \in D : k <= Len(input)
    <3>1. /\ words \in Seq(Nat) /\ WordStarts(Buffer(input)) \subseteq 0..Len(input)
          /\ Len(input) \in Nat
      BY SourceFacts DEF SplitDone
    <3>2. InOrder(words, WordStarts(Buffer(input)))
      BY WordsFoundAll DEF SplitDone, WordsExact
    <3>3. \A j \in 1..Len(words) : words[j] \in 0..Len(input)
      BY <1>3, <3>1, <3>2 DEF InOrder
    <3>4. QED
      BY <1>3, <3>1, <3>3
  <2>2. Len(input) \in Nat
    BY SourceFacts DEF SplitDone
  <2>3. QED
    BY <2>1, <2>2, FS_BoundedSetOfNaturals, FS_CardinalityType
<1>7. /\ sorted \in [1..N -> D]
      /\ \A i, j \in 1..N : i # j => sorted[i] # sorted[j]
  BY DEF SetToSeqs
<1> DEFINE list == word_counts'
           Text1(k) == CString(buf, k)
           Entry(w) == [chars |-> w, count |-> Occurrences(Buffer(input), w)]
<1>8. DOMAIN sorted = 1..N
  BY <1>7
<1>9. DOMAIN list = 1..N /\ \A k \in 1..N : list[k] = Entry(Text1(sorted[k]))
  <2>1. \A k \in 1..N : sorted[k] \in D
    BY <1>7
  <2>2. QED
    BY <1>2, <1>4, <1>8, <2>1
<1>10. Len(list) = N /\ list = [k \in 1..N |-> list[k]]
  BY <1>2, <1>6, <1>8
<1>11. \A k \in D : \E i \in 1..N : sorted[i] = k
  <2>1. sorted \in Injection(1..N, D)
    BY <1>7 DEF Injection, IsInjective
  <2>2. Cardinality(1..N) = N
    BY <1>6, FS_Interval
  <2>3. sorted \in Surjection(1..N, D)
    BY <1>6, <2>1, <2>2, FS_Injection
  <2>4. QED
    BY <2>3 DEF Surjection
<1>12. Cardinality(R) = N
  <2> DEFINE g == [k \in D |-> Text1(k)]
  <2>1. g \in Bijection(D, R)
    <3>1. \A k \in D : g[k] \in R
      BY <1>5
    <3>2. \A w \in R : \E k \in D : g[k] = w
      BY <1>5
    <3>3. \A k, l \in D : g[k] = g[l] => k = l
      BY <1>3
    <3>4. g \in [D -> R]
      BY <3>1
    <3> HIDE DEF g, D, R
    <3>5. QED
      BY <3>2, <3>3, <3>4 DEF Bijection, Injection, Surjection, IsInjective
  <2> HIDE DEF g, D, R
  <2>2. QED
    BY <1>6, <2>1, FS_Bijection DEF ExistsBijection
<1> HIDE DEF list, Entry
<1>13. {list[k] : k \in DOMAIN list} = {Entry(w) : w \in R}
  <2>1. \A k \in 1..N : Text1(sorted[k]) \in R
    BY <1>5, <1>7
  <2>2. \A w \in R : \E k \in 1..N : Text1(sorted[k]) = w
    BY <1>5, <1>11
  <2>3. QED
    BY <1>9, <2>1, <2>2
<1>14. IsTally(list, Buffer(input))
  BY <1>10, <1>12, <1>13 DEF IsTally, Entry
<1>15. ASSUME NEW i \in 1..N, NEW j \in 1..N, i < j
       PROVE  Text!strcmp_less(list[i].chars, list[j].chars)
  <2> DEFINE a == sorted[i]
             b == sorted[j]
  <2>1. a \in D /\ b \in D /\ a # b /\ ~ByteStrLess(b, a)
    <3>1. i # j
      BY <1>6, <1>15
    <3>2. QED
      BY <1>2, <1>7, <1>8, <1>15, <3>1 DEF Sorted
  <2>2. list[i].chars = Text1(a) /\ list[j].chars = Text1(b)
    BY <1>9 DEF Entry
  <2>3. CString(buf, a) # CString(buf, b)
    BY <1>3, <2>1
  <2>4. PICK p1 \in 1..Len(words) : words[p1] = a
    BY <1>3, <2>1
  <2>5. PICK p2 \in 1..Len(words) : words[p2] = b
    BY <1>3, <2>1
  <2>6. words # << >>
    BY <1>3, <2>4
  <2>7. Ready /\ (\E n : IsWord(a, n)) /\ (\E n : IsWord(b, n))
    BY <1>3, <2>4, <2>5, <2>6, WordsReady
  <2> HIDE DEF a, b
  <2>8. Text!strcmp_less(CString(buf, a), CString(buf, b))
    BY <2>1, <2>3, <2>7, LessIsStrcmp
  <2>9. QED
    BY <2>2, <2>8
<1>16. IsTally(list, Buffer(input')) /\ \A i, j \in DOMAIN list : i < j => Text!strcmp_less(list[i].chars, list[j].chars)
  BY <1>1, <1>9, <1>14, <1>15
<1>17. QED
  BY <1>16 DEF WordCountsExact, list

Exact == IInv /\ WInv /\ CInv /\ WordCountsExact

LEMMA Task1InitHolds == Task1Init => Exact
<1> SUFFICES ASSUME Task1Init PROVE Exact
  OBVIOUS
<1>1. IInv /\ WInv
  BY InitHolds, InitWords DEF Task1Init
<1>2. counted = 0 /\ stage = "count" /\ counts = << >> /\ words = << >>
  BY DEF Task1Init, Init
<1>3. Tallied
  BY <1>2 DEF Tallied
<1>4. CInv
  BY <1>2, <1>3 DEF CInv
<1>5. WordCountsExact
  BY <1>2 DEF WordCountsExact
<1>6. QED
  BY <1>1, <1>4, <1>5 DEF Exact

LEMMA Task1NextHolds == Exact /\ [Task1Next]_<<vars, tally>> => Exact'
<1> SUFFICES ASSUME Exact, [Task1Next]_<<vars, tally>> PROVE Exact'
  OBVIOUS
<1>1. [Next]_vars
  BY DEF Task1Next, Next, CountWord, SortWords, vars
<1>2. IInv' /\ WInv'
  BY <1>1, StepKeeps, WordsKept DEF Exact
<1>3. CASE Step /\ UNCHANGED tally
  <2>1. pc # "done"
    BY <1>3 DEF Step, SkipSeparator, StartWord, SkipChunk, StopInChunk, NoWholeChunk,
                SkipByte, EndWord, Return
  <2>2. /\ counted' = counted /\ counts' = counts /\ stage' = stage
        /\ counted = 0 /\ stage = "count"
    BY <1>3, <2>1 DEF tally, Exact, CInv
  <2>3. 1..0 = {}
    OBVIOUS
  <2>4. Tallied => DOMAIN counts = {}
    BY <2>2, <2>3 DEF Tallied
  <2>5. DOMAIN counts = {}
    BY <2>4 DEF Exact, CInv
  <2>6. Tallied'
    BY <2>2, <2>3, <2>5 DEF Tallied
  <2>7. Len(words') \in Nat
    BY <1>2 DEF IInv, TypeOK
  <2>8. QED
    BY <1>2, <2>2, <2>6, <2>7 DEF Exact, CInv, WordCountsExact
<1>4. CASE CountWord
  <2>1. SplitDone
    BY <1>4 DEF Exact, SplitDone, CountWord
  <2>2. CInv' /\ stage' = "count"
    BY <1>4, <2>1, CountOne DEF Exact, CountWord
  <2>3. QED
    BY <1>2, <2>2 DEF Exact, WordCountsExact
<1>5. CASE SortWords
  <2>1. SplitDone
    BY <1>5 DEF Exact, SplitDone, SortWords
  <2>2. WordCountsExact'
    BY <1>5, <2>1, SortResult DEF Exact
  <2>3. CInv'
    BY <1>5 DEF Exact, CInv, Tallied, WordAt, SortWords, vars
  <2>4. QED
    BY <1>2, <2>2, <2>3 DEF Exact
<1>6. CASE UNCHANGED <<vars, tally>>
  <2>1. CInv' /\ WordCountsExact'
    BY <1>6 DEF Exact, CInv, Tallied, WordAt, WordCountsExact, vars, tally
  <2>2. QED
    BY <1>2, <2>1 DEF Exact
<1>7. QED
  BY <1>3, <1>4, <1>5, <1>6 DEF Task1Next

\* THEOREM.  Sequential task 1 counts every distinct word of the input once, with its
\* number of occurrences, and returns them in the order of strcmp: equal words hash and
\* compare equal wherever they stand, at the end of the buffer or before any other bytes,
\* and unequal words that collide are kept apart by ChunkedEq, for every input, chunk
\* length, number of values of a byte and hash, be it the same for all words.
THEOREM WordsCounted == Task1Spec => []WordCountsExact
<1>1. Exact => WordCountsExact
  BY DEF Exact
<1>2. QED
  BY <1>1, Task1InitHolds, Task1NextHolds, PTL DEF Task1Spec
==============================================================================
