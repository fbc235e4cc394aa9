-------------------------------- MODULE Task1 --------------------------------
(***************************************************************************)
(* The sequential reference of task 1: split_words, then task1, which      *)
(* counts the words in a hash table whose keys are pointers to them.       *)
(*                                                                         *)
(* Hash and equality read a chunk at a time and must agree for equal words *)
(* wherever these stand: behind a word's NUL are other words, separators   *)
(* that were never overwritten, or the end of the buffer, before which     *)
(* both go over to single bytes.  Unequal words may collide: what the 64   *)
(* bits keep of the values mixed in is left open (Folded), and then the    *)
(* equality alone keeps the words apart.                                   *)
(***************************************************************************)
EXTENDS SplitWords

CONSTANT Folded(_)   \* what the exclusive ors and multiplications make of the mixed values

VARIABLES
    stage,         \* "count" while split_words and the counting loop run
    counted,       \* words counted so far
    counts,        \* the hash table: key (an offset) -> count
    word_counts    \* the result: sequence of [chars, count]

tally == <<stage, counted, counts, word_counts>>

\* One past the NUL of the last word.
stop == LET last == words[Len(words)] IN last + Len(CString(buf, last)) + 1

haszero(word) == hasless_any(word, 1)

\* Mutant: the bytes behind the NUL are hashed too.
MaskedHash_No(word, n) == word

\* c & ((1 << 8n) - 1): the lowest n bytes.
MaskedHash(word, n) == word % Power[n]

\* The values that ChunkedHash mixes in, from the word at s on.
Mixed(s) ==
    LET mixed[i \in 0..(stop - 1)] ==
          LET c == Packed(i, ChunkBytes)
              n == Len(CString(buf, i))
              z == haszero(c)
          IN  IF i + ChunkBytes > stop THEN <<MaskedHash(Packed(i, n), n), n + 1>>
              ELSE IF z # {} THEN <<MaskedHash(c, FirstHit(z)), FirstHit(z) + 1>>
              ELSE <<c>> \o mixed[i + ChunkBytes]
    IN  mixed[s]

ChunkedHash(s) == Folded(Mixed(s))

\* Mutant: the mask of ChunkedHash, which leaves out the byte at the NUL.
SameLowBytes_OneShort(ca, cb, n) == MaskedHash(ca, n - 1) = MaskedHash(cb, n - 1)

\* ((ca ^ cb) & mask) == 0, for the mask of the lowest n bytes.
SameLowBytes(ca, cb, n) == MaskedHash(ca, n) = MaskedHash(cb, n)

ChunkedEq(a, b) ==
    LET equal[d \in 0..stop] ==
          LET ca == Packed(a + d, ChunkBytes)
              cb == Packed(b + d, ChunkBytes)
              z  == haszero(ca) \cup haszero(cb)
          IN  IF a + d + ChunkBytes > stop \/ b + d + ChunkBytes > stop
              THEN CString(buf, a + d) = CString(buf, b + d)
              ELSE IF z # {} THEN SameLowBytes(ca, cb, FirstHit(z) + 1)
              ELSE ca = cb /\ equal[d + ChunkBytes]
    IN  a = b \/ equal[0]

\* The first byte at which the words differ, or their common NUL, decides.
ByteStrLess(a, b) ==
    LET Ends(i) == buf[a + i] = 0 \/ buf[a + i] # buf[b + i]
        i       == CHOOSE k \in 0..stop : Ends(k) /\ \A j \in 0..(k - 1) : ~Ends(j)
    IN  buf[a + i] < buf[b + i]

\* What std::sort leaves: keys that tie may be in any order.
Sorted(list) == \A i, j \in DOMAIN list : i < j => ~ByteStrLess(list[j], list[i])

-----------------------------------------------------------------------------
Task1Init ==
    /\ Init
    /\ stage = "count"
    /\ counted = 0
    /\ counts = << >>
    /\ word_counts = << >>

\* The keys that the table takes for the word at w.
Keys(w) == {k \in DOMAIN counts : ChunkedHash(k) = ChunkedHash(w) /\ ChunkedEq(k, w)}

CountWord ==
    /\ pc = "done" /\ stage = "count"
    /\ counted < Len(words)
    /\ counted' = counted + 1
    /\ LET w   == words[counted + 1]
           key == IF Keys(w) = {} THEN w ELSE CHOOSE k \in Keys(w) : TRUE
       IN  counts' = [k \in DOMAIN counts \cup {key} |->
                        (IF k \in DOMAIN counts THEN counts[k] ELSE 0) + (IF k = key THEN 1 ELSE 0)]
    /\ UNCHANGED <<vars, stage, word_counts>>

SortWords ==
    /\ pc = "done" /\ stage = "count"
    /\ counted = Len(words)
    /\ \E sorted \in SetToSeqs(DOMAIN counts) :
         /\ Sorted(sorted)
         /\ word_counts' = [k \in DOMAIN sorted |->
                              [chars |-> CString(buf, sorted[k]), count |-> counts[sorted[k]]]]
    /\ stage' = "done"
    /\ UNCHANGED <<vars, counted, counts>>

Task1Next ==
    \/ Step /\ UNCHANGED tally
    \/ CountWord
    \/ SortWords
    \/ stage = "done" /\ UNCHANGED <<vars, tally>>

Task1Spec == Task1Init /\ [][Task1Next]_<<vars, tally>>

-----------------------------------------------------------------------------
Text == INSTANCE BpeText WITH FingerprintBytes <- ChunkBytes

\* PROPERTY.  Words that are equal share an entry and others do not, wherever they
\* stand in the buffer and also if they collide: the result is the tally of the
\* input's words, in the order of strcmp.
WordCountsExact ==
    stage = "done" =>
        /\ IsTally(word_counts, Buffer(input))
        /\ \A i, j \in DOMAIN word_counts :
              i < j => Text!strcmp_less(word_counts[i].chars, word_counts[j].chars)
=============================================================================
