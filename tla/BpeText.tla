------------------------------ MODULE BpeText ------------------------------
(***************************************************************************)
(* The texts of tokens, the order the tokenizer breaks ties by, and words  *)
(* cut into tokens.                                                        *)
(*                                                                         *)
(* A text is a sequence of bytes 1..byte_max: build_state refuses a NUL    *)
(* byte, so a text is a C string and strcmp sees all of it.  The code      *)
(* orders two equally frequent pairs in two stages: by an eight-byte       *)
(* big-endian prefix of the merged text packed into a u64, and only when   *)
(* these are equal by strcmp on the concatenated texts.                    *)
(***************************************************************************)
EXTENDS Naturals, Sequences

CONSTANT FingerprintBytes   \* bytes of text a fingerprint holds (8 in the code)

ASSUME FingerprintAssumption == FingerprintBytes \in Nat

Text == Seq(Nat \ {0})

\* The i-th byte of text.c_str(), which is NUL beyond the last character.
ByteAt(text, i) == IF i <= Len(text) THEN text[i] ELSE 0

\* strcmp(s, t) < 0: the first byte at which the two differ is smaller in s.
strcmp_less(s, t) ==
    \E i \in 1..Len(t) : /\ ByteAt(s, i) < ByteAt(t, i)
                         /\ \A j \in 1..(i - 1) : ByteAt(s, j) = ByteAt(t, j)

\* The bytes text_fingerprint packs, most significant first, zero padded.
\* Comparing two packed u64 values is comparing these byte by byte.
text_fingerprint(left, right) ==
    [i \in 1..FingerprintBytes |-> ByteAt(left \o right, i)]

fingerprint_less(f, g) ==
    \E i \in 1..FingerprintBytes : /\ f[i] < g[i]
                                   /\ \A j \in 1..(i - 1) : f[j] = g[j]

\* Mutant: equal fingerprints are taken for equal texts.
RanksBelow_FingerprintOnly(a, b) ==
    fingerprint_less(text_fingerprint(b[1], b[2]), text_fingerprint(a[1], a[2]))

\* queue_compare for two pairs of equal count, each given by the texts of its
\* left and right token: TRUE when the first ranks below the second.
RanksBelow(a, b) ==
    LET f == text_fingerprint(a[1], a[2])
        g == text_fingerprint(b[1], b[2])
    IN  IF f # g THEN fingerprint_less(g, f)
                 ELSE strcmp_less(b[1] \o b[2], a[1] \o a[2])

-----------------------------------------------------------------------------
(* A word cut into tokens.  Its cut is the set of the places at which a    *)
(* token begins; a token ends where the next one begins or the word ends.  *)

End(chars, cut, i) ==
    CHOOSE j \in (i + 1)..(Len(chars) + 1) :
        /\ j \in cut \/ j = Len(chars) + 1
        /\ \A k \in (i + 1)..(j - 1) : k \notin cut

TextAt(chars, cut, i) == SubSeq(chars, i, End(chars, cut, i) - 1)

\* Overlapping occurrences count: (a, a) occurs twice in a a a.
PlacesIn(chars, cut, pair) ==
    {i \in cut : /\ TextAt(chars, cut, i) = pair[1]
                 /\ End(chars, cut, i) \in cut
                 /\ TextAt(chars, cut, End(chars, cut, i)) = pair[2]}

Merged(pair) == pair[1] \o pair[2]

\* Left to right: an occurrence is merged unless the one that overlaps it on
\* its left is.
Taken(chars, cut, pair) ==
    CHOOSE taken \in SUBSET PlacesIn(chars, cut, pair) :
        \A i \in PlacesIn(chars, cut, pair) :
            i \in taken <=> \A j \in taken : End(chars, cut, j) # i

\* Two tokens become one: the cut between them goes.
MergeWord(chars, cut, pair) ==
    cut \ {End(chars, cut, i) : i \in Taken(chars, cut, pair)}
=============================================================================
