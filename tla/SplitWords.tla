------------------------------ MODULE SplitWords ------------------------------
(***************************************************************************)
(* split_words of corpus.cpp: the words of the input in one pass, a chunk  *)
(* of bytes at a time where it can.                                        *)
(*                                                                         *)
(* A chunk is read into an integer, least significant byte first, and      *)
(* hasless_any marks in one subtraction the bytes below `limit'.  A borrow *)
(* that leaves a byte below the limit can mark bytes above it that are     *)
(* not; the code relies on the lowest mark being right.  The values of a   *)
(* byte and the bytes of a chunk are parameters, 256 and 8 in the code.    *)
(***************************************************************************)
EXTENDS WordText

CONSTANTS
    Inputs,       \* the inputs: sequences of bytes
    Base,         \* values of a byte
    ChunkBytes,   \* bytes of a chunk
    limit         \* 0x21 in the code: separators are below it

ASSUME WidthAssumption ==
    /\ Base \in Nat
    /\ ChunkBytes \in Nat \ {0}
    /\ limit \in 1..(Base \div 2)
    /\ Separators \subseteq 0..(limit - 1)
ASSUME InputAssumption == Inputs \subseteq Seq(0..(Base - 1))

VARIABLES input, buf, p, words, pc

vars == <<input, buf, p, words, pc>>

end == Len(input) + 1

-----------------------------------------------------------------------------
(* SWAR: bytes within an integer.                                          *)

Power[k \in 0..ChunkBytes] == IF k = 0 THEN 1 ELSE Base * Power[k - 1]

ByteOf(word, k) == (word \div Power[k]) % Base

\* The integer with the bytes digits[0], ..., digits[k - 1], the lowest first.
Number(digits, k) ==
    LET from[m \in 0..k] == IF m = k THEN 0 ELSE digits[m] + Base * from[m + 1]
    IN  from[0]

\* memcpy of the k bytes at offset i into an integer.
Packed(i, k) == Number([j \in 0..(k - 1) |-> buf[i + j]], k)

chunk == Packed(p, ChunkBytes)

\* ~0 / 255: the integer with every byte 1.
ones == Number([j \in 0..(ChunkBytes - 1) |-> 1], ChunkBytes)

TopBitSet(b) == b >= Base \div 2

\* The bytes whose top bit is set in (word - ones * bound) & ~word, by offset.
hasless_any(word, bound) ==
    LET less == (word - ones * bound) % Power[ChunkBytes]
    IN  {k \in 0..(ChunkBytes - 1) : TopBitSet(ByteOf(less, k)) /\ ~TopBitSet(ByteOf(word, k))}

\* Mutants: counts leading zeros, as on a machine with the other byte order; the
\* byte behind the hit.
FirstHit_Leading(hits) == CHOOSE k \in hits : \A j \in hits : j <= k
FirstHit_Past(hits) == 1 + CHOOSE k \in hits : \A j \in hits : k <= j

\* __builtin_ctzll(hits) >> 3.
FirstHit(hits) == CHOOSE k \in hits : \A j \in hits : k <= j

-----------------------------------------------------------------------------
Init ==
    /\ input \in Inputs
    /\ buf = Buffer(input)
    /\ p = 0
    /\ words = << >>
    /\ pc = "between"

SkipSeparator ==
    /\ pc = "between"
    /\ p < end
    /\ is_separator(buf[p])
    /\ p' = p + 1
    /\ UNCHANGED <<input, buf, words, pc>>

StartWord ==
    /\ pc = "between"
    /\ p < end
    /\ ~is_separator(buf[p])
    /\ words' = Append(words, p)
    /\ pc' = "chunks"
    /\ UNCHANGED <<input, buf, p>>

SkipChunk ==
    /\ pc = "chunks"
    /\ p + ChunkBytes <= end
    /\ hasless_any(chunk, limit) = {}
    /\ p' = p + ChunkBytes
    /\ UNCHANGED <<input, buf, words, pc>>

StopInChunk ==
    /\ pc = "chunks"
    /\ p + ChunkBytes <= end
    /\ hasless_any(chunk, limit) # {}
    /\ p' = p + FirstHit(hasless_any(chunk, limit))
    /\ pc' = "bytes"
    /\ UNCHANGED <<input, buf, words>>

NoWholeChunk ==
    /\ pc = "chunks"
    /\ p + ChunkBytes > end
    /\ pc' = "bytes"
    /\ UNCHANGED <<input, buf, p, words>>

SkipByte ==
    /\ pc = "bytes"
    /\ p < end
    /\ ~is_separator(buf[p])
    /\ p' = p + 1
    /\ UNCHANGED <<input, buf, words, pc>>

\* Mutant: the separator behind the word is left as it is.
EndWord_KeepsSeparator ==
    /\ pc = "bytes"
    /\ p < end => is_separator(buf[p])
    /\ p' = p + 1
    /\ pc' = "between"
    /\ UNCHANGED <<input, buf, words>>

EndWord ==
    /\ pc = "bytes"
    /\ p < end => is_separator(buf[p])
    /\ buf' = [buf EXCEPT ![p] = 0]
    /\ p' = p + 1
    /\ pc' = "between"
    /\ UNCHANGED <<input, words>>

Return ==
    /\ pc = "between"
    /\ p >= end
    /\ pc' = "done"
    /\ UNCHANGED <<input, buf, p, words>>

Terminated == pc = "done" /\ UNCHANGED vars

Step ==
    \/ SkipSeparator \/ StartWord
    \/ SkipChunk \/ StopInChunk \/ NoWholeChunk
    \/ SkipByte \/ EndWord \/ Return

Next == Step \/ Terminated

Spec == Init /\ [][Next]_vars

-----------------------------------------------------------------------------
InWord == pc \in {"chunks", "bytes"}

\* Type invariant.  The cursor never leaves the buffer while a word is open, so
\* that the terminating NUL is always written inside it.
TypeOK ==
    /\ input \in Inputs
    /\ buf \in [0..Len(input) -> 0..(Base - 1)]
    /\ p \in 0..end
    /\ words \in Seq(0..Len(input))
    /\ pc \in {"between", "chunks", "bytes", "done"}
    /\ InWord => p < end

\* The chunked scan skips no separator: from the start of the open word to the
\* cursor there is none, whatever borrows the subtraction produced.
NoSeparatorSkipped ==
    InWord => \A i \in words[Len(words)]..(p - 1) : ~is_separator(Buffer(input)[i])

\* The words returned are the maximal runs of the input in order, and each is a
\* C string of its own in the buffer: its bytes, then the NUL written behind it.
WordsExact ==
    pc = "done" =>
        /\ InOrder(words, WordStarts(Buffer(input)))
        /\ \A k \in DOMAIN words : CString(buf, words[k]) = RunAt(Buffer(input), words[k])
=============================================================================
