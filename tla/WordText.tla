------------------------------- MODULE WordText -------------------------------
(***************************************************************************)
(* What a word of the input is, for split_words (corpus.cpp) and for       *)
(* parallel_split_words (parallel.cpp).                                    *)
(*                                                                         *)
(* A buffer is a function from offsets 0..n-1 to bytes, the std::vector of *)
(* the code.  A Word of the code is a pointer into it, here the offset.    *)
(***************************************************************************)
EXTENDS Integers, FiniteSets, SequencesExt

CONSTANT Separators   \* 0x20, 0x09, 0x0A, 0x0D and 0x00 in the code

ASSUME SeparatorAssumption == 0 \in Separators /\ Separators \subseteq Nat

is_separator(b) == b \in Separators

\* input.push_back(0): every word ends before the end of the buffer.
Buffer(input) ==
    [i \in 0..Len(input) |-> IF i < Len(input) THEN input[i + 1] ELSE 0]

\* The bytes from offset i to the first that is in Stops.
Until(buf, i, Stops) ==
    LET stop == CHOOSE j \in DOMAIN buf :
                   j >= i /\ buf[j] \in Stops /\ \A k \in i..(j - 1) : buf[k] \notin Stops
    IN  [k \in 1..(stop - i) |-> buf[i + k - 1]]

\* What a Word denotes to strlen and to string_view.
CString(buf, i) == Until(buf, i, {0})

-----------------------------------------------------------------------------
(* Reference: the words of an input are its maximal runs of bytes that are *)
(* no separators.                                                          *)

WordStarts(buf) ==
    {i \in DOMAIN buf : ~is_separator(buf[i]) /\ (i = 0 \/ is_separator(buf[i - 1]))}

RunAt(buf, i) == Until(buf, i, Separators)

\* The list holds each member of S once, and smaller ones first.
InOrder(list, S) ==
    /\ {list[k] : k \in DOMAIN list} = S
    /\ \A j, k \in DOMAIN list : j < k => list[j] < list[k]

Occurrences(buf, w) == Cardinality({i \in WordStarts(buf) : RunAt(buf, i) = w})

Distinct(buf) == {RunAt(buf, i) : i \in WordStarts(buf)}

\* The list holds every word of the buffer once, with its number of occurrences,
\* and nothing else.
IsTally(list, buf) ==
    /\ Len(list) = Cardinality(Distinct(buf))
    /\ {list[k] : k \in DOMAIN list} = {[chars |-> w, count |-> Occurrences(buf, w)] : w \in Distinct(buf)}
=============================================================================
