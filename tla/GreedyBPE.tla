------------------------------ MODULE GreedyBPE ------------------------------
(***************************************************************************)
(* What task 2 promises: greedy byte-pair encoding with every count taken  *)
(* afresh from the words.  There are no pairs, lists, groups, queues or    *)
(* threads here; of a word there is where its tokens begin.                *)
(*                                                                         *)
(* A round merges, in every word and from left to right, the pair of       *)
(* adjacent tokens with the highest weighted count; of equal counts the    *)
(* one whose merged text strcmp puts first.  Only a pair that occurs in    *)
(* two distinct words is considered.                                       *)
(***************************************************************************)
EXTENDS Naturals, FiniteSets, BpeText

CONSTANT Corpora

VARIABLES
    splits,     \* the words and their counts
    cuts,       \* for each word the places at which a token begins
    halted

vars == <<splits, cuts, halted>>

TokenAt(p) == TextAt(splits[p[1]].chars, cuts[p[1]], p[2])

Slots == UNION {{w} \X cuts[w] : w \in DOMAIN splits}

\* Each slot as often as its word occurs.
WeightOf(slots) == Cardinality(UNION {{p} \X (1..splits[p[1]].count) : p \in slots})

Places(pair) ==
    UNION {{w} \X PlacesIn(splits[w].chars, cuts[w], pair) : w \in DOMAIN splits}

Weight(pair) == WeightOf(Places(pair))

\* The pairs of adjacent tokens.
Adjacent ==
    {<<TokenAt(p), TokenAt(<<p[1], End(splits[p[1]].chars, cuts[p[1]], p[2])>>)>> :
        p \in {q \in Slots : End(splits[q[1]].chars, cuts[q[1]], q[2]) \in cuts[q[1]]}}

Candidates ==
    {pair \in Adjacent : /\ Cardinality({p[1] : p \in Places(pair)}) >= 2
                        /\ Weight(pair) # 0}

Beats(a, b) ==
    \/ Weight(a) > Weight(b)
    \/ Weight(a) = Weight(b) /\ strcmp_less(Merged(a), Merged(b))

\* The one best candidate: no two pairs ever tie.
Chosen == {c \in Candidates : \A d \in Candidates \ {c} : Beats(c, d)}

Init ==
    /\ splits \in Corpora
    /\ cuts = [w \in DOMAIN splits |-> DOMAIN splits[w].chars]
    /\ halted = FALSE

Merge ==
    /\ ~halted
    /\ \E pair \in Chosen :
         cuts' = [w \in DOMAIN splits |-> MergeWord(splits[w].chars, cuts[w], pair)]
    /\ UNCHANGED <<splits, halted>>

Halt ==
    /\ ~halted
    /\ Candidates = {}
    /\ halted' = TRUE
    /\ UNCHANGED <<splits, cuts>>

Next == Merge \/ Halt

Spec == Init /\ [][Next]_vars

-----------------------------------------------------------------------------
(* The result once halted: every text in use with its weighted count.      *)

Occurring == {TokenAt(p) : p \in Slots}

TextCount(text) == WeightOf({p \in Slots : TokenAt(p) = text})

Counted == {[text |-> t, count |-> TextCount(t)] : t \in {u \in Occurring : TextCount(u) # 0}}

\* What the reported list has to be: by falling count, then by text.
IsResult(list) ==
    /\ {list[i] : i \in DOMAIN list} = Counted
    /\ Len(list) = Cardinality(Counted)
    /\ \A i, j \in DOMAIN list : i < j =>
          \/ list[i].count > list[j].count
          \/ list[i].count = list[j].count /\ strcmp_less(list[i].text, list[j].text)
=============================================================================
