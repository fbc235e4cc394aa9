---------------------------- MODULE PriorityQueue ----------------------------
(***************************************************************************)
(* What the merge loop expects of queue_heap: a bag of entries of which    *)
(* only one that no other beats may be taken.  comp(l, r) says that l      *)
(* comes out after r, as queue_compare does.                               *)
(***************************************************************************)
EXTENDS Bags

CONSTANTS Entries, comp(_, _)

VARIABLE content

Highest == {e \in BagToSet(content) : \A f \in BagToSet(content) : ~comp(e, f)}

Init == content = EmptyBag

Insert == \E e \in Entries : content' = content (+) SetToBag({e})

Take == \E e \in Highest : content' = content (-) SetToBag({e})

Next == Insert \/ Take

Spec == Init /\ [][Next]_content
=============================================================================
