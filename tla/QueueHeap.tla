------------------------------ MODULE QueueHeap ------------------------------
(***************************************************************************)
(* queue_heap: the heap of four children per node that task2.cpp and its   *)
(* parallel versions keep their queue entries in.  push and pop each start *)
(* a sift, of which every iteration is a step; the next call comes when    *)
(* the sift has ended.  Offsets start at 0 as in the code.                 *)
(***************************************************************************)
EXTENDS Integers, Sequences, FiniteSets, Bags

CONSTANTS
    Entries,      \* what can be pushed
    comp(_, _),   \* queue_compare: the left entry comes out after the right
    Capacity      \* bound on the entries held, to keep the states finite

\* queue_compare is a strict weak order.
ASSUME OrderAssumption ==
    /\ \A e \in Entries : ~comp(e, e)
    /\ \A e, f, g \in Entries : comp(e, f) /\ comp(f, g) => comp(e, g)
    /\ \A e, f, g \in Entries : ~comp(e, f) /\ ~comp(f, g) => ~comp(e, g)
ASSUME CapacityAssumption == Capacity \in Nat

VARIABLES data, pc, i

vars == <<data, pc, i>>

size == Len(data)

At(k) == data[k + 1]

top == At(0)

\* Mutant: the offset of a heap that starts at 1.
parent_FromOne(k) == k \div 4

parent(k) == (k - 1) \div 4

first_child(k) == 4 * k + 1

Children(k) == {c \in first_child(k)..(first_child(k) + 3) : c < size}

Swapped(j, k) == [data EXCEPT ![j + 1] = At(k), ![k + 1] = At(j)]

\* Mutant: the last child is never looked at.
Best_NotLast(k) ==
    CHOOSE c \in Children(k) :
        \A d \in Children(k) \ {first_child(k) + 3} :
            ~comp(At(c), At(d)) /\ (d < c => comp(At(d), At(c)))

\* The first of the children that no other beats.
Best(k) ==
    CHOOSE c \in Children(k) :
        \A d \in Children(k) : ~comp(At(c), At(d)) /\ (d < c => comp(At(d), At(c)))

-----------------------------------------------------------------------------
Init == data = << >> /\ pc = "idle" /\ i = 0

push(entry) ==
    /\ pc = "idle"
    /\ size < Capacity
    /\ data' = Append(data, entry)
    /\ pc' = "sift_up"
    /\ i' = size

SiftUp ==
    /\ pc = "sift_up"
    /\ i > 0
    /\ comp(At(parent(i)), At(i))
    /\ data' = Swapped(parent(i), i)
    /\ i' = parent(i)
    /\ UNCHANGED pc

EndSiftUp ==
    /\ pc = "sift_up"
    /\ i > 0 => ~comp(At(parent(i)), At(i))
    /\ pc' = "idle"
    /\ i' = 0
    /\ UNCHANGED data

\* Mutant: sifts an emptied heap too.
pop_KeepsSifting ==
    /\ pc = "idle"
    /\ data # << >>
    /\ data' = [k \in 1..(size - 1) |-> IF k = 1 THEN data[size] ELSE data[k]]
    /\ pc' = "sift_down"
    /\ i' = 0

\* The last entry takes the place of the top.
pop ==
    /\ pc = "idle"
    /\ data # << >>
    /\ data' = [k \in 1..(size - 1) |-> IF k = 1 THEN data[size] ELSE data[k]]
    /\ pc' = IF size = 1 THEN "idle" ELSE "sift_down"
    /\ i' = 0

SiftDown ==
    /\ pc = "sift_down"
    /\ Children(i) # {}
    /\ comp(At(i), At(Best(i)))
    /\ data' = Swapped(i, Best(i))
    /\ i' = Best(i)
    /\ UNCHANGED pc

EndSiftDown ==
    /\ pc = "sift_down"
    /\ Children(i) # {} => ~comp(At(i), At(Best(i)))
    /\ pc' = "idle"
    /\ i' = 0
    /\ UNCHANGED data

Next ==
    \/ \E entry \in Entries : push(entry)
    \/ pop
    \/ SiftUp \/ EndSiftUp \/ SiftDown \/ EndSiftDown

Spec == Init /\ [][Next]_vars

-----------------------------------------------------------------------------
Offsets == 0..(size - 1)

\* Type invariant.
TypeOK ==
    /\ data \in Seq(Entries)
    /\ pc \in {"idle", "sift_up", "sift_down"}
    /\ i \in Nat
    /\ pc # "idle" => i \in Offsets

InOrder(j, k) == ~comp(At(j), At(k))

\* Every node but the one that moves is in order with its parent; the children of
\* the one that moves are in order with its parent, so that a swap puts right
\* what it touches.
SiftOrder ==
    /\ \A k \in Offsets \ {0} :
          \/ InOrder(parent(k), k)
          \/ pc = "sift_up" /\ k = i
          \/ pc = "sift_down" /\ parent(k) = i
    /\ pc # "idle" /\ i > 0 => \A c \in Children(i) : InOrder(parent(i), c)

Content ==
    [e \in {data[k] : k \in DOMAIN data} |-> Cardinality({k \in DOMAIN data : data[k] = e})]

Abstract == INSTANCE PriorityQueue WITH content <- Content

\* PROPERTY.  The heap is a priority queue: no entry is lost or doubled by a sift,
\* and pop takes an entry that no other beats.
ImplementsPriorityQueue == Abstract!Spec
=============================================================================
