------------------------------- MODULE MCHeap -------------------------------
(* Memory maps of up to three ranges in an address space whose low word     *)
(* counts eight pages.                                                      *)
EXTENDS Heap

Range32(b, l, t) == [baseL |-> b, baseH |-> 0, lengthL |-> l, lengthH |-> 0, type |-> t]

\* Disjoint ranges, in order, all of them below 4 GiB: any lengths, any types.
MCMaps32 == {<<Range32(0, l1, t1), Range32(l1, l2, t2), Range32(l1 + l2, l3, t3)>> :
               l1 \in 0..2, l2 \in 1..3, l3 \in 0..2, t1 \in 1..2, t2 \in 1..2, t3 \in 1..2}
            \cup {<<>>}

\* A machine with memory above 4 GiB as well: three usable pages below and
\* nine above, of which the low word shows one.
MCMaps64 == {<<Range32(0, 1, 1), Range32(2, 3, 1),
               [baseL |-> 0, baseH |-> 1, lengthL |-> l, lengthH |-> h, type |-> 1]>> :
               l \in {1, 4}, h \in 0..1}
=============================================================================
