----------------------------- MODULE MCMvpTree ------------------------------
(***************************************************************************)
(* Instances of MvpTree.  Places are the crossings of a grid of streets,   *)
(* four by three, and one place the distance function cannot measure.      *)
(***************************************************************************)
EXTENDS MvpTree

Nowhere == -1
MCPlace == {Nowhere} \cup (0..11)

Gap(x, y) == IF x < y THEN y - x ELSE x - y
MCDist ==
    [p, q \in MCPlace |->
        IF Nowhere \in {p, q} THEN -1
        ELSE Gap(p % 4, q % 4) + Gap(p \div 4, q \div 4)]

\* All orders of a few places, with repetitions; walks over the grid, long
\* enough to split a child; one supply with a batch that falls in one cell.
Short == [1..6 -> {Nowhere, 0, 3, 6}]
Walks == {[i \in 1..13 |-> (a * i * i + b * i + c) % 12] :
              a \in 0..2, b \in {1, 3, 5, 7}, c \in 0..3}
MCSupplies == Short \cup Walks
=============================================================================
