----------------------------- MODULE OneOfEach ------------------------------
(***************************************************************************)
(* What the search for duplicates promises, with no list and no order:     *)
(* files are set aside one at a time, each beaten by a file still kept     *)
(* that is like it, until no two of the files kept are alike.              *)
(***************************************************************************)
CONSTANT File

VARIABLES
    like,    \* pairs of files that are alike; never changes
    kept,    \* the files not set aside
    beaten   \* pairs <<loser, winner>>

vars == <<like, kept, beaten>>

Init ==
    /\ like \in SUBSET (File \X File)
    /\ kept = File
    /\ beaten = {}

Beat(loser, winner) ==
    /\ loser # winner
    /\ {loser, winner} \subseteq kept
    /\ <<loser, winner>> \in like \/ <<winner, loser>> \in like
    /\ kept' = kept \ {loser}
    /\ beaten' = beaten \cup {<<loser, winner>>}
    /\ UNCHANGED like

Next == \E loser, winner \in File : Beat(loser, winner)

Spec == Init /\ [][Next]_vars /\ WF_vars(Next)

-----------------------------------------------------------------------------
\* No two kept files are alike.
Settled == \A x, y \in kept : x # y => <<x, y>> \notin like

=============================================================================
