------------------------------ MODULE MvpTree -------------------------------
(***************************************************************************)
(* The multi-vantage-point tree (pHash/mvptree.cpp): datapoints are added  *)
(* in batches, the tree is written to a file and read back, and a search   *)
(* finds the points within a radius of a target.                           *)
(*                                                                         *)
(* A node is a leaf, which holds two vantage points and up to leafcap      *)
(* others with their distances to both, or is internal, where the other    *)
(* points are parted by their distance to sv1 and each part by the         *)
(* distance to sv2.  Each point carries its path: its distances to the     *)
(* vantage points passed on the way down.                                  *)
(*                                                                         *)
(* Error codes other than MVP_SUCCESS are one.  A call that reads outside  *)
(* an array, or hands NULL to the distance function, crashes.              *)
(***************************************************************************)
EXTENDS Integers, SequencesExt

CONSTANTS
    Place,          \* where a datapoint can lie
    Dist,           \* the distance function; negative stands for NaN too
    branchfactor, pathlength, leafcap,
    Supplies,       \* sequences of places: the points to be added, in order
    Batches         \* how many points a call of mvptree_add may be given

Good == {p \in Place : Dist[p, p] >= 0}

\* A metric, but for places the function cannot measure.
ASSUME MetricAssumption ==
    /\ Dist \in [Place \X Place -> Int]
    /\ \A p, q \in Place : Dist[p, q] < 0 <=> {p, q} \cap Good # {p, q}
    /\ \A p, q, s \in Good :
           /\ Dist[p, q] = 0 <=> p = q
           /\ Dist[p, q] = Dist[q, p]
           /\ Dist[p, s] <= Dist[p, q] + Dist[q, s]

\* create_internal makes room for branchfactor pivots of the second tier, and
\* branchfactor * (branchfactor - 1) are used.
ASSUME ShapeAssumption ==
    /\ branchfactor = 2
    /\ {pathlength, leafcap} \subseteq Nat

VARIABLES
    supply,   \* the places of the points, in the order they are added
    taken,    \* how many points have been added, by calls that returned
    node,     \* tree->node
    ok,       \* the last call returned MVP_SUCCESS
    crashed

vars == <<supply, taken, node, ok, crashed>>

-----------------------------------------------------------------------------
NULL == [type |-> "NULL"]

Bins == 0..(branchfactor - 1)
Cell == Bins \X Bins
\* Child nodes are visited by first-tier bin, then by second-tier bin.
Cells == [c \in 1..(branchfactor * branchfactor) |->
             <<(c - 1) \div branchfactor, (c - 1) % branchfactor>>]

\* A datapoint as mvptree_add gets it, its path allocated and zeroed.
Point(id) ==
    [id |-> id, at |-> supply[id], path |-> [l \in 0..(pathlength - 1) |-> 0]]

D(x, y) == Dist[x.at, y.at]

Unmeasurable(pts) == \E x, y \in Range(pts) : D(x, y) < 0

\* find_distance_range_for_vp, where all distances are good.
WithDistance(pts, vp, lvl) ==
    [i \in DOMAIN pts |->
        IF lvl < pathlength THEN [pts[i] EXCEPT !.path[lvl] = D(vp, pts[i])]
                            ELSE pts[i]]

\* The first two points at the greatest distance; the second is 0 when all
\* points lie in one place.
SelectVantagePoints(pts) ==
    LET pairs == {p \in (1..Len(pts)) \X (1..Len(pts)) : p[1] < p[2]}
        d(p) == D(pts[p[1]], pts[p[2]])
        farthest == {p \in pairs : d(p) > 0 /\ \A q \in pairs : d(q) <= d(p)}
    IN IF farthest = {} THEN <<1, 0>>
       ELSE CHOOSE p \in farthest : \A q \in farthest :
                p[1] < q[1] \/ (p[1] = q[1] /\ p[2] <= q[2])

\* Mutant of Others: the second vantage point is binned with the rest.
OthersThanSv1(pts, sv) == SelectSeq(pts, LAMBDA x : x # pts[sv[1]])

Others(pts, sv) ==
    SelectSeq(pts, LAMBDA x : \A v \in Range(sv) \ {0} : x # pts[v])

\* find_splits: the pivots cut the sorted distances to vp evenly.
FindSplits(pts, vp) ==
    LET dist == SortSeq([i \in DOMAIN pts |-> D(pts[i], vp)], <)
    IN [k \in 1..(branchfactor - 1) |-> dist[(k * Len(pts)) \div branchfactor + 1]]

\* The bin of a point at distance d: that of the first pivot not less than d.
BinOf(d, pivots) == Cardinality({k \in DOMAIN pivots : d > pivots[k]})

\* sort_points
SortPoints(pts, vp, pivots, bin) ==
    SelectSeq(pts, LAMBDA x : BinOf(D(vp, x), pivots) = bin)

-----------------------------------------------------------------------------
(* _mvptree_add.  An outcome is the node returned, whether the shared error *)
(* is still MVP_SUCCESS, and whether the call crashed.                      *)

Outcome(n, good) == [node |-> n, ok |-> good, crashed |-> FALSE]
Failed == Outcome(NULL, FALSE)
Crash == [node |-> NULL, ok |-> FALSE, crashed |-> TRUE]

Entry(x, sv1, sv2) == [dp |-> x, d1 |-> D(x, sv1), d2 |-> D(x, sv2)]

Leaf(sv1, sv2, points) ==
    [type |-> "LEAF", sv1 |-> sv1, sv2 |-> sv2, points |-> points]

\* With one place only there is no sv2, and further points are measured
\* against NULL.
CreateLeaf(pts, lvl, good) ==
    LET sv == SelectVantagePoints(pts)
        with1 == WithDistance(pts, pts[sv[1]], lvl)
        with2 == IF sv[2] = 0 THEN with1
                 ELSE WithDistance(with1, pts[sv[2]], lvl + 1)
        rest == Others(with2, sv)
    IN IF sv[2] = 0
       THEN IF rest = <<>> THEN Outcome(Leaf(with2[1], NULL, <<>>), good) ELSE Crash
       ELSE Outcome(Leaf(with2[sv[1]], with2[sv[2]],
                         [i \in DOMAIN rest |->
                             Entry(rest[i], with2[sv[1]], with2[sv[2]])]), good)

RECURSIVE Create(_, _, _)

\* A first-tier bin with no points ends the creation, and what was made of
\* the bins before it is dropped.  What becomes of the children is not asked.
CreateInternal(pts, lvl, good) ==
    LET sv == SelectVantagePoints(pts)
        sv1 == pts[sv[1]]
        sv2 == pts[sv[2]]
        with1 == WithDistance(pts, sv1, lvl)
        M1 == FindSplits(with1, sv1)
        bin(i) == WithDistance(SortPoints(Others(with1, sv), sv1, M1, i), sv2, lvl + 1)
        reached == {i \in Bins : \A h \in 0..i : bin(h) # <<>>}
        M2 == [i \in reached |-> FindSplits(bin(i), sv2)]
        made == [c \in reached \X Bins |->
                    Create(SortPoints(bin(c[1]), sv2, M2[c[1]], c[2]), lvl + 2, good)]
    IN CASE sv[2] = 0 -> Crash
         [] sv[2] # 0 /\ (\E c \in DOMAIN made : made[c].crashed) -> Crash
         [] OTHER ->
              IF reached # Bins THEN Failed
              ELSE Outcome([type |-> "INTERNAL", sv1 |-> sv1, sv2 |-> sv2,
                            M1 |-> M1, M2 |-> M2,
                            child_nodes |-> [c \in Cell |-> made[c].node]],
                           \A c \in Cell : made[c].ok)

\* A node for all of pts.
Create(pts, lvl, good) ==
    IF pts = <<>> THEN Outcome(NULL, good)
    ELSE IF Unmeasurable(pts) THEN Failed
    ELSE IF Len(pts) <= leafcap + 2 THEN CreateLeaf(pts, lvl, good)
    ELSE CreateInternal(pts, lvl, good)

\* Mutant of HasRoom: the vantage points' share of the capacity is given away.
HasRoomOfAll(n, pts) == Len(n.points) + Len(pts) <= leafcap + 2

HasRoom(n, pts) == Len(n.points) + Len(pts) <= leafcap

AddToLeaf(n, pts, lvl, good) ==
    LET with1 == WithDistance(pts, n.sv1, lvl)
        sv2 == IF n.sv2 = NULL THEN with1[1] ELSE n.sv2
        new == WithDistance(IF n.sv2 = NULL THEN Tail(with1) ELSE with1, sv2, lvl + 1)
    IN Outcome(Leaf(n.sv1, sv2,
                    n.points \o [i \in DOMAIN new |-> Entry(new[i], n.sv1, sv2)]), good)

\* Mutant of PointsOf: the second vantage point is forgotten.
PointsButSv2(n) == <<n.sv1>> \o [i \in DOMAIN n.points |-> n.points[i].dp]

\* The points of a leaf, vantage points first.
PointsOf(n) ==
    <<n.sv1>> \o (IF n.sv2 = NULL THEN <<>> ELSE <<n.sv2>>)
        \o [i \in DOMAIN n.points |-> n.points[i].dp]

RECURSIVE Add(_, _, _, _)

\* Each bin's first child is tried; an error, of this bin or an earlier one,
\* keeps its other children from theirs.
AddToInternal(n, pts, lvl, good) ==
    LET with1 == WithDistance(pts, n.sv1, lvl)
        bin(i) == WithDistance(SortPoints(with1, n.sv1, n.M1, i), n.sv2, lvl + 1)
        step(out, c) ==
            LET sub == Add(out.node.child_nodes[c],
                           SortPoints(bin(c[1]), n.sv2, n.M2[c[1]], c[2]),
                           lvl + 2, out.ok)
            IN IF out.crashed \/ bin(c[1]) = <<>> \/ (c[2] # 0 /\ ~out.ok) THEN out
               ELSE [node |-> [out.node EXCEPT !.child_nodes[c] = sub.node],
                     ok |-> sub.ok, crashed |-> sub.crashed]
    IN FoldLeft(step, Outcome(n, good), Cells)

\* A full leaf is freed and made again from its points and the new ones: when
\* that fails nothing of them stays in the tree.
Add(n, pts, lvl, good) ==
    CASE pts = <<>> -> Outcome(n, good)
      [] pts # <<>> /\ n = NULL -> Create(pts, lvl, good)
      [] pts # <<>> /\ n.type = "LEAF" ->
           IF ~HasRoom(n, pts) THEN Create(PointsOf(n) \o pts, lvl, good)
           ELSE IF Unmeasurable(<<n.sv1>> \o pts) THEN Outcome(n, FALSE)
           ELSE AddToLeaf(n, pts, lvl, good)
      [] pts # <<>> /\ n.type = "INTERNAL" ->
           IF Unmeasurable(<<n.sv1>> \o pts) THEN Outcome(n, FALSE)
           ELSE AddToInternal(n, pts, lvl, good)

-----------------------------------------------------------------------------
(* mvptree_retrieve.  The hits come in order; NullPoint stands for a call   *)
(* of the distance function on a vantage point that a leaf does not have,   *)
(* made because the code tests the root's sv2 instead of the leaf's.        *)

\* The identity no datapoint has.
NullPoint == 0

Hit(x, t, r) == IF D(t, x) <= r THEN <<x.id>> ELSE <<>>

Within(d, e, r) == d - r <= e /\ e <= d + r

\* The leaf's filters on the stored distances, before the point is measured.
MayHit(e, d1, d2, path, r, lvl) ==
    /\ Within(d1, e.d1, r)
    /\ Within(d2, e.d2, r)
    /\ \A l \in DOMAIN path : l <= lvl => Within(path[l], e.dp.path[l], r)

\* Mutant of Enter: a point at the pivot is expected in the next bin.
EnterStrict(d, r, M, bin) ==
    IF bin = branchfactor - 1 THEN d + r >= M[bin] ELSE d - r < M[bin + 1]

\* The last bin is entered from its pivot up, any other from its pivot down.
Enter(d, r, M, bin) ==
    IF bin = branchfactor - 1 THEN d + r >= M[bin] ELSE d - r <= M[bin + 1]

RECURSIVE Visit(_, _, _, _, _)

Visit(n, t, r, lvl, path) ==
    IF n = NULL THEN <<>> ELSE
    LET d1 == D(t, n.sv1)
        d2 == D(t, n.sv2)
        path1 == [l \in DOMAIN path |-> IF l = lvl THEN d1 ELSE path[l]]
        path2 == [l \in DOMAIN path |-> IF l = lvl + 1 THEN d2 ELSE path1[l]]
    IN CASE n.type = "LEAF" /\ n.sv2 = NULL ->
              Hit(n.sv1, t, r) \o (IF node.sv2 = NULL THEN <<>> ELSE <<NullPoint>>)
         [] n.type = "LEAF" /\ n.sv2 # NULL ->
              Hit(n.sv1, t, r) \o Hit(n.sv2, t, r) \o
              FlattenSeq([i \in DOMAIN n.points |->
                  IF MayHit(n.points[i], d1, d2, path2, r, lvl)
                  THEN Hit(n.points[i].dp, t, r) ELSE <<>>])
         [] n.type = "INTERNAL" ->
              Hit(n.sv1, t, r) \o Hit(n.sv2, t, r) \o
              FlattenSeq([c \in DOMAIN Cells |->
                  LET i == Cells[c][1]
                      j == Cells[c][2]
                  IN IF Enter(d1, r, n.M1, i) /\ Enter(d2, r, n.M2[i], j)
                     THEN Visit(n.child_nodes[Cells[c]], t, r, lvl + 2, path2)
                     ELSE <<>>])

\* The search ends with the knearest-th hit (MVP_KNEARESTCAP).
Retrieve(at, knearest, r) ==
    LET hits == Visit(node, [at |-> at], r, 0, [l \in 0..(pathlength - 1) |-> 0])
    IN SubSeq(hits, 1, IF knearest < Len(hits) THEN knearest ELSE Len(hits))

-----------------------------------------------------------------------------
(* mvptree_write and mvptree_read.  A missing child is written as offset 0, *)
(* where the reader meets the file's tag and no node type: it gives up, and *)
(* the children not yet read stay NULL.                                     *)

RECURSIVE ReadBack(_)

ReadBack(n) ==
    IF n = NULL THEN [node |-> NULL, ok |-> FALSE]
    ELSE IF n.type = "LEAF" THEN [node |-> n, ok |-> TRUE]
    ELSE LET blank == [n EXCEPT !.child_nodes = [c \in Cell |-> NULL]]
             step(out, c) ==
                 LET sub == ReadBack(n.child_nodes[c])
                 IN IF ~out.ok THEN out
                    ELSE [node |-> [out.node EXCEPT !.child_nodes[c] = sub.node],
                          ok |-> sub.ok]
         IN FoldLeft(step, [node |-> blank, ok |-> TRUE], Cells)

-----------------------------------------------------------------------------
Init ==
    /\ supply \in Supplies
    /\ taken = 0
    /\ node = NULL
    /\ ok = TRUE
    /\ crashed = FALSE

mvptree_add(n) ==
    /\ ~crashed
    /\ taken + n <= Len(supply)
    /\ LET out == Add(node, [i \in 1..n |-> Point(taken + i)], 0, TRUE)
       IN /\ node' = out.node
          /\ ok' = out.ok
          /\ crashed' = out.crashed
    /\ taken' = taken + n
    /\ UNCHANGED supply

\* The tree is written, and another run of the program reads it.
Reload ==
    /\ ~crashed
    /\ node # NULL
    /\ node' = ReadBack(node).node
    /\ ok' = ReadBack(node).ok
    /\ UNCHANGED <<supply, taken, crashed>>

Next == (\E n \in Batches : mvptree_add(n)) \/ Reload

Spec == Init /\ [][Next]_vars

-----------------------------------------------------------------------------
(* Properties.                                                              *)

\* The leaf's points, then those of the cells.
RECURSIVE Held(_)

Held(n) ==
    IF n = NULL THEN <<>>
    ELSE IF n.type = "LEAF" THEN [i \in DOMAIN PointsOf(n) |-> PointsOf(n)[i].id]
    ELSE <<n.sv1.id, n.sv2.id>> \o
         FlattenSeq([c \in DOMAIN Cells |-> Held(n.child_nodes[Cells[c]])])

Members == Range(Held(node))

RECURSIVE WellShaped(_)

WellShaped(n) ==
    \/ n = NULL
    \/ n.type = "LEAF" /\ Len(n.points) <= leafcap
    \/ n.type = "INTERNAL" /\ \A c \in Cell : WellShaped(n.child_nodes[c])

\* No leaf outgrows the arrays create_leaf allocates for leafcap points.
TypeOK ==
    /\ taken \in 0..Len(supply)
    /\ {ok, crashed} \subseteq BOOLEAN
    /\ Members \subseteq 1..taken
    /\ WellShaped(node)

\* mvptree_clear frees every datapoint of the tree with dp_free: none may be
\* in it twice, however leaves were split and children were replaced.
FreedOnce == IsInjective(Held(node))

\* mvptree_retrieve, unless it hands NULL to the distance function, returns
\* distinct members within the radius, and all of them when they are fewer
\* than knearest: the pivots, the stored distances and the paths never cut
\* off a point that should be found, however the tree grew or was read back.
RetrieveExact ==
    \A at \in Good, knearest \in {2, Len(supply) + 1}, r \in 0..2 :
        LET hits == Retrieve(at, knearest, r)
            near == {id \in Members : Dist[at, supply[id]] <= r}
        IN NullPoint \notin Range(hits) =>
              /\ IsInjective(hits)
              /\ Range(hits) \subseteq near
              /\ Len(hits) < knearest => Range(hits) = near

\* A call that reports success has lost nothing: mvptree_add keeps what the
\* tree held and adds all it was given, mvptree_read finds all that
\* mvptree_write was given.
SuccessKeeps ==
    [][ok' /\ ~crashed' => Members' = Members \cup ((taken + 1)..taken')]_vars

\* mvptree.h: "the datapoints are subsequently owned by the tree, and a call
\* to mvptree_clear() will invoke dp_free() on all its datapoints" - of what
\* the tree held, an addition of measurable points loses nothing.
OwnedStay ==
    [][(taken' # taken /\ ~crashed'
            /\ \A i \in 1..taken' : supply[i] \in Good)
        => Members \cup ((taken + 1)..taken') \subseteq Members']_vars
=============================================================================
