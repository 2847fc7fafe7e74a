----------------------------- MODULE KeyFrames ------------------------------
(***************************************************************************)
(* ph_getKeyFramesFromVideo (pHash/pHash.cpp): the frames of a video, one  *)
(* in so many, are compared with the frame before, the places where much   *)
(* more changes than around them are taken for boundaries of shots, and of *)
(* each shot the frame that differs least from the one before it is kept.  *)
(*                                                                         *)
(* Frames are numbered from 0; dist[f] is how much frame f differs from    *)
(* f - 1, as a number instead of a sum of histogram bins, and averages are *)
(* compared without rounding.  A step outside the arrays dist and bnds, or *)
(* a division by 0, ends the model ("undefined").                          *)
(***************************************************************************)
EXTENDS Integers, Sequences, FiniteSetsExt, Functions

CONSTANTS
    Video,     \* videos: [frames, rate, dist, stored] records
    Batch,     \* st_info.nb_retrieval
    S, L,      \* how far the local and the global surroundings reach
    Alpha1, Alpha2

ASSUME KeyFramesAssumption ==
    /\ {Batch, S, L, Alpha2} \subseteq Nat \ {0} /\ Alpha1 \in Nat
    /\ \A v \in Video :
          /\ v.frames \in Int /\ v.rate \in Int /\ v.stored \in Nat
          /\ v.frames >= 0 /\ v.rate > 0 =>
                v.dist \in [0..(v.frames \div ((v.rate + 1) \div 2) - 1) -> Nat]

VARIABLES
    frames,     \* the number of frames in the header, or negative if unknown
    rate,       \* frames in a second, a whole number here
    dist,       \* the array; it is filled as far as the video can be read
    stored,     \* the frames the video really has, one in step: the header
                \* may promise more
    pcV,
    k,
    read,       \* frames read so far
    bnds,       \* 1: a boundary, 2: a key frame, as far as it was written
    nbboundaries,
    shot,       \* where the shot begins that is looked at
    marks,      \* history: the boundaries, when all were found
    pframelist  \* the key frames read

file == <<frames, rate, dist, stored>>
videoVars == <<file, pcV, k, read, bnds, nbboundaries, shot, marks, pframelist>>

\* One frame in so many is looked at, for two in a second; rounded, it is 0 if
\* there is less than one.
step == (rate + 1) \div 2
nbframes == frames \div step

\* The call, with the video chosen.
VideoBegins ==
    /\ pcV = "open"
    /\ k = 0
    /\ read = 0
    /\ bnds = <<>>
    /\ nbboundaries = 0
    /\ shot = 0
    /\ marks = {}
    /\ pframelist = <<>>

Return(result) ==
    /\ pcV' = result
    /\ UNCHANGED <<file, k, read, bnds, nbboundaries, shot, marks, pframelist>>

\* The header: NULL if it is of no use, and a division by step.
OpenVideo ==
    /\ pcV = "open"
    /\ Return(IF frames < 0 \/ rate < 0 THEN "failed"
              ELSE IF step = 0 THEN "undefined" ELSE "read")

\* The arrays dist or bnds cannot be made: NULL.
NoVideoMemory ==
    /\ pcV = "begin" \/ (pcV = "open" /\ frames >= 0 /\ rate > 0)
    /\ Return("failed")

\* The key frames that are still to be read.
KeysLeft == {f \in k..(nbframes - 1) : bnds[f] = 2}

\* NextFrames or ReadFrames returns -1: NULL.
ReadFails ==
    /\ pcV = "read" \/ (pcV = "frames" /\ KeysLeft # {})
    /\ Return("failed")

\* NextFrames reads up to Batch frames, and those there is room for are
\* compared.  The last one read, or the last of dist, ends the loop.
ReadOn ==
    LET nbread == Min({Batch, stored - read})
    IN /\ pcV = "read"
       /\ read' = read + nbread
       /\ k' = Min({k + nbread, nbframes})
       /\ pcV' = IF nbread >= Batch /\ k' < nbframes THEN "read" ELSE "begin"
       /\ UNCHANGED <<file, bnds, nbboundaries, shot, marks, pframelist>>

\* bnds is made; its first frame is a boundary, whether there is one or not.
BeginBounds ==
    /\ pcV = "begin"
    /\ IF nbframes = 0
       THEN Return("undefined")
       ELSE /\ bnds' = [f \in {0} |-> 1]
            /\ k' = 1
            /\ pcV' = "bounds"
            /\ UNCHANGED <<file, read, nbboundaries, shot, marks, pframelist>>

Around(reach) == Max({k - reach, 0})..Min({k + reach, nbframes - 1})

Abs(n) == IF n >= 0 THEN n ELSE -n

\* dist[k] > ave_global + alpha1 * dev_global, times the square of the number
\* of frames.
AboveGlobal ==
    LET W == Around(L)
        n == Cardinality(W)
        sum == FoldFunctionOnSet(LAMBDA x, y : x + y, 0, dist, W)
        dev == FoldFunctionOnSet(LAMBDA x, y : x + y, 0,
                                 [f \in W |-> Abs(sum - n * dist[f])], W)
    IN n * n * dist[k] > n * sum + Alpha1 * dev

\* The first of the largest.
LargestOf(W) ==
    CHOOSE f \in W : \A g \in W : /\ dist[g] <= dist[f]
                                  /\ g < f => dist[g] < dist[f]

\* Mutant of IsBoundary: the second largest is not asked for.
IsBoundaryLargest ==
    LET W == Around(S)
    IN dist[k] = dist[LargestOf(W)] /\ AboveGlobal

\* The frame differs most, and at least Alpha2 times as much as the second.
IsBoundary ==
    LET W == Around(S)
        largest == LargestOf(W)
        second == Max({dist[f] : f \in W \ {largest}} \cup {0})
    IN /\ dist[k] = dist[largest]
       /\ dist[k] > Alpha2 * second
       /\ AboveGlobal

\* A turn of the loop that looks for boundaries; the first is taken even for a
\* single frame.
Bound ==
    /\ pcV = "bounds"
    /\ IF k >= nbframes
       THEN Return("undefined")
       ELSE /\ bnds' = [f \in DOMAIN bnds \cup {k} |->
                          IF f < k THEN bnds[f] ELSE IF IsBoundary THEN 1 ELSE 0]
            /\ nbboundaries' = nbboundaries + bnds'[k]
            /\ k' = k + 1
            /\ pcV' = IF k' < nbframes - 1 THEN "bounds" ELSE "last"
            /\ UNCHANGED <<file, read, shot, marks, pframelist>>

\* Mutant of LastBound: the last frame is no boundary.
LastUnbound ==
    /\ pcV = "last"
    /\ bnds' = [f \in 0..(nbframes - 1) |-> IF f \in DOMAIN bnds THEN bnds[f] ELSE 0]
    /\ nbboundaries' = nbboundaries + 2
    /\ marks' = {f \in DOMAIN bnds' : bnds'[f] = 1}
    /\ pcV' = "shots"
    /\ UNCHANGED <<file, k, read, shot, pframelist>>

\* The last frame is a boundary, too.
LastBound ==
    /\ pcV = "last"
    /\ bnds' = [f \in 0..(nbframes - 1) |-> IF f = nbframes - 1 THEN 1 ELSE bnds[f]]
    /\ nbboundaries' = nbboundaries + 2
    /\ marks' = {f \in DOMAIN bnds' : bnds'[f] = 1}
    /\ pcV' = "shots"
    /\ UNCHANGED <<file, k, read, shot, pframelist>>

\* The first of the frames within the shot that differ least from the one
\* before; the boundary at its end, if there is no frame in between.
LeastIn(first, last) ==
    LET W == first..(last - 1)
    IN IF W = {} THEN first
       ELSE CHOOSE f \in W : \A g \in W : /\ dist[f] <= dist[g]
                                          /\ g < f => dist[f] < dist[g]

\* Mutant of Shot: the next shot begins at the key frame.
ShotFromKeyFrame ==
    LET ends == {f \in (shot + 1)..(nbframes - 1) : bnds[f] = 1}
        minpos == LeastIn(shot + 1, Min(ends))
    IN /\ pcV = "shots"
       /\ ends # {}
       /\ bnds' = [bnds EXCEPT ![minpos] = 2]
       /\ shot' = minpos
       /\ k' = 0
       /\ pcV' = IF shot' < nbframes - 1 THEN "shots" ELSE "frames"
       /\ UNCHANGED <<file, read, nbboundaries, marks, pframelist>>

\* The key frame of a shot.  Without a further boundary the loop that looks
\* for one leaves the array.
Shot ==
    LET ends == {f \in (shot + 1)..(nbframes - 1) : bnds[f] = 1}
    IN /\ pcV = "shots"
       /\ IF ends = {}
          THEN Return("undefined")
          ELSE /\ bnds' = [bnds EXCEPT ![LeastIn(shot + 1, Min(ends))] = 2]
               /\ shot' = Min(ends)
               /\ k' = 0
               /\ pcV' = IF shot' < nbframes - 1 THEN "shots" ELSE "frames"
               /\ UNCHANGED <<file, read, nbboundaries, marks, pframelist>>

\* The next key frame is read, if the video has it.
ReadFrame ==
    /\ pcV = "frames"
    /\ KeysLeft # {}
    /\ LET next == Min(KeysLeft)
       IN /\ k' = next + 1
          /\ pframelist' = IF next < stored THEN Append(pframelist, next)
                                            ELSE pframelist
    /\ UNCHANGED <<file, pcV, read, bnds, nbboundaries, shot, marks>>

VideoEnds ==
    /\ pcV = "frames"
    /\ KeysLeft = {}
    /\ Return("done")

VideoStep ==
    \/ OpenVideo \/ NoVideoMemory \/ ReadFails \/ ReadOn \/ BeginBounds \/ Bound \/ LastBound
    \/ Shot \/ ReadFrame \/ VideoEnds

-----------------------------------------------------------------------------
Keys == {f \in DOMAIN bnds : bnds[f] = 2}

\* The shots are what lies between two boundaries in a row; each has one key
\* frame, and no frame within it differs less.  Two boundaries side by side
\* have the second of them for a key frame, which is a boundary no longer.
OneFramePerShot ==
    pcV \in {"frames", "done"} =>
        /\ \A a, b \in marks :
             a < b /\ (a + 1)..(b - 1) \cap marks = {} =>
                 LET within == Keys \cap ((a + 1)..b)
                 IN /\ Cardinality(within) = 1
                    /\ b > a + 1 =>
                         \A f \in within, g \in (a + 1)..(b - 1) :
                             f < b /\ dist[f] <= dist[g]
        /\ Cardinality(Keys) = Cardinality(marks) - 1
        /\ pcV = "done" =>
             /\ Range(pframelist) = {f \in Keys : f < stored}
             /\ \A p, q \in DOMAIN pframelist : p < q => pframelist[p] < pframelist[q]

\* Two boundaries inside a video are further apart than the local surroundings
\* reach, though each is decided on by itself.
BoundariesApart ==
    \A a, b \in marks :
        a # b /\ {a, b} \cap {0, nbframes - 1} = {} => Abs(a - b) > S

\* The division fails for videos of less than a frame in a second, and the arrays
\* are left for those with less than two frames to look at, and for no other.
RoomForBounds ==
    /\ pcV = "undefined" => step = 0 \/ nbframes < 2
    /\ pcV = "done" => step > 0 /\ nbframes >= 2

=============================================================================
