------------------------------ MODULE Library -------------------------------
(***************************************************************************)
(* A client of pHash makes one of the library's calls over files: it has   *)
(* the pictures of a directory hashed, a text hashed, the points of two    *)
(* texts compared, the key frames of a video taken, or those of two videos *)
(* compared.                                                               *)
(***************************************************************************)
EXTENDS HashDirectory, TextHash, TextMatch, KeyFrames, VideoDistance

VARIABLE job   \* which of them

vars == <<job, directoryVars, textVars, matchVars, videoVars, distanceVars>>

\* The root of a drive has no dot entries.
Directories == {dots \cup fs : dots \in {{}, Dots}, fs \in SUBSET File}

Called ==
    /\ job \in {"pictures", "text", "match", "video", "distance"}
    /\ IF job = "pictures" THEN entries \in Directories ELSE entries = {}
    /\ IF job = "text" THEN text \in Text ELSE text = <<>>
    /\ IF job = "match" THEN hash1 \in Points /\ hash2 \in Points
                        ELSE hash1 = <<>> /\ hash2 = <<>>
    /\ IF job = "video"
       THEN \E v \in Video : /\ frames = v.frames /\ rate = v.rate
                             /\ dist = v.dist /\ stored = v.stored
       ELSE frames = 0 /\ rate = 1 /\ dist = <<>> /\ stored = 0
    /\ IF job = "distance" THEN hashA \in Frames /\ hashB \in Frames
                           ELSE hashA = <<>> /\ hashB = <<>>

\* The calls that are not made never begin.
Init ==
    /\ Called
    /\ NamesBegin /\ HashThreadsIdle
    /\ TextBegins /\ MatchBegins
    /\ VideoBegins /\ DistanceBegins

Pictures ==
    /\ job = "pictures"
    /\ DirectoryStep
    /\ UNCHANGED <<job, textVars, matchVars, videoVars, distanceVars>>
TextHashed ==
    /\ job = "text"
    /\ TextStep
    /\ UNCHANGED <<job, directoryVars, matchVars, videoVars, distanceVars>>
TextsCompared ==
    /\ job = "match"
    /\ MatchStep
    /\ UNCHANGED <<job, directoryVars, textVars, videoVars, distanceVars>>
KeyFramesTaken ==
    /\ job = "video"
    /\ VideoStep
    /\ UNCHANGED <<job, directoryVars, textVars, matchVars, distanceVars>>
VideosCompared ==
    /\ job = "distance"
    /\ DistanceStep
    /\ UNCHANGED <<job, directoryVars, textVars, matchVars, videoVars>>

\* Others go on changing the directory while it is listed or hashed.
Disturbed ==
    /\ job = "pictures"
    /\ ~DirectoryOver
    /\ Environment
    /\ UNCHANGED <<job, textVars, matchVars, videoVars, distanceVars>>

\* The call has returned, or left an array.
Over ==
    /\ CASE job = "pictures" -> DirectoryOver
         [] job = "text" -> pcT \in {"none", "done", "undefined"}
         [] job = "match" -> pcM \in {"done", "undefined"}
         [] job = "video" -> pcV \in {"failed", "done", "undefined"}
         [] job = "distance" -> pcD = "done"
    /\ UNCHANGED vars

Next ==
    \/ Pictures \/ TextHashed \/ TextsCompared \/ KeyFramesTaken \/ VideosCompared
    \/ Disturbed \/ Over

Spec == Init /\ [][Next]_vars

-----------------------------------------------------------------------------
\* The arrays are left in these cases exactly: a slice of the hashes, the
\* points of a text, the matches, and the boundaries of a video.
StaysInArrays ==
    /\ LeavesArray
    /\ RoomForPoints
    /\ RoomForMatches
    /\ RoomForBounds

=============================================================================
