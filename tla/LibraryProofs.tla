--------------------------- MODULE LibraryProofs ---------------------------
(***************************************************************************)
(* Theorems about the calls of the library that Library makes: for texts,  *)
(* lists of points, videos and directories of any size.                    *)
(***************************************************************************)
EXTENDS Library, HashDirectoryProofs, SequenceTheorems

-----------------------------------------------------------------------------
(* Numbers.                                                                *)

\* A set of numbers with an upper bound has a greatest element.
LEMMA Greatest ==
    ASSUME NEW T \in SUBSET Nat, T # {}, NEW m \in Nat, \A x \in T : x <= m
    PROVE  \E n \in T : \A x \in T : x <= n
<1> DEFINE U == {m - x : x \in T}
<1>1. U \in SUBSET Nat /\ U # {}
  <2>1. \A x \in T : m - x \in Nat
    OBVIOUS
  <2>2. PICK x \in T : TRUE
    OBVIOUS
  <2>3. m - x \in U
    OBVIOUS
  <2> QED BY <2>1, <2>3
<1>2. PICK u \in U : \A v \in U : u <= v
  BY <1>1, Least
<1>3. PICK n \in T : u = m - n
  OBVIOUS
<1>4. ASSUME NEW x \in T PROVE x <= n
  <2>1. m - x \in U
    OBVIOUS
  <2>2. u <= m - x
    BY <1>2, <2>1
  <2> QED BY <1>3, <2>2
<1> QED BY <1>4

LEMMA MinOf ==
    ASSUME NEW T \in SUBSET Nat, T # {}
    PROVE  Min(T) \in T /\ \A x \in T : Min(T) <= x
BY Least DEF Min

LEMMA MaxOf ==
    ASSUME NEW T \in SUBSET Nat, T # {}, NEW m \in Nat, \A x \in T : x <= m
    PROVE  Max(T) \in T /\ \A x \in T : x <= Max(T)
<1>1. \E n \in T : \A x \in T : n >= x
  BY Greatest
<1> QED BY <1>1 DEF Max

\* The values of a function on an interval have an upper bound.
LEMMA Bounded ==
    ASSUME NEW n \in Nat, NEW d \in [0..(n - 1) -> Nat]
    PROVE  \E m \in Nat : \A f \in 0..(n - 1) : d[f] <= m
<1> DEFINE T == {e \in Nat : e <= n => \E m \in Nat : \A f \in 0..(e - 1) : d[f] <= m}
<1>1. 0 \in T
  <2>1. \A f \in 0..(0 - 1) : d[f] <= 0
    OBVIOUS
  <2>2. \E m \in Nat : \A f \in 0..(0 - 1) : d[f] <= m
    BY <2>1
  <2> QED BY <2>2
<1>2. ASSUME NEW e \in T PROVE e + 1 \in T
  <2>1. SUFFICES ASSUME e + 1 <= n
                 PROVE  \E m \in Nat : \A f \in 0..((e + 1) - 1) : d[f] <= m
    OBVIOUS
  <2>2. PICK m \in Nat : \A f \in 0..(e - 1) : d[f] <= m
    BY <2>1
  <2>3. d[e] \in Nat
    BY <2>1
  <2>4. PICK q \in Nat : m <= q /\ d[e] <= q
    BY <2>3
  <2>5. ASSUME NEW f \in 0..((e + 1) - 1) PROVE d[f] <= q
    <3>1. f \in 0..(e - 1) \/ f = e
      OBVIOUS
    <3>2. d[f] \in Nat
      BY <2>1
    <3> QED BY <2>2, <2>4, <3>1, <3>2
  <2> QED BY <2>5
<1>3. T = Nat
  <2>1. T \in SUBSET Nat
    OBVIOUS
  <2> HIDE DEF T
  <2> QED BY <1>1, <1>2, <2>1, NatInd
<1>4. n \in T
  BY <1>3
<1> QED BY <1>4

\* The first of the least values of a function on an interval.
LEMMA FirstLeast ==
    ASSUME NEW a \in Nat, NEW b \in Nat, a <= b, NEW d, \A f \in a..b : d[f] \in Nat
    PROVE  \E f \in a..b : \A g \in a..b : d[f] <= d[g] /\ (g < f => d[f] < d[g])
<1> DEFINE V == {d[f] : f \in a..b}
<1>1. V \in SUBSET Nat /\ V # {}
  OBVIOUS
<1>2. PICK v \in V : \A u \in V : v <= u
  BY <1>1, Least
<1> DEFINE W == {f \in a..b : d[f] = v}
<1>3. W \in SUBSET Nat /\ W # {}
  OBVIOUS
<1>4. PICK f \in W : \A g \in W : f <= g
  BY <1>3, Least
<1>5. ASSUME NEW g \in a..b PROVE d[f] <= d[g] /\ (g < f => d[f] < d[g])
  <2>1. v <= d[g] /\ d[g] \in Nat /\ v \in Nat /\ d[f] = v
    BY <1>1, <1>2
  <2>2. d[g] = v => f <= g
    BY <1>4
  <2> QED BY <2>1, <2>2
<1> QED BY <1>5

\* The first of the greatest.
LEMMA FirstGreatest ==
    ASSUME NEW a \in Nat, NEW b \in Nat, a <= b, NEW d, NEW m \in Nat,
           \A f \in a..b : d[f] \in Nat /\ d[f] <= m
    PROVE  \E f \in a..b : \A g \in a..b : d[g] <= d[f] /\ (g < f => d[g] < d[f])
<1> DEFINE e == [f \in a..b |-> m - d[f]]
<1>1. \A f \in a..b : e[f] \in Nat
  OBVIOUS
<1> HIDE DEF e
<1>2. PICK f \in a..b : \A g \in a..b : e[f] <= e[g] /\ (g < f => e[f] < e[g])
  BY <1>1, FirstLeast
<1>3. ASSUME NEW g \in a..b PROVE d[g] <= d[f] /\ (g < f => d[g] < d[f])
  <2>1. e[f] = m - d[f] /\ e[g] = m - d[g] /\ d[f] \in Nat /\ d[g] \in Nat
    BY DEF e
  <2> QED BY <1>2, <2>1
<1> QED BY <1>3

-----------------------------------------------------------------------------
(* Sequences.                                                              *)

LEMMA AppendSet ==
    ASSUME NEW T, NEW s \in Seq(T), NEW e \in T
    PROVE  Range(Append(s, e)) = Range(s) \cup {e}
<1>1. /\ Append(s, e) \in Seq(T) /\ Len(Append(s, e)) = Len(s) + 1
      /\ \A p \in 1..Len(s) : Append(s, e)[p] = s[p]
      /\ Append(s, e)[Len(s) + 1] = e
  BY AppendRange
<1>2. DOMAIN Append(s, e) = 1..(Len(s) + 1) /\ DOMAIN s = 1..Len(s) /\ Len(s) \in Nat
  BY <1>1
<1>3. 1..(Len(s) + 1) = (1..Len(s)) \cup {Len(s) + 1}
  BY <1>2
<1> QED BY <1>1, <1>2, <1>3 DEF Range

-----------------------------------------------------------------------------
(* Key frames of a video.                                                  *)

VideoIs ==
    /\ stored \in Nat
    /\ step \in Nat \ {0}
    /\ nbframes \in Nat
    /\ dist \in [0..(nbframes - 1) -> Nat]

\* So it is for a header that is of use.
FileIs ==
    /\ frames \in Int /\ rate \in Int
    /\ frames >= 0 /\ rate > 0 => VideoIs

\* No frame near f differs as much from the one before it.
Peak(f) ==
    \A g \in 0..(nbframes - 1) : g # f /\ g - f <= S /\ f - g <= S => dist[g] < dist[f]

\* The boundaries inside a video are peaks.
Marked ==
    /\ {0, nbframes - 1} \subseteq marks /\ marks \subseteq 0..(nbframes - 1)
    /\ \A f \in marks \ {0, nbframes - 1} : Peak(f)

BoundsInv ==
    /\ FileIs
    /\ pcV \in {"open", "read", "failed", "begin", "bounds", "last", "shots", "frames",
                "done", "undefined"}
    /\ pcV \notin {"open", "failed", "undefined"} \/ marks # {} => VideoIs
    /\ marks = {} \/ Marked
    /\ pcV \in {"open", "read", "begin", "bounds", "last"} =>
           marks = {} /\ shot = 0 /\ pframelist = <<>>
    /\ pcV \in {"bounds", "last"} =>
           /\ nbframes > 0 /\ k \in 1..nbframes
           /\ bnds \in [0..(k - 1) -> 0..1] /\ bnds[0] = 1
           /\ \A f \in 1..(k - 1) : bnds[f] = 1 => Peak(f)
    /\ pcV = "bounds" => k = 1 \/ k < nbframes - 1
    /\ pcV = "last" => nbframes >= 2 /\ k >= nbframes - 1
    /\ pcV \in {"shots", "frames", "done"} => nbframes >= 2 /\ Marked
    /\ pcV = "undefined" => step = 0 \/ nbframes < 2

\* A shot has one key frame, and none within the shot differs less.
IsKey(f, a, b) ==
    /\ Keys \cap ((a + 1)..b) = {f}
    /\ b > a + 1 => f < b /\ \A g \in (a + 1)..(b - 1) : dist[f] <= dist[g]
KeyOf(a, b) == \E f \in Keys : IsKey(f, a, b)

\* So it is for the shots that were looked at; after them the boundaries are
\* as they were found.
ShotsInv ==
    pcV \in {"shots", "frames", "done"} =>
        /\ bnds \in [0..(nbframes - 1) -> 0..2]
        /\ shot \in marks
        /\ IF pcV = "shots" THEN shot < nbframes - 1 ELSE shot = nbframes - 1
        /\ \A f \in 0..(nbframes - 1) : f > shot =>
               (IF f \in marks THEN bnds[f] = 1 ELSE bnds[f] = 0)
        /\ Keys \subseteq 1..shot
        /\ Cardinality(Keys) = Cardinality(marks \cap (0..shot)) - 1
        /\ \A a, b \in marks :
               a < b /\ b <= shot /\ (a + 1)..(b - 1) \cap marks = {} => KeyOf(a, b)

\* The key frames read are those before k.
FramesInv ==
    /\ pcV = "shots" => pframelist = <<>>
    /\ pcV \in {"frames", "done"} =>
           /\ k \in 0..nbframes
           /\ pframelist \in Seq(Nat)
           /\ Range(pframelist) = {f \in Keys : f < stored /\ f < k}
           /\ \A p, q \in DOMAIN pframelist : p < q => pframelist[p] < pframelist[q]
    /\ pcV = "done" => \A f \in Keys : f < k

VideoInv == BoundsInv /\ ShotsInv /\ FramesInv

LEMMA NearIsAround ==
    ASSUME VideoIs, k \in 0..(nbframes - 1)
    PROVE  Around(S) = {g \in 0..(nbframes - 1) : g - k <= S /\ k - g <= S}
<1>1. S \in Nat /\ nbframes \in Nat /\ k \in Nat
  BY KeyFramesAssumption DEF VideoIs
<1>2. Max({k - S, 0}) = IF k - S >= 0 THEN k - S ELSE 0
  <2>1. \E x \in {k - S, 0} : \A y \in {k - S, 0} : x >= y
    BY <1>1
  <2>2. PICK w : w = Max({k - S, 0}) /\ w \in {k - S, 0} /\ \A y \in {k - S, 0} : w >= y
    BY <2>1 DEF Max
  <2> QED BY <1>1, <2>2
<1>3. Min({k + S, nbframes - 1}) = IF k + S <= nbframes - 1 THEN k + S ELSE nbframes - 1
  <2>1. \E x \in {k + S, nbframes - 1} : \A y \in {k + S, nbframes - 1} : x <= y
    BY <1>1
  <2>2. PICK w : /\ w = Min({k + S, nbframes - 1}) /\ w \in {k + S, nbframes - 1}
                 /\ \A y \in {k + S, nbframes - 1} : w <= y
    BY <2>1 DEF Min
  <2> QED BY <1>1, <2>2
<1>4. Around(S) = (IF k - S >= 0 THEN k - S ELSE 0)
                      ..(IF k + S <= nbframes - 1 THEN k + S ELSE nbframes - 1)
  BY <1>2, <1>3 DEF Around
<1> QED BY <1>1, <1>4

\* A boundary is a peak: were another frame near as high, the second largest
\* would be, too.
LEMMA BoundaryIsPeak ==
    ASSUME VideoIs, k \in 0..(nbframes - 1), IsBoundary
    PROVE  Peak(k)
<1> DEFINE W == Around(S)
           top == LargestOf(W)
           rest == {dist[f] : f \in W \ {top}} \cup {0}
<1>1. nbframes \in Nat /\ S \in Nat /\ Alpha2 \in Nat \ {0} /\ k \in Nat
  BY KeyFramesAssumption DEF VideoIs
<1>2. W = {g \in 0..(nbframes - 1) : g - k <= S /\ k - g <= S} /\ k \in W
  BY <1>1, NearIsAround
<1>3. PICK m \in Nat : \A f \in 0..(nbframes - 1) : dist[f] <= m
  BY <1>1, Bounded DEF VideoIs
<1>4. \A f \in W : dist[f] \in Nat /\ dist[f] <= m
  BY <1>2, <1>3 DEF VideoIs
<1>5. rest \in SUBSET Nat /\ rest # {} /\ \A x \in rest : x <= m
  BY <1>4
<1>6. PICK second : second = Max(rest) /\ second \in Nat /\ \A x \in rest : x <= second
  BY <1>5, MaxOf
<1>7. dist[k] = dist[top] /\ dist[k] > Alpha2 * second
  BY <1>6 DEF IsBoundary
<1>8. Alpha2 * second >= second
  BY <1>1, <1>6
<1>9. \A f \in W \ {top} : dist[f] < dist[k]
  <2>1. ASSUME NEW f \in W \ {top} PROVE dist[f] < dist[k]
    <3>1. dist[f] \in rest
      OBVIOUS
    <3>2. dist[f] \in Nat /\ dist[k] \in Nat /\ dist[f] <= second
      BY <1>2, <1>4, <1>6, <3>1
    <3> HIDE DEF rest, top, W
    <3>3. Alpha2 * second \in Nat
      BY <1>1, <1>6
    <3> QED BY <1>6, <1>7, <1>8, <3>2, <3>3
  <2> QED BY <2>1
<1>10. k = top
  <2>1. dist[k] \in Nat
    BY <1>2, <1>4
  <2> QED BY <1>2, <1>9, <2>1
<1> QED BY <1>2, <1>9, <1>10 DEF Peak

LEMMA InitVideo == VideoBegins /\ FileIs => VideoInv
BY DEF VideoBegins, VideoInv, BoundsInv, ShotsInv, FramesInv

LEMMA VideoStays ==
    ASSUME UNCHANGED file
    PROVE  /\ nbframes' = nbframes /\ step' = step /\ dist' = dist /\ stored' = stored
           /\ (VideoIs => VideoIs') /\ (FileIs => FileIs')
           /\ \A f : Peak(f)' <=> Peak(f)
<1>1. UNCHANGED <<frames, rate, dist, stored>>
  BY DEF file
<1>2. nbframes' = nbframes /\ step' = step
  BY <1>1 DEF nbframes, step
<1>3. VideoIs => VideoIs'
  BY <1>1, <1>2 DEF VideoIs
<1> QED BY <1>1, <1>2, <1>3 DEF FileIs, Peak

LEMMA ReturnKeeps ==
    ASSUME VideoInv, NEW result \in {"failed", "done", "undefined"}, Return(result),
           result = "undefined" => step = 0 \/ nbframes < 2,
           result = "done" => pcV = "frames" /\ KeysLeft = {}
    PROVE  VideoInv'
<1>1. /\ UNCHANGED <<file, k, read, bnds, nbboundaries, shot, marks, pframelist>>
      /\ pcV' = result
  BY DEF Return
<1>2. /\ nbframes' = nbframes /\ step' = step /\ dist' = dist /\ stored' = stored
      /\ (VideoIs => VideoIs') /\ FileIs'
      /\ \A f : Peak(f)' <=> Peak(f)
  BY <1>1, VideoStays DEF VideoInv, BoundsInv
<1>3. Keys' = Keys
  BY <1>1 DEF Keys
<1>4. Marked => Marked'
  BY <1>1, <1>2 DEF Marked
<1>5. BoundsInv'
  BY <1>1, <1>2, <1>4 DEF VideoInv, BoundsInv
<1>6. CASE result # "done"
  BY <1>1, <1>5, <1>6 DEF VideoInv, ShotsInv, FramesInv
<1>7. CASE result = "done"
  <2>0. pcV = "frames"
    BY <1>7
  <2>1. \A a, b : KeyOf(a, b) => KeyOf(a, b)'
    BY <1>1, <1>2, <1>3 DEF KeyOf, IsKey
  <2>2. ShotsInv'
    <3>1. pcV' = "done"
      BY <1>1, <1>7
    <3>2. ShotsInv
      BY DEF VideoInv
    <3> QED BY <2>0, <3>1, <3>2, <1>1, <1>2, <1>3, <2>1 DEF ShotsInv
  <2>3. \A f \in Keys : f < k
    <3>1. ASSUME NEW f \in Keys, ~(f < k) PROVE FALSE
      <4>1. /\ bnds \in [0..(nbframes - 1) -> 0..2] /\ k \in 0..nbframes
            /\ nbframes \in Nat /\ f \in 0..(nbframes - 1) /\ bnds[f] = 2
        BY <2>0 DEF VideoInv, BoundsInv, VideoIs, ShotsInv, FramesInv, Keys
      <4>2. f \in KeysLeft
        BY <3>1, <4>1 DEF KeysLeft
      <4> QED BY <1>7, <4>2
    <3> QED BY <3>1
  <2>4. FramesInv'
    BY <1>1, <1>2, <1>3, <1>7, <2>0, <2>3 DEF VideoInv, FramesInv
  <2> QED BY <1>5, <2>2, <2>4 DEF VideoInv
<1> QED BY <1>6, <1>7

\* A header that is of use makes the frames countable.
LEMMA OpenKeeps ==
    ASSUME VideoInv, OpenVideo
    PROVE  VideoInv'
<1>1. pcV = "open" /\ FileIs
  BY DEF OpenVideo, VideoInv, BoundsInv
<1>2. CASE frames < 0 \/ rate < 0
  BY <1>2, ReturnKeeps DEF OpenVideo
<1>3. CASE ~(frames < 0 \/ rate < 0) /\ step = 0
  BY <1>3, ReturnKeeps DEF OpenVideo
<1>4. CASE ~(frames < 0 \/ rate < 0) /\ step # 0
  <2>1. frames >= 0 /\ rate > 0
    BY <1>1, <1>4 DEF FileIs, step
  <2>2. /\ UNCHANGED <<file, k, read, bnds, nbboundaries, shot, marks, pframelist>>
        /\ pcV' = "read"
    BY <1>4 DEF OpenVideo, Return
  <2>3. VideoIs' /\ FileIs'
    BY <1>1, <2>1, <2>2, VideoStays DEF FileIs
  <2>4. marks' = {} /\ shot' = 0 /\ pframelist' = <<>>
    BY <1>1, <2>2 DEF VideoInv, BoundsInv
  <2> QED BY <2>2, <2>3, <2>4 DEF VideoInv, BoundsInv, ShotsInv, FramesInv
<1> QED BY <1>2, <1>3, <1>4

LEMMA ReadKeeps ==
    ASSUME VideoInv, ReadOn
    PROVE  VideoInv'
<1>1. /\ pcV = "read" /\ pcV' \in {"read", "begin"}
      /\ UNCHANGED <<file, bnds, nbboundaries, shot, marks, pframelist>>
  BY DEF ReadOn
<1> QED BY <1>1, VideoStays DEF VideoInv, BoundsInv, ShotsInv, FramesInv

LEMMA BeginKeeps ==
    ASSUME VideoInv, BeginBounds
    PROVE  VideoInv'
<1>0. pcV = "begin" /\ nbframes \in Nat
  BY DEF BeginBounds, VideoInv, BoundsInv, VideoIs
<1>1. CASE nbframes = 0
  BY <1>1, ReturnKeeps DEF BeginBounds
<1>2. CASE nbframes # 0
  <2>1. /\ pcV' = "bounds" /\ k' = 1 /\ bnds' = [f \in {0} |-> 1]
        /\ UNCHANGED <<file, read, nbboundaries, shot, marks, pframelist>>
    BY <1>2 DEF BeginBounds
  <2>2. bnds' \in [0..(k' - 1) -> 0..1] /\ bnds'[0] = 1
    BY <2>1
  <2>3. \A f \in 1..(k' - 1) : FALSE
    BY <2>1
  <2> QED BY <1>0, <1>2, <2>1, <2>2, <2>3, VideoStays
          DEF VideoInv, BoundsInv, ShotsInv, FramesInv
<1> QED BY <1>1, <1>2

LEMMA BoundKeeps ==
    ASSUME VideoInv, Bound
    PROVE  VideoInv'
<1>0. /\ pcV = "bounds" /\ nbframes \in Nat \ {0} /\ k \in 1..nbframes
      /\ bnds \in [0..(k - 1) -> 0..1] /\ bnds[0] = 1
      /\ k = 1 \/ k < nbframes - 1
  BY DEF Bound, VideoInv, BoundsInv, VideoIs
<1>1. CASE k >= nbframes
  <2>1. nbframes < 2
    BY <1>0, <1>1
  <2> QED BY <1>1, <2>1, ReturnKeeps DEF Bound
<1>2. CASE k < nbframes
  <2>1. /\ bnds' = [f \in DOMAIN bnds \cup {k} |->
                       IF f < k THEN bnds[f] ELSE IF IsBoundary THEN 1 ELSE 0]
        /\ k' = k + 1
        /\ pcV' = IF k' < nbframes - 1 THEN "bounds" ELSE "last"
        /\ UNCHANGED <<file, read, shot, marks, pframelist>>
    BY <1>0, <1>2 DEF Bound
  <2>2. DOMAIN bnds \cup {k} = 0..(k' - 1)
    BY <1>0, <2>1
  <2>3. bnds' \in [0..(k' - 1) -> 0..1] /\ bnds'[0] = 1
    BY <1>0, <2>1, <2>2
  <2>4. \A f \in 1..(k' - 1) : bnds'[f] = 1 => Peak(f)
    <3>1. ASSUME NEW f \in 1..(k' - 1), bnds'[f] = 1 PROVE Peak(f)
      <4>1. CASE f < k
        <5>1. f \in 1..(k - 1) /\ bnds[f] = 1
          BY <1>0, <2>1, <3>1, <4>1
        <5> QED BY <1>0, <5>1 DEF VideoInv, BoundsInv
      <4>2. CASE ~(f < k)
        <5>1. f = k
          BY <1>0, <2>1, <4>2
        <5>2. IsBoundary
          BY <1>0, <2>1, <2>2, <3>1, <5>1
        <5> QED BY <1>0, <1>2, <5>1, <5>2, BoundaryIsPeak DEF VideoInv, BoundsInv
      <4> QED BY <4>1, <4>2
    <3> QED BY <3>1
  <2>5. /\ nbframes' = nbframes /\ VideoIs' /\ FileIs'
        /\ \A f : Peak(f)' <=> Peak(f)
    BY <1>0, <2>1, VideoStays DEF VideoInv, BoundsInv
  <2>6. k' \in 1..nbframes
    BY <1>0, <1>2, <2>1
  <2>7. /\ pcV' = "last" => nbframes >= 2 /\ k' >= nbframes - 1
        /\ pcV' = "bounds" => k' < nbframes - 1
    BY <1>0, <1>2, <2>1
  <2>8. pcV' \in {"bounds", "last"}
    BY <2>1
  <2>9. marks' = {} /\ shot' = 0 /\ pframelist' = <<>>
    BY <1>0, <2>1 DEF VideoInv, BoundsInv
  <2>10. BoundsInv'
    <3>1. pcV' \notin {"open", "read", "failed", "begin", "shots", "frames", "done", "undefined"}
      BY <2>8
    <3>2. \A f \in 1..(k' - 1) : bnds'[f] = 1 => Peak(f)'
      BY <2>4, <2>5
    <3>3. nbframes' > 0 /\ k' \in 1..nbframes'
      BY <1>0, <2>5, <2>6
    <3> QED BY <2>3, <2>5, <2>7, <2>8, <2>9, <3>1, <3>2, <3>3 DEF BoundsInv
  <2> QED BY <2>8, <2>10 DEF VideoInv, ShotsInv, FramesInv
<1> QED BY <1>0, <1>1, <1>2

LEMMA LastKeeps ==
    ASSUME VideoInv, LastBound
    PROVE  VideoInv'
<1>1. /\ pcV = "last" /\ nbframes \in Nat /\ nbframes >= 2 /\ k \in 1..nbframes
      /\ k >= nbframes - 1
      /\ bnds \in [0..(k - 1) -> 0..1] /\ bnds[0] = 1
      /\ \A f \in 1..(k - 1) : bnds[f] = 1 => Peak(f)
      /\ shot = 0 /\ pframelist = <<>>
  BY DEF LastBound, VideoInv, BoundsInv, VideoIs
<1>2. /\ bnds' = [f \in 0..(nbframes - 1) |-> IF f = nbframes - 1 THEN 1 ELSE bnds[f]]
      /\ marks' = {f \in DOMAIN bnds' : bnds'[f] = 1}
      /\ pcV' = "shots"
      /\ UNCHANGED <<file, k, read, shot, pframelist>>
  BY DEF LastBound
<1>3. nbframes' = nbframes /\ VideoIs' /\ FileIs' /\ \A f : Peak(f)' <=> Peak(f)
  BY <1>1, <1>2, VideoStays DEF VideoInv, BoundsInv
<1>4. /\ DOMAIN bnds' = 0..(nbframes - 1)
      /\ bnds'[nbframes - 1] = 1
      /\ \A f \in 0..(nbframes - 2) : f \in 0..(k - 1) /\ bnds'[f] = bnds[f]
  BY <1>1, <1>2
<1>5. bnds' \in [0..(nbframes - 1) -> 0..2]
  BY <1>1, <1>2
<1>6. Marked'
  <2>1. marks' \subseteq 0..(nbframes - 1) /\ 0 \in marks' /\ nbframes - 1 \in marks'
    BY <1>1, <1>2, <1>4
  <2>2. ASSUME NEW f \in marks' \ {0, nbframes - 1} PROVE Peak(f)
    <3>1. f \in 0..(nbframes - 1) /\ bnds'[f] = 1
      BY <1>2, <1>4
    <3>2. f \in 0..(nbframes - 2) /\ f \in 1..(k - 1)
      BY <1>1, <1>4, <3>1
    <3> QED BY <1>1, <1>4, <3>1, <3>2
  <2> QED BY <1>3, <2>1, <2>2 DEF Marked
<1>7. Keys' = {}
  <2>1. \A f \in 0..(nbframes - 1) : bnds'[f] # 2
    BY <1>1, <1>2
  <2> QED BY <1>4, <2>1 DEF Keys
<1>8. BoundsInv'
  BY <1>1, <1>2, <1>3, <1>6 DEF BoundsInv
<1>9. ShotsInv'
  <2>1. shot' = 0 /\ 0 \in marks'
    BY <1>1, <1>2, <1>6 DEF Marked
  <2>2. \A f \in 0..(nbframes - 1) : IF f \in marks' THEN bnds'[f] = 1 ELSE bnds'[f] = 0
    BY <1>1, <1>2, <1>4
  <2>3. marks' \cap (0..0) = {0}
    BY <2>1
  <2>4. Cardinality(marks' \cap (0..0)) = 1 /\ Cardinality({}) = 0
    BY <2>3, FS_Singleton, FS_EmptySet
  <2>5. \A a, b \in marks' : ~(a < b /\ b <= 0)
    BY <1>3, <1>6 DEF Marked
  <2>6. 0 < nbframes - 1
    BY <1>1
  <2> QED BY <1>2, <1>3, <1>5, <1>7, <2>1, <2>2, <2>4, <2>5, <2>6 DEF ShotsInv
<1>10. FramesInv'
  BY <1>1, <1>2 DEF FramesInv
<1> QED BY <1>8, <1>9, <1>10 DEF VideoInv

\* A shot that is looked at ends with the next boundary; its key frame lies in it.
LEMMA KeyFrameWithin ==
    ASSUME VideoIs, NEW a \in Nat, NEW b \in 1..(nbframes - 1), a < b
    PROVE  /\ LeastIn(a + 1, b) \in (a + 1)..b
           /\ b > a + 1 =>
                  /\ LeastIn(a + 1, b) < b
                  /\ \A g \in (a + 1)..(b - 1) : dist[LeastIn(a + 1, b)] <= dist[g]
<1>1. nbframes \in Nat
  BY DEF VideoIs
<1>2. CASE b = a + 1
  <2>1. (a + 1)..(b - 1) = {}
    BY <1>2
  <2>2. LeastIn(a + 1, b) = a + 1
    BY <2>1 DEF LeastIn
  <2> QED BY <1>1, <1>2, <2>2
<1>3. CASE b > a + 1
  <2>1. \A f \in (a + 1)..(b - 1) : dist[f] \in Nat
    BY <1>1 DEF VideoIs
  <2>0. a + 1 \in (a + 1)..(b - 1)
    BY <1>1, <1>3
  <2>2. (a + 1)..(b - 1) # {} /\ a + 1 \in Nat /\ b - 1 \in Nat /\ a + 1 <= b - 1
    BY <1>1, <1>3, <2>0
  <2>3. \E f \in (a + 1)..(b - 1) : \A g \in (a + 1)..(b - 1) :
            dist[f] <= dist[g] /\ (g < f => dist[f] < dist[g])
    BY <2>1, <2>2, FirstLeast
  <2>4. PICK f : /\ f = LeastIn(a + 1, b) /\ f \in (a + 1)..(b - 1)
                 /\ \A g \in (a + 1)..(b - 1) : dist[f] <= dist[g]
    BY <2>2, <2>3 DEF LeastIn
  <2> QED BY <1>1, <2>4
<1> QED BY <1>1, <1>2, <1>3

LEMMA ShotKeeps ==
    ASSUME VideoInv, Shot
    PROVE  VideoInv'
<1> DEFINE ends == {f \in (shot + 1)..(nbframes - 1) : bnds[f] = 1}
<1>1. /\ pcV = "shots" /\ nbframes \in Nat /\ nbframes >= 2 /\ Marked
      /\ bnds \in [0..(nbframes - 1) -> 0..2]
      /\ shot \in marks /\ shot < nbframes - 1
      /\ \A f \in 0..(nbframes - 1) : f > shot =>
               (IF f \in marks THEN bnds[f] = 1 ELSE bnds[f] = 0)
      /\ Keys \subseteq 1..shot
      /\ Cardinality(Keys) = Cardinality(marks \cap (0..shot)) - 1
      /\ \A a, b \in marks :
               a < b /\ b <= shot /\ (a + 1)..(b - 1) \cap marks = {} => KeyOf(a, b)
      /\ pframelist = <<>>
  BY DEF Shot, VideoInv, BoundsInv, VideoIs, ShotsInv, FramesInv
<1>2. shot \in Nat /\ marks \subseteq 0..(nbframes - 1) /\ nbframes - 1 \in marks
  BY <1>1 DEF Marked
<1>3. ends = {f \in marks : f > shot}
  BY <1>1, <1>2
<1>4. nbframes - 1 \in ends /\ ends \in SUBSET Nat
  BY <1>1, <1>2, <1>3
<1> HIDE DEF ends
<1>5. PICK e : e = Min(ends) /\ e \in ends /\ \A x \in ends : e <= x
  BY <1>4, MinOf
<1>6. PICK f : f = LeastIn(shot + 1, e)
  OBVIOUS
<1>7. /\ bnds' = [bnds EXCEPT ![f] = 2] /\ shot' = e /\ k' = 0
      /\ pcV' = IF e < nbframes - 1 THEN "shots" ELSE "frames"
      /\ UNCHANGED <<file, read, nbboundaries, marks, pframelist>>
  BY <1>4, <1>5, <1>6 DEF Shot, ends
<1>8. /\ nbframes' = nbframes /\ VideoIs' /\ FileIs' /\ dist' = dist /\ stored' = stored
      /\ (\A x : Peak(x)' <=> Peak(x)) /\ Marked'
  BY <1>1, <1>7, VideoStays DEF VideoInv, BoundsInv, Marked
<1>9. /\ e \in marks /\ e > shot /\ e \in 1..(nbframes - 1)
      /\ \A x \in marks : x > shot => e <= x
  BY <1>2, <1>3, <1>5
<1>10. /\ f \in (shot + 1)..e
       /\ e > shot + 1 => f < e /\ \A g \in (shot + 1)..(e - 1) : dist[f] <= dist[g]
  BY <1>2, <1>6, <1>9, KeyFrameWithin DEF VideoInv, BoundsInv
<1>11. f \in 0..(nbframes - 1) /\ f \notin Keys
  BY <1>1, <1>2, <1>9, <1>10
<1>12. bnds' \in [0..(nbframes - 1) -> 0..2] /\ Keys' = Keys \cup {f}
  <2>1. bnds' \in [0..(nbframes - 1) -> 0..2]
    <3>1. 2 \in 0..2 /\ [bnds EXCEPT ![f] = 2] \in [0..(nbframes - 1) -> 0..2]
      BY <1>1, <1>11
    <3> QED BY <1>7, <3>1
  <2>2. \A x \in 0..(nbframes - 1) : bnds'[x] = IF x = f THEN 2 ELSE bnds[x]
    BY <1>1, <1>7
  <2> QED BY <1>1, <1>11, <2>1, <2>2 DEF Keys
<1>13. BoundsInv'
  BY <1>1, <1>7, <1>8 DEF BoundsInv
<1>14. ASSUME NEW a \in marks, NEW b \in marks, a < b, b <= e,
              (a + 1)..(b - 1) \cap marks = {}
       PROVE  KeyOf(a, b)'
  <2>1. a \in Nat /\ b \in Nat /\ e \in Nat /\ f \in Nat
    BY <1>2, <1>9, <1>10
  <2>2. CASE b <= shot
    <3>a. KeyOf(a, b)
      BY <1>1, <1>14, <2>2
    <3>1. PICK x \in Keys : /\ Keys \cap ((a + 1)..b) = {x}
                            /\ b > a + 1 => x < b /\ \A g \in (a + 1)..(b - 1) : dist[x] <= dist[g]
      <4>1. PICK x \in Keys : IsKey(x, a, b)
        BY <3>a DEF KeyOf
      <4> QED BY <4>1 DEF IsKey
    <3>2. f \notin (a + 1)..b
      BY <1>2, <1>10, <2>1, <2>2
    <3>3. Keys' \cap ((a + 1)..b) = {x}
      BY <1>12, <3>1, <3>2
    <3> QED BY <1>7, <1>8, <3>1, <3>3 DEF KeyOf, IsKey
  <2>3. CASE b > shot
    <3>1. b = e
      BY <1>9, <1>14, <2>1, <2>3
    <3>2. a <= shot
      BY <1>2, <1>9, <1>14, <2>1
    <3>3. ~(a < shot)
      BY <1>1, <1>2, <1>14, <2>1, <2>3
    <3>4. a = shot
      BY <1>2, <2>1, <3>2, <3>3
    <3>5. Keys \cap ((a + 1)..b) = {}
      BY <1>1, <1>2, <3>4
    <3>6. Keys' \cap ((a + 1)..b) = {f}
      BY <1>10, <1>12, <3>1, <3>4, <3>5
    <3> QED BY <1>7, <1>8, <1>10, <3>1, <3>4, <3>6 DEF KeyOf, IsKey
  <2> QED BY <1>2, <2>1, <2>2, <2>3
<1>15. Cardinality(Keys') = Cardinality(marks \cap (0..e)) - 1
  <2>1. marks \cap (0..e) = (marks \cap (0..shot)) \cup {e} /\ e \notin marks \cap (0..shot)
    BY <1>2, <1>9
  <2>2. /\ IsFiniteSet(0..shot) /\ IsFiniteSet(1..shot)
    BY <1>2, FS_Interval
  <2>3. IsFiniteSet(marks \cap (0..shot)) /\ IsFiniteSet(Keys)
    BY <1>1, <2>2, FS_Subset
  <2>4. Cardinality(marks \cap (0..shot)) \in Nat /\ Cardinality(Keys) \in Nat
    BY <2>3, FS_CardinalityType
  <2>5. /\ Cardinality(marks \cap (0..e)) = Cardinality(marks \cap (0..shot)) + 1
        /\ Cardinality(Keys \cup {f}) = Cardinality(Keys) + 1
    BY <1>11, <2>1, <2>3, FS_AddElement
  <2> QED BY <1>1, <1>12, <2>4, <2>5
<1>16. ShotsInv'
  <2>1. IF pcV' = "shots" THEN e < nbframes - 1 ELSE e = nbframes - 1
    BY <1>1, <1>7, <1>9
  <2>2. Keys' \subseteq 1..e
    BY <1>1, <1>2, <1>9, <1>10, <1>12
  <2>3. \A x \in 0..(nbframes - 1) : x > e =>
               (IF x \in marks THEN bnds'[x] = 1 ELSE bnds'[x] = 0)
    <3>1. ASSUME NEW x \in 0..(nbframes - 1), x > e
          PROVE  IF x \in marks THEN bnds'[x] = 1 ELSE bnds'[x] = 0
      <4>1. x # f /\ x > shot
        BY <1>2, <1>9, <1>10, <3>1
      <4>2. bnds'[x] = bnds[x]
        BY <1>1, <1>7, <4>1
      <4> QED BY <1>1, <4>1, <4>2
    <3> QED BY <3>1
  <2> QED BY <1>7, <1>8, <1>9, <1>12, <1>14, <1>15, <2>1, <2>2, <2>3 DEF ShotsInv
<1>17. FramesInv'
  <2>1. CASE pcV' = "shots"
    BY <1>1, <1>7, <2>1 DEF FramesInv
  <2>2. CASE pcV' = "frames"
    <3>1. k' = 0 /\ pframelist' = <<>> /\ k' \in 0..nbframes'
      BY <1>1, <1>7, <1>8
    <3>2. Range(<<>>) = {} /\ <<>> \in Seq(Nat) /\ DOMAIN <<>> = {}
      BY DEF Range
    <3>3. \A x \in Keys' : ~(x < 0)
      BY <1>2, <1>10, <1>1, <1>12
    <3> QED BY <2>2, <3>1, <3>2, <3>3 DEF FramesInv
  <2> QED BY <1>7, <2>1, <2>2
<1> QED BY <1>13, <1>16, <1>17 DEF VideoInv

\* The key frames are read in order, those the video has.
LEMMA FrameKeeps ==
    ASSUME VideoInv, ReadFrame
    PROVE  VideoInv'
<1>1. /\ pcV = "frames" /\ nbframes \in Nat /\ nbframes >= 2 /\ Marked
      /\ k \in 0..nbframes /\ pframelist \in Seq(Nat) /\ stored \in Nat
      /\ bnds \in [0..(nbframes - 1) -> 0..2]
      /\ Range(pframelist) = {f \in Keys : f < stored /\ f < k}
      /\ \A p, q \in DOMAIN pframelist : p < q => pframelist[p] < pframelist[q]
  BY DEF ReadFrame, VideoInv, BoundsInv, VideoIs, FramesInv, ShotsInv
<1>2. KeysLeft \in SUBSET Nat /\ KeysLeft # {}
  BY <1>1 DEF KeysLeft, ReadFrame
<1>3. PICK n : n = Min(KeysLeft) /\ n \in KeysLeft /\ \A x \in KeysLeft : n <= x
  BY <1>2, MinOf
<1>4. /\ k' = n + 1
      /\ pframelist' = IF n < stored THEN Append(pframelist, n) ELSE pframelist
      /\ UNCHANGED <<file, pcV, read, bnds, nbboundaries, shot, marks>>
  BY <1>3 DEF ReadFrame
<1>5. /\ nbframes' = nbframes /\ VideoIs' /\ FileIs' /\ dist' = dist /\ stored' = stored
      /\ (\A x : Peak(x)' <=> Peak(x)) /\ Marked'
  BY <1>1, <1>4, VideoStays DEF VideoInv, BoundsInv, Marked
<1>6. Keys' = Keys /\ Keys = {f \in 0..(nbframes - 1) : bnds[f] = 2}
  BY <1>1, <1>4 DEF Keys
<1>7. n \in k..(nbframes - 1) /\ n \in Keys /\ \A x \in Keys : x < n => x < k
  BY <1>1, <1>2, <1>3, <1>6 DEF KeysLeft
<1>8. BoundsInv'
  BY <1>1, <1>4, <1>5 DEF BoundsInv, VideoInv
<1>9. ShotsInv'
  <2>1. \A a, b : KeyOf(a, b) => KeyOf(a, b)'
    BY <1>4, <1>5, <1>6 DEF KeyOf, IsKey
  <2>2. ShotsInv
    BY DEF VideoInv
  <2> QED BY <1>4, <1>5, <1>6, <2>1, <2>2 DEF ShotsInv
<1>10. Range(pframelist') = {f \in Keys : f < stored /\ f < n + 1}
  <2>1. {f \in Keys : f < stored /\ f < n + 1} =
            Range(pframelist) \cup (IF n < stored THEN {n} ELSE {})
    BY <1>1, <1>6, <1>7
  <2>2. CASE n < stored
    <3>0. n \in Nat
      BY <1>1, <1>7
    <3>1. Range(Append(pframelist, n)) = Range(pframelist) \cup {n}
      BY <1>1, <3>0, AppendSet
    <3> QED BY <1>4, <2>1, <2>2, <3>1
  <2>3. CASE ~(n < stored)
    BY <1>4, <2>1, <2>3
  <2> QED BY <2>2, <2>3
<1>11. \A p, q \in DOMAIN pframelist' : p < q => pframelist'[p] < pframelist'[q]
  <2>1. CASE n < stored
    <3>1. \A p \in DOMAIN pframelist : pframelist[p] < n
      <4>1. ASSUME NEW p \in DOMAIN pframelist PROVE pframelist[p] < n
        <5>1. pframelist[p] \in Range(pframelist)
          BY DEF Range
        <5>2. pframelist[p] < k /\ pframelist[p] \in Nat
          BY <1>1, <5>1
        <5> QED BY <1>1, <1>7, <5>2
      <4> QED BY <4>1
    <3>2. /\ Len(Append(pframelist, n)) = Len(pframelist) + 1
          /\ \A p \in 1..Len(pframelist) : Append(pframelist, n)[p] = pframelist[p]
          /\ Append(pframelist, n)[Len(pframelist) + 1] = n
      BY <1>1, <1>7
    <3> QED BY <1>1, <1>4, <2>1, <3>1, <3>2
  <2>2. CASE ~(n < stored)
    BY <1>1, <1>4, <2>2
  <2> QED BY <2>1, <2>2
<1>12. FramesInv'
  <2>1. pframelist' \in Seq(Nat) /\ k' \in 0..nbframes'
    BY <1>1, <1>4, <1>5, <1>7
  <2> QED BY <1>1, <1>4, <1>5, <1>6, <1>10, <1>11, <2>1 DEF FramesInv
<1> QED BY <1>8, <1>9, <1>12 DEF VideoInv

LEMMA VideoKeeps ==
    ASSUME VideoInv, [VideoStep]_videoVars
    PROVE  VideoInv'
<1>a. CASE OpenVideo
  BY <1>a, OpenKeeps
<1>b. CASE NoVideoMemory
  BY <1>b, ReturnKeeps DEF NoVideoMemory
<1>1. CASE ReadFails
  BY <1>1, ReturnKeeps DEF ReadFails
<1>2. CASE VideoEnds
  BY <1>2, ReturnKeeps DEF VideoEnds
<1>3. CASE UNCHANGED videoVars
  <2>1. UNCHANGED <<file, pcV, k, read, bnds, nbboundaries, shot, marks, pframelist>>
    BY <1>3 DEF videoVars
  <2>2. /\ nbframes' = nbframes /\ step' = step /\ dist' = dist /\ stored' = stored
        /\ (VideoIs => VideoIs') /\ (FileIs => FileIs') /\ (\A x : Peak(x)' <=> Peak(x))
        /\ Keys' = Keys
    BY <2>1, VideoStays DEF Keys
  <2>3. (Marked => Marked') /\ \A a, b : KeyOf(a, b) => KeyOf(a, b)'
    BY <2>1, <2>2 DEF Marked, KeyOf, IsKey
  <2>4. BoundsInv'
    BY <2>1, <2>2, <2>3 DEF VideoInv, BoundsInv
  <2>5. ShotsInv'
    <3>1. ShotsInv
      BY DEF VideoInv
    <3> QED BY <2>1, <2>2, <2>3, <3>1 DEF ShotsInv
  <2>6. FramesInv'
    BY <2>1, <2>2 DEF VideoInv, FramesInv
  <2> QED BY <2>4, <2>5, <2>6 DEF VideoInv
<1> QED BY <1>a, <1>b, <1>1, <1>2, <1>3, ReadKeeps, BeginKeeps, BoundKeeps, LastKeeps, ShotKeeps,
           FrameKeeps DEF VideoStep

\* The properties from the invariant.
LEMMA ShotsHaveOneFrame == VideoInv => OneFramePerShot
<1> SUFFICES ASSUME VideoInv, pcV \in {"frames", "done"} PROVE OneFramePerShot
  BY DEF OneFramePerShot
<1>1. /\ nbframes \in Nat /\ nbframes >= 2 /\ Marked
      /\ shot = nbframes - 1 /\ Keys \subseteq 1..shot
      /\ Cardinality(Keys) = Cardinality(marks \cap (0..shot)) - 1
      /\ \A a, b \in marks :
               a < b /\ b <= shot /\ (a + 1)..(b - 1) \cap marks = {} => KeyOf(a, b)
  BY DEF VideoInv, BoundsInv, VideoIs, ShotsInv
<1>2. marks \subseteq 0..(nbframes - 1) /\ marks \cap (0..shot) = marks
  BY <1>1 DEF Marked
<1>3. Cardinality(Keys) = Cardinality(marks) - 1
  BY <1>1, <1>2
<1>4. ASSUME NEW a \in marks, NEW b \in marks, a < b, (a + 1)..(b - 1) \cap marks = {}
      PROVE  LET within == Keys \cap ((a + 1)..b)
             IN /\ Cardinality(within) = 1
                /\ b > a + 1 =>
                     \A f \in within, g \in (a + 1)..(b - 1) : f < b /\ dist[f] <= dist[g]
  <2>1. b <= shot
    BY <1>1, <1>2
  <2>a. KeyOf(a, b)
    BY <1>1, <1>4, <2>1
  <2>2. PICK x \in Keys : /\ Keys \cap ((a + 1)..b) = {x}
                          /\ b > a + 1 => x < b /\ \A g \in (a + 1)..(b - 1) : dist[x] <= dist[g]
    <3>1. PICK x \in Keys : IsKey(x, a, b)
      BY <2>a DEF KeyOf
    <3> QED BY <3>1 DEF IsKey
  <2>3. Cardinality({x}) = 1
    BY FS_Singleton
  <2> QED BY <2>2, <2>3
<1>5. pcV = "done" =>
         /\ Range(pframelist) = {f \in Keys : f < stored}
         /\ \A p, q \in DOMAIN pframelist : p < q => pframelist[p] < pframelist[q]
  BY DEF VideoInv, FramesInv
<1> QED BY <1>3, <1>4, <1>5 DEF OneFramePerShot

LEMMA PeaksApart == VideoInv => BoundariesApart
<1> SUFFICES ASSUME VideoInv, NEW a \in marks, NEW b \in marks,
                    a # b, {a, b} \cap {0, nbframes - 1} = {}
             PROVE  Abs(a - b) > S
  BY DEF BoundariesApart
<1>1. nbframes \in Nat /\ S \in Nat /\ Marked /\ dist \in [0..(nbframes - 1) -> Nat]
  BY KeyFramesAssumption DEF VideoInv, BoundsInv, VideoIs
<1>2. a \in 0..(nbframes - 1) /\ b \in 0..(nbframes - 1) /\ Peak(a) /\ Peak(b)
  BY <1>1 DEF Marked
<1>3. dist[a] \in Nat /\ dist[b] \in Nat
  BY <1>1, <1>2
<1>4. ~(b - a <= S /\ a - b <= S)
  BY <1>2, <1>3 DEF Peak
<1> QED BY <1>1, <1>2, <1>4 DEF Abs

LEMMA BoundsHaveRoom == VideoInv => RoomForBounds
BY DEF VideoInv, BoundsInv, VideoIs, RoomForBounds

-----------------------------------------------------------------------------
(* Matches of two texts.                                                   *)

PointsAre == hash1 \in Seq(TxtPoint) /\ hash2 \in Seq(TxtPoint)

\* The loop that measures a run stops at the first pair that differs.
LEMMA LengthIsRun ==
    ASSUME PointsAre, NEW a \in 1..Len(hash1), NEW b \in 1..Len(hash2),
           hash1[a].hash = hash2[b].hash
    PROVE  /\ Length(a, b) \in Nat \ {0}
           /\ SameRun(a, b, Length(a, b))
           /\ ~SameRun(a, b, Length(a, b) + 1)
<1> DEFINE n == Len(hash1)
           Same(x) == /\ a + x <= Len(hash1)
                      /\ b + x <= Len(hash2)
                      /\ hash1[a + x].hash = hash2[b + x].hash
           Rec(f) == f = [x \in Nat |-> IF /\ a + x <= Len(hash1)
                                           /\ b + x <= Len(hash2)
                                           /\ hash1[a + x].hash = hash2[b + x].hash
                                        THEN 1 + f[x + 1] ELSE 0]
           more == CHOOSE f : Rec(f)
           Stops(x, y) == y >= x /\ ~Same(y) /\ \A z \in x..(y - 1) : Same(z)
           End(x) == CHOOSE y \in Nat : Stops(x, y)
           g == [x \in Nat |-> End(x) - x]
<1>1. n \in Nat /\ Len(hash2) \in Nat /\ a \in Nat \ {0} /\ b \in Nat \ {0} /\ a <= n
  BY DEF PointsAre
<1>2. \A x \in Nat : x >= n => ~Same(x)
  BY <1>1
<1>3. ASSUME NEW x \in Nat PROVE \E y \in Nat : Stops(x, y)
  <2> DEFINE T == {y \in Nat : y >= x /\ ~Same(y)}
  <2>1. x + n \in T
    BY <1>1, <1>2
  <2> HIDE DEF Same
  <2>2. PICK y \in T : \A z \in T : y <= z
    BY <2>1, Least
  <2>3. \A z \in x..(y - 1) : Same(z)
    BY <2>2
  <2> QED BY <2>2, <2>3
<1> HIDE DEF Same
<1>4. ASSUME NEW x \in Nat, NEW y \in Nat, NEW z \in Nat, Stops(x, y), Stops(x, z)
      PROVE  y = z
  <2>1. ~(y < z)
    BY <1>4
  <2>2. ~(z < y)
    BY <1>4
  <2> QED BY <2>1, <2>2
<1>5. \A x \in Nat : End(x) \in Nat /\ Stops(x, End(x))
  BY <1>3
<1> HIDE DEF End
<1>6. ASSUME NEW x \in Nat PROVE g[x] = IF Same(x) THEN 1 + g[x + 1] ELSE 0
  <2>1. End(x) \in Nat /\ Stops(x, End(x)) /\ End(x + 1) \in Nat /\ Stops(x + 1, End(x + 1))
    <3>1. x + 1 \in Nat
      OBVIOUS
    <3> HIDE DEF Stops, g
    <3> QED BY <1>5, <3>1
  <2>2. g[x] = End(x) - x /\ g[x + 1] = End(x + 1) - (x + 1)
    OBVIOUS
  <2>3. CASE Same(x)
    <3>1. \A z \in x..(End(x + 1) - 1) : z = x \/ z \in (x + 1)..(End(x + 1) - 1)
      BY <2>1
    <3>2. Stops(x, End(x + 1))
      BY <2>1, <2>3, <3>1
    <3>3. End(x) = End(x + 1)
      BY <1>4, <2>1, <3>2
    <3> QED BY <2>1, <2>2, <2>3, <3>3
  <2>4. CASE ~Same(x)
    <3>1. Stops(x, x)
      BY <2>4
    <3>2. End(x) = x
      BY <1>4, <2>1, <3>1
    <3> QED BY <2>2, <2>4, <3>2
  <2> QED BY <2>3, <2>4
<1>7. Rec(g)
  <2>1. \A x \in Nat : g[x] = IF /\ a + x <= Len(hash1)
                                 /\ b + x <= Len(hash2)
                                 /\ hash1[a + x].hash = hash2[b + x].hash
                              THEN 1 + g[x + 1] ELSE 0
    BY <1>6 DEF Same
  <2> QED BY <2>1
<1>8. Rec(more)
  BY <1>7
<1>9. Length(a, b) = 1 + more[1]
  BY DEF Length
<1>10. \A x \in Nat : more[x] = IF Same(x) THEN 1 + more[x + 1] ELSE 0
  BY <1>8 DEF Same
<1>11. \A x \in Nat : g[x] \in Nat
  <2>1. ASSUME NEW x \in Nat PROVE g[x] \in Nat
    <3>1. End(x) \in Nat /\ End(x) >= x
      BY <1>5
    <3>2. g[x] = End(x) - x
      OBVIOUS
    <3> HIDE DEF g
    <3> QED BY <3>1, <3>2
  <2> QED BY <2>1
<1> HIDE DEF more, g
<1> DEFINE T == {d \in Nat : \A x \in Nat : x + d >= n => more[x] = g[x]}
<1>12. 0 \in T
  BY <1>2, <1>6, <1>10
<1>13. ASSUME NEW d \in T PROVE d + 1 \in T
  <2>1. ASSUME NEW x \in Nat, x + (d + 1) >= n PROVE more[x] = g[x]
    <3>1. (x + 1) + d >= n /\ x + 1 \in Nat
      BY <1>1, <2>1
    <3>2. more[x + 1] = g[x + 1]
      BY <3>1
    <3> QED BY <1>6, <1>10, <3>2
  <2> QED BY <2>1
<1>14. T = Nat
  <2>1. T \in SUBSET Nat
    OBVIOUS
  <2> HIDE DEF T
  <2> QED BY <1>12, <1>13, <2>1, NatInd
<1>15. more[1] = g[1]
  <2>1. n \in T
    BY <1>1, <1>14
  <2> QED BY <1>1, <2>1
<1>16. PICK l : l = End(1) /\ l \in Nat /\ Stops(1, l) /\ Length(a, b) = l
  <2>1. g[1] = End(1) - 1
    BY DEF g
  <2> QED BY <1>5, <1>9, <1>15, <2>1
<1>17. Same(0)
  BY <1>1 DEF Same
<1>18. l \in Nat \ {0} /\ \A x \in 0..(l - 1) : Same(x)
  <2>1. \A x \in 0..(l - 1) : x = 0 \/ x \in 1..(l - 1)
    BY <1>16
  <2> QED BY <1>16, <1>17, <2>1
<1>19. SameRun(a, b, l)
  <2>1. Same(l - 1)
    BY <1>18
  <2> QED BY <1>1, <1>18, <2>1 DEF SameRun, Same
<1>20. ~SameRun(a, b, l + 1)
  <2>1. SUFFICES ASSUME SameRun(a, b, l + 1) PROVE FALSE
    OBVIOUS
  <2>2. ~Same(l)
    BY <1>16
  <2>3. l \in 0..((l + 1) - 1)
    BY <1>18
  <2> QED BY <1>1, <1>18, <2>1, <2>2, <2>3 DEF SameRun, Same
<1> QED BY <1>16, <1>18, <1>19, <1>20

\* The pairs that were looked at, row by row.
Examined(p) == p[1] < i \/ (p[1] = i /\ p[2] < j)

At(m) == <<m.first_index, m.second_index>>

\* What was recorded is what is equal among them.
MatchInv ==
    /\ PointsAre
    /\ pcM \in {"compare", "done", "undefined"}
    /\ i \in 1..(Len(hash1) + 1) /\ j \in 1..(Len(hash2) + 1)
    /\ matches \in Seq([first_index : Nat, second_index : Nat, length : Nat])
    /\ pcM # "undefined" => {At(m) : m \in Range(matches)} = {p \in Pairs : Examined(p)}
    /\ \A p \in DOMAIN matches :
          /\ At(matches[p]) \in Pairs /\ Examined(At(matches[p]))
          /\ SameRun(matches[p].first_index, matches[p].second_index, matches[p].length)
          /\ ~SameRun(matches[p].first_index, matches[p].second_index, matches[p].length + 1)
    /\ \A p, q \in DOMAIN matches : p # q => At(matches[p]) # At(matches[q])
    /\ pcM = "done" => i > Len(hash1)
    /\ pcM # "undefined" => Len(matches) <= MaxMatches
    /\ pcM = "undefined" => Len(matches) > MaxMatches

LEMMA MaxMatchesIs ==
    ASSUME PointsAre
    PROVE  MaxMatches \in Nat /\ MaxMatches >= Len(hash1) /\ MaxMatches >= Len(hash2)
<1>1. Len(hash1) \in Nat /\ Len(hash2) \in Nat
  BY DEF PointsAre
<1>2. \E m \in Nat : m >= Len(hash1) /\ m >= Len(hash2)
  BY <1>1
<1>3. Max({Len(hash1), Len(hash2)}) \in {Len(hash1), Len(hash2)}
      /\ \A x \in {Len(hash1), Len(hash2)} : x <= Max({Len(hash1), Len(hash2)})
  BY <1>1, <1>2, MaxOf
<1> QED BY <1>1, <1>3 DEF MaxMatches

LEMMA InitMatch == MatchBegins /\ PointsAre => MatchInv
<1> SUFFICES ASSUME MatchBegins, PointsAre PROVE MatchInv
  OBVIOUS
<1>1. /\ pcM = "compare" /\ i = 1 /\ j = 1 /\ matches = <<>>
      /\ Len(hash1) \in Nat /\ Len(hash2) \in Nat
  BY DEF MatchBegins, PointsAre
<1>2. \A p \in Pairs : ~Examined(p)
  <2>1. \A p \in Pairs : p[1] \in 1..Len(hash1) /\ p[2] \in 1..Len(hash2)
    BY DEF Pairs
  <2> QED BY <1>1, <2>1 DEF Examined
<1>3. Range(<<>>) = {} /\ DOMAIN <<>> = {} /\ Len(<<>>) = 0
      /\ <<>> \in Seq([first_index : Nat, second_index : Nat, length : Nat])
  BY DEF Range
<1> QED BY <1>1, <1>2, <1>3, MaxMatchesIs DEF MatchInv

LEMMA MatchStepKeeps ==
    ASSUME MatchInv, [MatchStep]_matchVars
    PROVE  MatchInv'
<1> DEFINE M == [first_index : Nat, second_index : Nat, length : Nat]
<1>1. /\ PointsAre /\ Len(hash1) \in Nat /\ Len(hash2) \in Nat
      /\ i \in Nat \ {0} /\ j \in Nat \ {0}
      /\ matches \in Seq(M)
      /\ MaxMatches \in Nat /\ Len(matches) \in Nat
  BY MaxMatchesIs DEF MatchInv, PointsAre
<1>2. \A p \in Pairs : /\ p = <<p[1], p[2]>> /\ p[1] \in 1..Len(hash1)
                       /\ p[2] \in 1..Len(hash2) /\ hash1[p[1]].hash = hash2[p[2]].hash
  BY DEF Pairs
<1>a. UNCHANGED <<hash1, hash2>>
  BY DEF MatchStep, Match, NoMatch, NextRow, MatchEnds, matchVars
<1>b. PointsAre' /\ Pairs' = Pairs /\ MaxMatches' = MaxMatches
      /\ \A x, y, z : SameRun(x, y, z)' <=> SameRun(x, y, z)
  BY <1>1, <1>a DEF PointsAre, Pairs, MaxMatches, SameRun
<1>3. CASE UNCHANGED matchVars
  BY <1>3, <1>b DEF MatchInv, matchVars, Examined, PointsAre
<1>4. CASE MatchEnds
  BY <1>1, <1>4, <1>b DEF MatchInv, MatchEnds, Examined
<1>5. CASE NextRow
  <2>1. /\ pcM = "compare" /\ i <= Len(hash1) /\ j > Len(hash2) /\ i' = i + 1 /\ j' = 1
        /\ UNCHANGED <<pcM, matches>>
    BY <1>5 DEF NextRow
  <2>2. \A p \in Pairs : Examined(p)' <=> Examined(p)
    BY <1>1, <1>2, <2>1 DEF Examined
  <2>3. {p \in Pairs : Examined(p)'} = {p \in Pairs : Examined(p)}
    BY <2>2
  <2> QED BY <1>1, <1>a, <1>b, <2>1, <2>2, <2>3 DEF MatchInv
<1>6. CASE NoMatch
  <2>1. /\ pcM = "compare" /\ i <= Len(hash1) /\ j <= Len(hash2)
        /\ hash1[i].hash # hash2[j].hash /\ i' = i /\ j' = j + 1
        /\ UNCHANGED <<pcM, matches>>
    BY <1>6 DEF NoMatch
  <2>2. \A p \in Pairs : Examined(p)' <=> Examined(p)
    BY <1>1, <1>2, <2>1 DEF Examined
  <2>3. {p \in Pairs : Examined(p)'} = {p \in Pairs : Examined(p)}
    BY <2>2
  <2> QED BY <1>1, <1>a, <1>b, <2>1, <2>2, <2>3 DEF MatchInv
<1>7. CASE Match
  <2> DEFINE new == [first_index |-> i, second_index |-> j, length |-> Length(i, j)]
  <2>1. /\ pcM = "compare" /\ i <= Len(hash1) /\ j <= Len(hash2)
        /\ hash1[i].hash = hash2[j].hash /\ i' = i /\ j' = j + 1
        /\ matches' = Append(matches, new)
        /\ pcM' = IF Len(matches) = MaxMatches THEN "undefined" ELSE "compare"
    BY <1>7 DEF Match
  <2>2. /\ Length(i, j) \in Nat \ {0}
        /\ SameRun(i, j, Length(i, j))
        /\ ~SameRun(i, j, Length(i, j) + 1)
    BY <1>1, <2>1, LengthIsRun
  <2>3. /\ new \in M /\ At(new) = <<i, j>>
        /\ new.first_index = i /\ new.second_index = j /\ new.length = Length(i, j)
    BY <1>1, <2>2 DEF At
  <2> HIDE DEF new, M
  <2>4. /\ matches' \in Seq(M) /\ Len(matches') = Len(matches) + 1
        /\ \A p \in 1..Len(matches) : matches'[p] = matches[p]
        /\ matches'[Len(matches) + 1] = new
        /\ Range(matches') = Range(matches) \cup {new}
    BY <1>1, <2>1, <2>3, AppendRange, AppendSet
  <2>5. <<i, j>> \in Pairs
    BY <1>1, <2>1 DEF Pairs
  <2>6. \A p \in Pairs : Examined(p)' <=> (Examined(p) \/ p = <<i, j>>)
    BY <1>1, <1>2, <2>1 DEF Examined
  <2>7. ~Examined(<<i, j>>)
    BY <1>1 DEF Examined
  <2>8. {At(m) : m \in Range(matches')} = {p \in Pairs : Examined(p)'}
    <3>1. {At(m) : m \in Range(matches)} = {p \in Pairs : Examined(p)}
      BY <2>1 DEF MatchInv
    <3>2. {At(m) : m \in Range(matches')} = {At(m) : m \in Range(matches)} \cup {<<i, j>>}
      BY <2>3, <2>4
    <3> QED BY <2>5, <2>6, <3>1, <3>2
  <2>9. DOMAIN matches = 1..Len(matches) /\ DOMAIN matches' = 1..(Len(matches) + 1)
    BY <1>1, <2>4
  <2>10. ASSUME NEW p \in DOMAIN matches'
         PROVE  /\ At(matches'[p]) \in Pairs /\ Examined(At(matches[p]))'
                /\ SameRun(matches'[p].first_index, matches'[p].second_index,
                           matches'[p].length)
                /\ ~SameRun(matches'[p].first_index, matches'[p].second_index,
                            matches'[p].length + 1)
    <3>1. PICK m : m = matches'[p]
      OBVIOUS
    <3>2. CASE p \in DOMAIN matches
      <4>1. m = matches[p]
        BY <2>4, <2>9, <3>1, <3>2
      <4>2. /\ At(m) \in Pairs /\ Examined(At(m))
            /\ SameRun(m.first_index, m.second_index, m.length)
            /\ ~SameRun(m.first_index, m.second_index, m.length + 1)
        BY <3>2, <4>1 DEF MatchInv
      <4>3. PICK x : x = At(m) /\ Examined(x)'
        BY <2>6, <4>2
      <4> QED BY <3>1, <4>2, <4>3 DEF Examined, At
    <3>3. CASE p \notin DOMAIN matches
      <4>1. m = new
        BY <1>1, <2>4, <2>9, <3>1, <3>3
      <4>2. PICK x : x = At(m) /\ Examined(x)'
        BY <2>3, <2>5, <2>6, <4>1
      <4> QED BY <2>2, <2>3, <2>5, <3>1, <4>1, <4>2 DEF Examined, At
    <3> QED BY <3>2, <3>3
  <2>11. ASSUME NEW p \in DOMAIN matches', NEW q \in DOMAIN matches', p # q
         PROVE  At(matches'[p]) # At(matches'[q])
    <3>1. \A x \in DOMAIN matches : matches'[x] = matches[x] /\ At(matches'[x]) # <<i, j>>
      BY <2>4, <2>7, <2>9 DEF MatchInv
    <3>2. \A x \in DOMAIN matches' : x \in DOMAIN matches \/ matches'[x] = new
      BY <1>1, <2>4, <2>9
    <3>3. p \in DOMAIN matches \/ q \in DOMAIN matches
      BY <1>1, <2>9, <2>11
    <3> QED BY <2>3, <2>11, <3>1, <3>2, <3>3 DEF MatchInv
  <2>12. i' \in 1..(Len(hash1) + 1) /\ j' \in 1..(Len(hash2) + 1)
    BY <1>1, <2>1
  <2>13. /\ pcM' # "undefined" => Len(matches') <= MaxMatches
         /\ pcM' = "undefined" => Len(matches') > MaxMatches
    <3>1. Len(matches) <= MaxMatches
      BY <2>1 DEF MatchInv
    <3> QED BY <1>1, <2>1, <2>4, <3>1
  <2>14. pcM' \in {"compare", "undefined"}
    BY <2>1
  <2> QED BY <1>a, <1>b, <2>4, <2>8, <2>10, <2>11, <2>12, <2>13, <2>14 DEF MatchInv, M
<1> QED BY <1>3, <1>4, <1>5, <1>6, <1>7 DEF MatchStep

LEMMA MatchesAre == MatchInv => MatchesAreRuns
<1> SUFFICES ASSUME MatchInv PROVE MatchesAreRuns
  OBVIOUS
<1>1. ASSUME pcM = "done"
      PROVE  {<<m.first_index, m.second_index>> : m \in Range(matches)} = Pairs
  <2>1. i \in Nat /\ Len(hash1) \in Nat /\ i > Len(hash1)
    BY <1>1 DEF MatchInv, PointsAre
  <2>2. \A p \in Pairs : p[1] \in 1..Len(hash1)
    BY DEF Pairs
  <2>3. \A p \in Pairs : Examined(p)
    BY <2>1, <2>2 DEF Examined
  <2>4. {At(m) : m \in Range(matches)} = {p \in Pairs : Examined(p)}
    BY <1>1 DEF MatchInv
  <2> QED BY <2>3, <2>4 DEF At
<1>2. ASSUME NEW p \in DOMAIN matches, NEW q \in DOMAIN matches
      PROVE  LET m == matches[p]
             IN /\ SameRun(m.first_index, m.second_index, m.length)
                /\ ~SameRun(m.first_index, m.second_index, m.length + 1)
                /\ p # q => \/ m.first_index # matches[q].first_index
                            \/ m.second_index # matches[q].second_index
  BY <1>2 DEF MatchInv, At
<1> QED BY <1>1, <1>2 DEF MatchesAreRuns

\* What was recorded is as much as the pairs that are in it.
LEMMA MatchesCounted ==
    ASSUME MatchInv
    PROVE  /\ IsFiniteSet(Pairs) /\ Cardinality(Pairs) \in Nat
           /\ Len(matches) \in Nat /\ Len(matches) <= Cardinality(Pairs)
           /\ pcM = "done" => Cardinality(Pairs) <= Len(matches)
<1> DEFINE n == Len(matches)
           at == [p \in 1..n |-> At(matches[p])]
<1>1. /\ PointsAre /\ n \in Nat /\ DOMAIN matches = 1..n
      /\ Len(hash1) \in Nat /\ Len(hash2) \in Nat
  BY DEF MatchInv, PointsAre
<1>2. IsFiniteSet(1..n) /\ Cardinality(1..n) = n
  <2> HIDE DEF n
  <2>1. IsFiniteSet(1..n) /\ Cardinality(1..n) = IF 1 > n THEN 0 ELSE n - 1 + 1
    BY <1>1, FS_Interval
  <2> QED BY <1>1, <2>1
<1>3. IsFiniteSet(Pairs)
  <2>1. IsFiniteSet(1..Len(hash1)) /\ IsFiniteSet(1..Len(hash2))
    BY <1>1, FS_Interval
  <2>2. IsFiniteSet((1..Len(hash1)) \X (1..Len(hash2)))
    BY <2>1, FS_Product
  <2>3. Pairs \subseteq (1..Len(hash1)) \X (1..Len(hash2))
    BY DEF Pairs
  <2> QED BY <2>2, <2>3, FS_Subset
<1>4. Cardinality(Pairs) \in Nat
  BY <1>3, FS_CardinalityType
<1>5. at \in [1..n -> Pairs]
  BY <1>1 DEF MatchInv
<1>6. \A p, q \in 1..n : p # q => at[p] # at[q]
  BY <1>1 DEF MatchInv
<1>7. n <= Cardinality(Pairs)
  <2> HIDE DEF at, n
  <2>1. at \in Injection(1..n, Pairs)
    BY <1>5, <1>6 DEF Injection, IsInjective
  <2> QED BY <1>2, <1>3, <2>1, FS_Injection
<1>8. ASSUME pcM = "done" PROVE Cardinality(Pairs) <= n
  <2>1. \A p \in Pairs : Examined(p)
    <3>1. i \in Nat /\ i > Len(hash1)
      BY <1>1, <1>8 DEF MatchInv
    <3>2. \A p \in Pairs : p[1] \in 1..Len(hash1)
      BY DEF Pairs
    <3> QED BY <1>1, <3>1, <3>2 DEF Examined
  <2>2. {At(m) : m \in Range(matches)} = Pairs
    BY <1>8, <2>1 DEF MatchInv
  <2>3. \A p \in Pairs : \E q \in 1..n : at[q] = p
    BY <1>1, <2>2 DEF Range
  <2> HIDE DEF at, n
  <2>4. at \in Surjection(1..n, Pairs)
    BY <1>5, <2>3 DEF Surjection
  <2> QED BY <1>2, <2>4, FS_Surjection
<1> QED BY <1>1, <1>3, <1>4, <1>7, <1>8

\* Were the points of one text all different, the matches would be no more
\* than the points of the other.
LEMMA MatchesHaveRoom == MatchInv => RoomForMatches
<1> SUFFICES ASSUME MatchInv, pcM = "undefined"
             PROVE  ~IsInjective(Hashes(hash1)) /\ ~IsInjective(Hashes(hash2))
  <2> SUFFICES ASSUME MatchInv PROVE RoomForMatches
    OBVIOUS
  <2>1. PointsAre
    BY DEF MatchInv
  <2>2. pcM = "undefined" => Cardinality(Pairs) > MaxMatches
    BY <2>1, MatchesCounted, MaxMatchesIs DEF MatchInv
  <2>3. pcM = "done" => Cardinality(Pairs) <= MaxMatches
    BY <2>1, MatchesCounted, MaxMatchesIs DEF MatchInv
  <2> QED BY <2>2, <2>3 DEF RoomForMatches
<1> DEFINE n == Len(matches)
           rows == [p \in 1..n |-> matches[p].first_index]
           columns == [p \in 1..n |-> matches[p].second_index]
<1>1. /\ PointsAre /\ n \in Nat /\ DOMAIN matches = 1..n
      /\ Len(hash1) \in Nat /\ Len(hash2) \in Nat /\ n > Len(hash1) /\ n > Len(hash2)
      /\ DOMAIN hash1 = 1..Len(hash1) /\ DOMAIN hash2 = 1..Len(hash2)
  <2>1. PointsAre /\ n > MaxMatches /\ n \in Nat /\ DOMAIN matches = 1..n
    BY DEF MatchInv
  <2> HIDE DEF n
  <2> QED BY <2>1, MaxMatchesIs DEF PointsAre
<1>2. \A p \in 1..n : /\ matches[p].first_index \in 1..Len(hash1)
                      /\ matches[p].second_index \in 1..Len(hash2)
                      /\ hash1[matches[p].first_index].hash = hash2[matches[p].second_index].hash
  <2>1. \A p \in 1..n : At(matches[p]) \in Pairs
    BY <1>1 DEF MatchInv
  <2> QED BY <2>1 DEF Pairs, At
<1>3. \A p, q \in 1..n : p # q => \/ matches[p].first_index # matches[q].first_index
                                  \/ matches[p].second_index # matches[q].second_index
  BY <1>1 DEF MatchInv, At
<1>4. rows \in [1..n -> 1..Len(hash1)] /\ columns \in [1..n -> 1..Len(hash2)]
  BY <1>2
<1>5. /\ IsFiniteSet(1..n) /\ Cardinality(1..n) = n
      /\ IsFiniteSet(1..Len(hash1)) /\ Cardinality(1..Len(hash1)) = Len(hash1)
      /\ IsFiniteSet(1..Len(hash2)) /\ Cardinality(1..Len(hash2)) = Len(hash2)
  <2>1. \A x \in Nat : IsFiniteSet(1..x) /\ Cardinality(1..x) = x
    <3>1. ASSUME NEW x \in Nat PROVE IsFiniteSet(1..x) /\ Cardinality(1..x) = x
      <4>1. IsFiniteSet(1..x) /\ Cardinality(1..x) = IF 1 > x THEN 0 ELSE x - 1 + 1
        BY FS_Interval
      <4> QED BY <4>1
    <3> QED BY <3>1
  <2> QED BY <1>1, <2>1
<1>6. PICK p \in 1..n, q \in 1..n : p # q /\ rows[p] = rows[q]
  <2> HIDE DEF rows, n
  <2> QED BY <1>1, <1>4, <1>5, FS_PigeonHole
<1>7. PICK x \in 1..n, y \in 1..n : x # y /\ columns[x] = columns[y]
  <2> HIDE DEF columns, n
  <2> QED BY <1>1, <1>4, <1>5, FS_PigeonHole
<1>8. ~IsInjective(Hashes(hash2))
  <2>1. matches[p].first_index = matches[q].first_index
    BY <1>6
  <2>2. PICK u \in 1..Len(hash2), v \in 1..Len(hash2) :
            u = matches[p].second_index /\ v = matches[q].second_index
    BY <1>2
  <2>3. u # v /\ hash2[u].hash = hash2[v].hash
    BY <1>2, <1>3, <1>6, <2>1, <2>2
  <2>4. u \in DOMAIN hash2 /\ v \in DOMAIN hash2
    BY <1>1
  <2> QED BY <2>3, <2>4 DEF IsInjective, Hashes
<1>9. ~IsInjective(Hashes(hash1))
  <2>1. matches[x].second_index = matches[y].second_index
    BY <1>7
  <2>2. PICK u \in 1..Len(hash1), v \in 1..Len(hash1) :
            u = matches[x].first_index /\ v = matches[y].first_index
    BY <1>2
  <2>3. u # v /\ hash1[u].hash = hash1[v].hash
    BY <1>2, <1>3, <1>7, <2>1, <2>2
  <2>4. u \in DOMAIN hash1 /\ v \in DOMAIN hash1
    BY <1>1
  <2> QED BY <2>3, <2>4 DEF IsInjective, Hashes
<1> QED BY <1>8, <1>9

\* The values of a recursion at the numbers up to n.
Follows(f, n, begin, turn) ==
    f[0] = begin /\ \A x \in 1..n : f[x] = turn[<<x, f[x - 1]>>]

\* It has a value at each.
LEMMA Recursion ==
    ASSUME NEW n \in Nat, NEW T, NEW begin \in T, NEW turn \in [(1..n) \X T -> T]
    PROVE  \E f \in [0..n -> T] : Follows(f, n, begin, turn)
<1> USE DEF Follows
<1> DEFINE U == {m \in Nat : m <= n => \E f \in [0..m -> T] : Follows(f, m, begin, turn)}
<1>1. 0 \in U
  <2>1. [x \in 0..0 |-> begin] \in [0..0 -> T] /\ Follows([x \in 0..0 |-> begin], 0, begin, turn)
    OBVIOUS
  <2> QED BY <2>1
<1>2. ASSUME NEW m \in U PROVE m + 1 \in U
  <2>1. SUFFICES ASSUME m + 1 <= n PROVE \E f \in [0..(m + 1) -> T] : Follows(f, m + 1, begin, turn)
    OBVIOUS
  <2>2. PICK f \in [0..m -> T] : Follows(f, m, begin, turn)
    BY <2>1
  <2> DEFINE new == turn[<<m + 1, f[m]>>]
             g == [x \in 0..(m + 1) |-> IF x <= m THEN f[x] ELSE new]
  <2>3. new \in T
    <3>1. f[m] \in T /\ m + 1 \in 1..n
      BY <2>1, <2>2
    <3> QED BY <3>1
  <2> HIDE DEF new
  <2>4. g \in [0..(m + 1) -> T]
    BY <2>2, <2>3
  <2>5. (\A x \in 0..m : g[x] = f[x]) /\ g[m + 1] = new
    OBVIOUS
  <2> HIDE DEF g
  <2>6. ASSUME NEW x \in 1..(m + 1) PROVE g[x] = turn[<<x, g[x - 1]>>]
    <3>1. CASE x <= m
      <4>1. x \in 0..m /\ x - 1 \in 0..m /\ x \in 1..m
        BY <3>1
      <4> QED BY <2>2, <2>5, <4>1
    <3>2. CASE x = m + 1
      <4>1. x - 1 = m /\ m \in 0..m
        BY <3>2
      <4> QED BY <2>5, <3>2, <4>1 DEF new
    <3> QED BY <3>1, <3>2
  <2>7. Follows(g, m + 1, begin, turn)
    <3>1. g[0] = begin
      BY <2>2, <2>5
    <3> QED BY <2>6, <3>1
  <2> QED BY <2>4, <2>7
<1>3. U = Nat
  <2>1. U \in SUBSET Nat
    OBVIOUS
  <2> HIDE DEF U
  <2> QED BY <1>1, <1>2, <2>1, NatInd
<1>4. n \in U
  BY <1>3
<1> QED BY <1>4

LEMMA MaxOfTwo ==
    ASSUME NEW a \in Nat, NEW b \in Nat
    PROVE  Max({a, b}) = IF a >= b THEN a ELSE b
<1>1. \E x \in {a, b} : \A y \in {a, b} : x >= y
  OBVIOUS
<1>2. PICK w : w = Max({a, b}) /\ w \in {a, b} /\ \A y \in {a, b} : w >= y
  BY <1>1 DEF Max
<1> QED BY <1>2

-----------------------------------------------------------------------------
(* Distance of two videos.                                                 *)

\* n is the length of the longest sequence the first a frames have in common
\* with the first b of the other video.
IsLongest(n, a, b) ==
    /\ n \in Nat
    /\ \E P \in Pairings(a, b) : Cardinality(P) = n
    /\ \A P \in Pairings(a, b) : Cardinality(P) <= n

LEMMA PairingIs ==
    ASSUME NEW a \in Nat, NEW b \in Nat, NEW P \in Pairings(a, b)
    PROVE  /\ IsFiniteSet(P) /\ Cardinality(P) \in Nat
           /\ \A p \in P : p = <<p[1], p[2]>> /\ p[1] \in 1..a /\ p[2] \in 1..b
<1>1. P \subseteq (1..a) \X (1..b)
  BY DEF Pairings
<1>2. IsFiniteSet(1..a) /\ IsFiniteSet(1..b)
  BY FS_Interval
<1>3. IsFiniteSet((1..a) \X (1..b))
  BY <1>2, FS_Product
<1>4. IsFiniteSet(P)
  BY <1>1, <1>3, FS_Subset
<1> QED BY <1>1, <1>4, FS_CardinalityType

\* Nothing is in common with no frames.
LEMMA NoneInCommon ==
    ASSUME NEW a \in Nat, NEW b \in Nat, a = 0 \/ b = 0
    PROVE  IsLongest(0, a, b)
<1>1. ASSUME NEW P \in Pairings(a, b) PROVE P = {}
  BY PairingIs
<1>2. {} \in Pairings(a, b)
  BY DEF Pairings
<1>3. Cardinality({}) = 0
  BY FS_EmptySet
<1> QED BY <1>1, <1>2, <1>3 DEF IsLongest

\* A sequence in common goes on with two frames that are alike.
LEMMA TakeAlike ==
    ASSUME NEW a \in Nat \ {0}, NEW b \in Nat \ {0}, Alike(hashA[a], hashB[b]),
           NEW n, IsLongest(n, a - 1, b - 1)
    PROVE  IsLongest(n + 1, a, b)
<1>0. a - 1 \in Nat /\ b - 1 \in Nat /\ n \in Nat
  BY DEF IsLongest
<1>1. PICK P \in Pairings(a - 1, b - 1) : Cardinality(P) = n
  BY DEF IsLongest
<1>2. /\ IsFiniteSet(P)
      /\ \A p \in P : p = <<p[1], p[2]>> /\ p[1] \in 1..(a - 1) /\ p[2] \in 1..(b - 1)
  BY <1>0, PairingIs
<1>3. P \cup {<<a, b>>} \in Pairings(a, b)
  <2>1. \A p \in P : /\ p \in (1..a) \X (1..b) /\ Alike(hashA[p[1]], hashB[p[2]])
                     /\ p[1] < a /\ p[2] < b
    BY <1>0, <1>2 DEF Pairings
  <2>2. \A p, q \in P : p = q \/ (p[1] < q[1] /\ p[2] < q[2])
                              \/ (q[1] < p[1] /\ q[2] < p[2])
    BY DEF Pairings
  <2> DEFINE e == <<a, b>>
  <2>3. e \in (1..a) \X (1..b) /\ e[1] = a /\ e[2] = b
    OBVIOUS
  <2> HIDE DEF e
  <2>4. \A p, q \in P \cup {e} : p = q \/ (p[1] < q[1] /\ p[2] < q[2])
                                       \/ (q[1] < p[1] /\ q[2] < p[2])
    BY <2>1, <2>2, <2>3
  <2>5. P \cup {e} \subseteq {p \in (1..a) \X (1..b) : Alike(hashA[p[1]], hashB[p[2]])}
    BY <2>1, <2>3
  <2> QED BY <2>4, <2>5 DEF Pairings, e
<1>4. Cardinality(P \cup {<<a, b>>}) = n + 1
  <2>1. <<a, b>> \notin P
    BY <1>0, <1>2
  <2> QED BY <1>1, <1>2, <2>1, FS_AddElement
<1>5. ASSUME NEW Q \in Pairings(a, b) PROVE Cardinality(Q) <= n + 1
  <2> DEFINE R == {p \in Q : p[1] < a /\ p[2] < b}
  <2>1. /\ IsFiniteSet(Q)
        /\ \A p \in Q : p = <<p[1], p[2]>> /\ p[1] \in 1..a /\ p[2] \in 1..b
    BY PairingIs
  <2>2. R \in Pairings(a - 1, b - 1)
    <3>1. \A p \in R : p \in (1..(a - 1)) \X (1..(b - 1)) /\ Alike(hashA[p[1]], hashB[p[2]])
      <4>1. ASSUME NEW p \in R
            PROVE  p \in (1..(a - 1)) \X (1..(b - 1)) /\ Alike(hashA[p[1]], hashB[p[2]])
        <5>1. p \in Q /\ p[1] \in 1..(a - 1) /\ p[2] \in 1..(b - 1)
          BY <2>1
        <5>2. p = <<p[1], p[2]>>
          BY <2>1, <5>1
        <5>3. Alike(hashA[p[1]], hashB[p[2]])
          BY <5>1 DEF Pairings
        <5> QED BY <5>1, <5>2, <5>3
      <4> QED BY <4>1
    <3>2. \A p, q \in R : p = q \/ (p[1] < q[1] /\ p[2] < q[2])
                                \/ (q[1] < p[1] /\ q[2] < p[2])
      BY DEF Pairings
    <3> HIDE DEF R
    <3> QED BY <3>1, <3>2 DEF Pairings
  <2>3. Cardinality(R) <= n /\ Cardinality(R) \in Nat /\ IsFiniteSet(R)
    BY <1>0, <2>2, PairingIs DEF IsLongest
  <2>4. CASE R = Q
    BY <1>0, <2>3, <2>4
  <2>5. CASE R # Q
    <3>1. PICK e \in Q : e \notin R
      BY <2>5
    <3>2. ASSUME NEW p \in Q, p # e PROVE p \in R
      <4>1. (p[1] < e[1] /\ p[2] < e[2]) \/ (e[1] < p[1] /\ e[2] < p[2])
        BY <3>2 DEF Pairings
      <4>2. p[1] \in 1..a /\ p[2] \in 1..b /\ e[1] \in 1..a /\ e[2] \in 1..b
        BY <2>1
      <4>3. ~(e[1] < a /\ e[2] < b)
        BY <3>1
      <4> QED BY <4>1, <4>2, <4>3
    <3>3. Q = R \cup {e}
      BY <3>1, <3>2
    <3> HIDE DEF R
    <3>4. Cardinality(Q) = Cardinality(R) + 1
      BY <2>3, <3>1, <3>3, FS_AddElement
    <3> QED BY <1>0, <2>3, <3>4
  <2> QED BY <2>4, <2>5
<1> QED BY <1>0, <1>3, <1>4, <1>5 DEF IsLongest

\* Of two frames that are not alike one is not in it.
LEMMA TakeLonger ==
    ASSUME NEW a \in Nat \ {0}, NEW b \in Nat \ {0}, ~Alike(hashA[a], hashB[b]),
           NEW n, NEW m, IsLongest(n, a - 1, b), IsLongest(m, a, b - 1)
    PROVE  IsLongest(IF n >= m THEN n ELSE m, a, b)
<1>0. a - 1 \in Nat /\ b - 1 \in Nat /\ n \in Nat /\ m \in Nat
  BY DEF IsLongest
<1>1. Pairings(a - 1, b) \subseteq Pairings(a, b) /\ Pairings(a, b - 1) \subseteq Pairings(a, b)
  <2>1. /\ (1..(a - 1)) \X (1..b) \subseteq (1..a) \X (1..b)
        /\ (1..a) \X (1..(b - 1)) \subseteq (1..a) \X (1..b)
    BY <1>0
  <2> QED BY <2>1 DEF Pairings
<1>2. ASSUME NEW P \in Pairings(a, b) PROVE P \in Pairings(a - 1, b) \/ P \in Pairings(a, b - 1)
  <2>1. /\ \A p \in P : p = <<p[1], p[2]>> /\ p[1] \in 1..a /\ p[2] \in 1..b
        /\ \A p \in P : Alike(hashA[p[1]], hashB[p[2]])
        /\ \A p, q \in P : p = q \/ (p[1] < q[1] /\ p[2] < q[2])
                                 \/ (q[1] < p[1] /\ q[2] < p[2])
    <3>1. \A p \in P : p = <<p[1], p[2]>> /\ p[1] \in 1..a /\ p[2] \in 1..b
      BY PairingIs
    <3> QED BY <3>1 DEF Pairings
  <2>2. \A p \in P : ~(p[1] = a /\ p[2] = b)
    BY <2>1
  <2>3. (\A p \in P : p[1] < a) \/ (\A p \in P : p[2] < b)
    <3>1. SUFFICES ASSUME NEW p \in P, ~(p[1] < a), NEW q \in P, ~(q[2] < b) PROVE FALSE
      OBVIOUS
    <3>2. p[1] = a /\ q[2] = b /\ p[2] \in 1..b /\ q[1] \in 1..a
      BY <2>1, <3>1
    <3>3. p = q \/ (p[1] < q[1] /\ p[2] < q[2]) \/ (q[1] < p[1] /\ q[2] < p[2])
      BY <2>1
    <3> QED BY <2>2, <3>2, <3>3
  <2>4. CASE \A p \in P : p[1] < a
    <3>1. \A p \in P : p \in (1..(a - 1)) \X (1..b)
      <4>1. ASSUME NEW p \in P PROVE p \in (1..(a - 1)) \X (1..b)
        <5>1. p[1] \in 1..(a - 1) /\ p[2] \in 1..b /\ p = <<p[1], p[2]>>
          BY <2>1, <2>4
        <5> QED BY <5>1
      <4> QED BY <4>1
    <3> QED BY <2>1, <3>1 DEF Pairings
  <2>5. CASE \A p \in P : p[2] < b
    <3>1. \A p \in P : p \in (1..a) \X (1..(b - 1))
      <4>1. ASSUME NEW p \in P PROVE p \in (1..a) \X (1..(b - 1))
        <5>1. p[1] \in 1..a /\ p[2] \in 1..(b - 1) /\ p = <<p[1], p[2]>>
          BY <2>1, <2>5
        <5> QED BY <5>1
      <4> QED BY <4>1
    <3> QED BY <2>1, <3>1 DEF Pairings
  <2> QED BY <2>3, <2>4, <2>5
<1>3. ASSUME NEW P \in Pairings(a, b) PROVE Cardinality(P) <= IF n >= m THEN n ELSE m
  <2>1. Cardinality(P) \in Nat
    BY PairingIs
  <2>2. Cardinality(P) <= n \/ Cardinality(P) <= m
    BY <1>2 DEF IsLongest
  <2> QED BY <1>0, <2>1, <2>2
<1>4. \E P \in Pairings(a, b) : Cardinality(P) = IF n >= m THEN n ELSE m
  <2>1. (\E P \in Pairings(a, b) : Cardinality(P) = n) /\ \E P \in Pairings(a, b) : Cardinality(P) = m
    BY <1>1 DEF IsLongest
  <2> QED BY <2>1
<1> QED BY <1>0, <1>3, <1>4 DEF IsLongest

\* The table holds the lengths as far as it is made.
DistanceInv ==
    /\ Len(hashB) \in Nat
    /\ i1 \in Nat
    /\ row \in [0..Len(hashB) -> Nat]
    /\ \A n \in 0..Len(hashB) : IsLongest(row[n], i1, n)

LEMMA InitDistance == DistanceBegins /\ Len(hashB) \in Nat => DistanceInv
<1> SUFFICES ASSUME DistanceBegins, Len(hashB) \in Nat PROVE DistanceInv
  OBVIOUS
<1>1. i1 = 0 /\ row \in [0..Len(hashB) -> Nat] /\ \A n \in 0..Len(hashB) : row[n] = 0
  BY DEF DistanceBegins
<1>2. \A n \in 0..Len(hashB) : IsLongest(row[n], i1, n)
  BY <1>1, NoneInCommon
<1> QED BY <1>1, <1>2 DEF DistanceInv

\* The row of a frame as the loop makes it.
LEMMA NextCIs ==
    ASSUME Len(hashB) \in Nat, row \in [0..Len(hashB) -> Nat], NEW a
    PROVE  /\ NextC(a) \in [0..Len(hashB) -> Nat]
           /\ NextC(a)[0] = 0
           /\ \A n \in 1..Len(hashB) :
                 NextC(a)[n] = IF Alike(hashA[a], hashB[n]) THEN row[n - 1] + 1
                               ELSE Max({row[n], NextC(a)[n - 1]})
<1> DEFINE len == Len(hashB)
           Rec(f) == f = [n \in 0..len |->
                            IF n = 0 THEN 0
                            ELSE IF Alike(hashA[a], hashB[n]) THEN row[n - 1] + 1
                            ELSE Max({row[n], f[n - 1]})]
           C == CHOOSE f : Rec(f)
           turn == [p \in (1..len) \X Nat |->
                      IF Alike(hashA[a], hashB[p[1]]) THEN row[p[1] - 1] + 1
                      ELSE Max({row[p[1]], p[2]})]
<1>1. NextC(a) = C
  BY DEF NextC
<1>2. ASSUME NEW n \in 1..len, NEW u \in Nat
      PROVE  /\ row[n - 1] \in Nat /\ row[n] \in Nat
             /\ Max({row[n], u}) \in Nat
  <2>1. row[n - 1] \in Nat /\ row[n] \in Nat
    OBVIOUS
  <2> QED BY <2>1, MaxOfTwo
<1>3. turn \in [(1..len) \X Nat -> Nat]
  <2>1. ASSUME NEW p \in (1..len) \X Nat
        PROVE  (IF Alike(hashA[a], hashB[p[1]]) THEN row[p[1] - 1] + 1
                ELSE Max({row[p[1]], p[2]})) \in Nat
    <3>1. p[1] \in 1..len /\ p[2] \in Nat
      OBVIOUS
    <3> QED BY <1>2, <3>1
  <2> QED BY <2>1
<1>4. \A n \in 1..len, u \in Nat :
         turn[<<n, u>>] = IF Alike(hashA[a], hashB[n]) THEN row[n - 1] + 1 ELSE Max({row[n], u})
  OBVIOUS
<1> HIDE DEF turn
<1>5. PICK g \in [0..len -> Nat] : Follows(g, len, 0, turn)
  <2>1. len \in Nat /\ 0 \in Nat
    OBVIOUS
  <2> HIDE DEF len
  <2> QED BY <1>3, <2>1, Recursion
<1>6. \A n \in 1..len : g[n - 1] \in Nat
  OBVIOUS
<1>7. Rec(g)
  <2>1. ASSUME NEW n \in 0..len
        PROVE  g[n] = IF n = 0 THEN 0
                      ELSE IF Alike(hashA[a], hashB[n]) THEN row[n - 1] + 1
                      ELSE Max({row[n], g[n - 1]})
    <3>1. CASE n = 0
      BY <1>5, <3>1 DEF Follows
    <3>2. CASE n # 0
      <4>1. n \in 1..len
        BY <3>2
      <4> QED BY <1>4, <1>5, <1>6, <3>2, <4>1 DEF Follows
    <3> QED BY <3>1, <3>2
  <2> QED BY <2>1
<1>8. Rec(C)
  BY <1>7
<1> HIDE DEF C
<1>9. DOMAIN C = 0..len /\ C[0] = 0
  BY <1>8
<1>10. \A n \in 1..len : C[n] = IF Alike(hashA[a], hashB[n]) THEN row[n - 1] + 1
                                ELSE Max({row[n], C[n - 1]})
  <2>1. C = [n \in 0..len |->
                IF n = 0 THEN 0
                ELSE IF Alike(hashA[a], hashB[n]) THEN row[n - 1] + 1
                ELSE Max({row[n], C[n - 1]})]
    BY <1>8
  <2>2. ASSUME NEW n \in 0..len
        PROVE  C[n] = IF n = 0 THEN 0
                      ELSE IF Alike(hashA[a], hashB[n]) THEN row[n - 1] + 1
                      ELSE Max({row[n], C[n - 1]})
    BY <2>1
  <2>3. \A n \in 1..len : n \in 0..len /\ n # 0
    OBVIOUS
  <2> QED BY <2>2, <2>3
<1> DEFINE U == {n \in Nat : n <= len => C[n] \in Nat}
<1>11. 0 \in U
  BY <1>9
<1>12. ASSUME NEW n \in U PROVE n + 1 \in U
  <2>1. SUFFICES ASSUME n + 1 <= len PROVE C[n + 1] \in Nat
    OBVIOUS
  <2>2. n + 1 \in 1..len /\ (n + 1) - 1 = n /\ C[n] \in Nat
    BY <2>1
  <2>3. /\ row[(n + 1) - 1] + 1 \in Nat
        /\ Max({row[n + 1], C[n]}) \in Nat
    BY <1>2, <2>2
  <2>4. C[n + 1] = IF Alike(hashA[a], hashB[n + 1]) THEN row[(n + 1) - 1] + 1
                   ELSE Max({row[n + 1], C[(n + 1) - 1]})
    BY <1>10, <2>2
  <2> QED BY <2>2, <2>3, <2>4
<1>13. U = Nat
  <2>1. U \in SUBSET Nat
    OBVIOUS
  <2> HIDE DEF U
  <2> QED BY <1>11, <1>12, <2>1, NatInd
<1>14. C \in [0..len -> Nat]
  <2>1. \A n \in 0..len : C[n] \in Nat
    <3>1. ASSUME NEW n \in 0..len PROVE C[n] \in Nat
      <4>1. n \in U
        BY <1>13
      <4> QED BY <4>1
    <3> QED BY <3>1
  <2>2. C = [n \in 0..len |-> C[n]]
    BY <1>8
  <2> QED BY <2>1, <2>2
<1> QED BY <1>1, <1>9, <1>10, <1>14

LEMMA DistanceKeeps ==
    ASSUME DistanceInv, [DistanceStep]_distanceVars
    PROVE  DistanceInv'
<1>1. CASE DistanceEnds \/ UNCHANGED distanceVars
  <2>1. UNCHANGED <<hashA, hashB, i1, row>>
    BY <1>1 DEF DistanceEnds, distanceVars
  <2>2. \A n, a, b : IsLongest(n, a, b)' <=> IsLongest(n, a, b)
    BY <2>1 DEF IsLongest, Pairings
  <2> QED BY <2>1, <2>2 DEF DistanceInv
<1>2. CASE DistanceRow
  <2>1. i1' = i1 + 1 /\ row' = NextC(i1') /\ UNCHANGED <<hashA, hashB>>
    BY <1>2 DEF DistanceRow
  <2>2. \A n, a, b : IsLongest(n, a, b)' <=> IsLongest(n, a, b)
    BY <2>1 DEF IsLongest, Pairings
  <2>3. PICK a : a = i1 + 1
    OBVIOUS
  <2>4. /\ Len(hashB) \in Nat /\ i1 \in Nat /\ row \in [0..Len(hashB) -> Nat]
        /\ \A n \in 0..Len(hashB) : IsLongest(row[n], i1, n)
        /\ a \in Nat \ {0} /\ a - 1 = i1
    BY <2>3 DEF DistanceInv
  <2>5. row' = NextC(a)
    BY <2>1, <2>3
  <2>6. /\ NextC(a) \in [0..Len(hashB) -> Nat]
        /\ NextC(a)[0] = 0
        /\ \A n \in 1..Len(hashB) :
                 NextC(a)[n] = IF Alike(hashA[a], hashB[n]) THEN row[n - 1] + 1
                               ELSE Max({row[n], NextC(a)[n - 1]})
    BY <2>4, NextCIs
  <2> DEFINE U == {n \in Nat : n <= Len(hashB) => IsLongest(NextC(a)[n], a, n)}
  <2>7. 0 \in U
    BY <2>4, <2>6, NoneInCommon
  <2>8. ASSUME NEW n \in U PROVE n + 1 \in U
    <3>1. SUFFICES ASSUME n + 1 <= Len(hashB) PROVE IsLongest(NextC(a)[n + 1], a, n + 1)
      OBVIOUS
    <3>2. PICK b : b = n + 1
      OBVIOUS
    <3>3. /\ b \in 1..Len(hashB) /\ b \in Nat \ {0} /\ b - 1 = n
          /\ b \in 0..Len(hashB) /\ n \in 0..Len(hashB)
      BY <2>4, <3>1, <3>2
    <3>4. IsLongest(NextC(a)[n], a, n)
      BY <3>1
    <3>5. IsLongest(row[n], a - 1, n) /\ IsLongest(row[b], a - 1, b)
      BY <2>4, <3>3
    <3>6. CASE Alike(hashA[a], hashB[b])
      <4>1. NextC(a)[b] = row[n] + 1
        BY <2>6, <3>3, <3>6
      <4>2. IsLongest(row[n] + 1, a, b)
        BY <2>4, <3>3, <3>5, <3>6, TakeAlike
      <4> QED BY <3>2, <4>1, <4>2
    <3>7. CASE ~Alike(hashA[a], hashB[b])
      <4>1. NextC(a)[b] = Max({row[b], NextC(a)[n]})
        BY <2>6, <3>3, <3>7
      <4>2. row[b] \in Nat /\ NextC(a)[n] \in Nat
        BY <2>4, <2>6, <3>3
      <4>3. NextC(a)[b] = IF row[b] >= NextC(a)[n] THEN row[b] ELSE NextC(a)[n]
        BY <4>1, <4>2, MaxOfTwo
      <4>4. IsLongest(IF row[b] >= NextC(a)[n] THEN row[b] ELSE NextC(a)[n], a, b)
        BY <2>4, <3>3, <3>4, <3>5, <3>7, TakeLonger
      <4> QED BY <3>2, <4>3, <4>4
    <3> QED BY <3>6, <3>7
  <2>9. U = Nat
    <3>1. U \in SUBSET Nat
      OBVIOUS
    <3> HIDE DEF U
    <3> QED BY <2>7, <2>8, <3>1, NatInd
  <2>10. ASSUME NEW n \in 0..Len(hashB) PROVE IsLongest(NextC(a)[n], a, n)
    <3>1. n \in U
      BY <2>4, <2>9
    <3> QED BY <3>1
  <2>11. i1' = a /\ a \in Nat
    BY <2>1, <2>3, <2>4
  <2>12. ASSUME NEW n \in 0..Len(hashB) PROVE IsLongest(row[n], i1, n)'
    <3>1. PICK x : x = NextC(a)[n] /\ IsLongest(x, a, n)
      BY <2>10
    <3>2. x = row'[n]
      BY <2>5, <3>1
    <3>3. IsLongest(x, a, n)'
      BY <2>2, <3>1
    <3> QED BY <2>11, <3>2, <3>3 DEF IsLongest, Pairings
  <2> QED BY <2>1, <2>4, <2>5, <2>6, <2>11, <2>12 DEF DistanceInv
<1> QED BY <1>1, <1>2 DEF DistanceStep

LEMMA LongestIs == DistanceInv => LongestInCommon
<1> SUFFICES ASSUME DistanceInv, NEW n \in 0..Len(hashB)
             PROVE  row[n] = Max({Cardinality(P) : P \in Pairings(i1, n)})
  BY DEF LongestInCommon
<1> DEFINE T == {Cardinality(P) : P \in Pairings(i1, n)}
<1>1. IsLongest(row[n], i1, n) /\ i1 \in Nat /\ n \in Nat /\ row[n] \in Nat
  BY DEF DistanceInv
<1>2. row[n] \in T /\ \A x \in T : x <= row[n]
  BY <1>1 DEF IsLongest
<1>3. T \in SUBSET Nat
  BY <1>1, PairingIs
<1> HIDE DEF T
<1>4. Max(T) \in T /\ \A x \in T : x <= Max(T)
  BY <1>1, <1>2, <1>3, MaxOf
<1>5. Max(T) \in Nat /\ Max(T) <= row[n] /\ row[n] <= Max(T)
  BY <1>2, <1>3, <1>4
<1>6. row[n] = Max(T)
  BY <1>1, <1>5
<1> QED BY <1>6 DEF T

-----------------------------------------------------------------------------
(* Hashes of texts, bit by bit.                                            *)

LEMMA BitsAre ==
    ASSUME NEW x \in Bits, NEW y \in Bits, NEW n \in Nat
    PROVE  /\ ShiftLeft(x, n) \in Bits /\ Xor(x, y) \in Bits
           /\ \A b \in Bit : ShiftLeft(x, n)[b] = IF b < n THEN 0 ELSE x[b - n]
           /\ \A b \in Bit : Xor(x, y)[b] = IF x[b] = y[b] THEN 0 ELSE 1
<1>1. Width \in Nat
  BY TextAssumption
<1>2. \A b \in Bit : ~(b < n) => b - n \in Bit /\ x[b - n] \in 0..1
  BY <1>1 DEF Bit, Bits
<1>3. \A b \in Bit : ShiftLeft(x, n)[b] = IF b < n THEN 0 ELSE x[b - n]
  BY DEF ShiftLeft
<1>4. \A b \in Bit : Xor(x, y)[b] = IF x[b] = y[b] THEN 0 ELSE 1
  BY DEF Xor
<1>5. ShiftLeft(x, n) \in Bits
  BY <1>2 DEF ShiftLeft, Bits
<1>6. Xor(x, y) \in Bits
  BY DEF Xor, Bits
<1> QED BY <1>3, <1>4, <1>5, <1>6

LEMMA ShiftLeftIs ==
    ASSUME NEW x \in Bits, NEW n \in Nat, NEW b \in Bit
    PROVE  ShiftLeft(x, n)[b] = IF b < n THEN 0 ELSE x[b - n]
BY DEF ShiftLeft

LEMMA SameBits ==
    ASSUME NEW x \in Bits, NEW y \in Bits, \A b \in Bit : x[b] = y[b]
    PROVE  x = y
BY DEF Bits

\* The comparison of hashes is that of the numbers: a strict total order.
LEMMA ExceedsTotal ==
    ASSUME NEW x \in Bits, NEW y \in Bits, x # y
    PROVE  Exceeds(x, y) \/ Exceeds(y, x)
<1> DEFINE T == {b \in Bit : x[b] # y[b]}
<1>1. Width \in Nat
  BY TextAssumption
<1>2. T # {}
  BY SameBits
<1>3. T \in SUBSET Nat /\ \A b \in T : b <= Width
  BY <1>1 DEF Bit
<1>4. PICK b \in T : \A c \in T : c <= b
  <2> HIDE DEF T
  <2> QED BY <1>1, <1>2, <1>3, Greatest
<1>5. \A c \in (b + 1)..(Width - 1) : x[c] = y[c]
  BY <1>1, <1>4 DEF Bit
<1>6. b \in Bit /\ (x[b] > y[b] \/ y[b] > x[b])
  <2>1. x[b] \in 0..1 /\ y[b] \in 0..1 /\ x[b] # y[b]
    BY <1>4 DEF Bits
  <2> QED BY <2>1
<1> QED BY <1>5, <1>6 DEF Exceeds

LEMMA ExceedsTransitive ==
    ASSUME NEW x \in Bits, NEW y \in Bits, NEW z \in Bits, Exceeds(x, y), Exceeds(y, z)
    PROVE  Exceeds(x, z)
<1>1. Width \in Nat /\ \A b \in Bit : x[b] \in 0..1 /\ y[b] \in 0..1 /\ z[b] \in 0..1
  BY TextAssumption DEF Bits
<1>2. PICK b \in Bit : x[b] > y[b] /\ \A c \in (b + 1)..(Width - 1) : x[c] = y[c]
  BY DEF Exceeds
<1>3. PICK e \in Bit : y[e] > z[e] /\ \A c \in (e + 1)..(Width - 1) : y[c] = z[c]
  BY DEF Exceeds
<1>4. CASE b > e
  <2>1. x[b] > z[b]
    BY <1>1, <1>2, <1>3, <1>4 DEF Bit
  <2>2. \A c \in (b + 1)..(Width - 1) : x[c] = z[c]
    BY <1>1, <1>2, <1>3, <1>4 DEF Bit
  <2> QED BY <2>1, <2>2 DEF Exceeds
<1>5. CASE ~(b > e)
  <2>1. x[e] > z[e]
    BY <1>1, <1>2, <1>3, <1>5 DEF Bit
  <2>2. \A c \in (e + 1)..(Width - 1) : x[c] = z[c]
    BY <1>1, <1>2, <1>3, <1>5 DEF Bit
  <2> QED BY <2>1, <2>2 DEF Exceeds
<1> QED BY <1>4, <1>5

LEMMA ExceedsStrict ==
    ASSUME NEW x \in Bits
    PROVE  ~Exceeds(x, x)
<1>1. \A b \in Bit : x[b] \in 0..1
  BY DEF Bits
<1> QED BY <1>1 DEF Exceeds

\* A list of hashes has a last of its least ones.
LEMMA LastLeast ==
    ASSUME NEW T, NEW s \in Seq(T), s # <<>>, \A v \in T : v.hash \in Bits
    PROVE  \E p \in DOMAIN s : /\ \A q \in DOMAIN s : ~Exceeds(s[p].hash, s[q].hash)
                               /\ \A q \in (p + 1)..Len(s) : Exceeds(s[q].hash, s[p].hash)
<1> DEFINE len == Len(s)
           Good(p, n) == /\ \A q \in 1..n : ~Exceeds(s[p].hash, s[q].hash)
                         /\ \A q \in (p + 1)..n : Exceeds(s[q].hash, s[p].hash)
           U == {n \in Nat : n + 1 <= len => \E p \in 1..(n + 1) : Good(p, n + 1)}
<1>1. len \in Nat \ {0} /\ DOMAIN s = 1..len /\ \A p \in 1..len : s[p].hash \in Bits
  OBVIOUS
<1> HIDE DEF len
<1>2. 0 \in U
  <2>1. SUFFICES ASSUME 1 <= len PROVE Good(1, 1)
    OBVIOUS
  <2>2. \A q \in 1..1 : q = 1
    OBVIOUS
  <2> QED BY <1>1, <2>2, ExceedsStrict
<1>3. ASSUME NEW n \in U PROVE n + 1 \in U
  <2>1. SUFFICES ASSUME (n + 1) + 1 <= len
                 PROVE  \E p \in 1..((n + 1) + 1) : Good(p, (n + 1) + 1)
    OBVIOUS
  <2>2. PICK p \in 1..(n + 1) : Good(p, n + 1)
    BY <1>1, <2>1
  <2>3. PICK m : m = (n + 1) + 1 /\ m \in 1..len /\ m \in Nat
    BY <1>1, <2>1
  <2>4. /\ p \in 1..len /\ \A q \in 1..m : q \in 1..len
        /\ \A q \in 1..m : q \in 1..(n + 1) \/ q = m
    BY <1>1, <2>1, <2>3
  <2>5. CASE Exceeds(s[m].hash, s[p].hash)
    <3>1. ~Exceeds(s[p].hash, s[m].hash)
      BY <1>1, <2>3, <2>4, <2>5, ExceedsTransitive, ExceedsStrict
    <3>2. \A q \in 1..m : ~Exceeds(s[p].hash, s[q].hash)
      BY <2>2, <2>4, <3>1
    <3>3. \A q \in (p + 1)..m : Exceeds(s[q].hash, s[p].hash)
      BY <2>2, <2>3, <2>5
    <3> QED BY <2>3, <2>4, <3>2, <3>3
  <2>6. CASE ~Exceeds(s[m].hash, s[p].hash)
    <3>1. ASSUME NEW q \in 1..m PROVE ~Exceeds(s[m].hash, s[q].hash)
      <4>1. CASE q = m
        BY <1>1, <2>3, <4>1, ExceedsStrict
      <4>2. CASE q # m
        <5>1. s[q].hash \in Bits /\ s[p].hash \in Bits /\ s[m].hash \in Bits
              /\ ~Exceeds(s[p].hash, s[q].hash)
          BY <1>1, <2>2, <2>3, <2>4, <4>2
        <5>2. s[p].hash = s[q].hash \/ Exceeds(s[q].hash, s[p].hash)
          BY <5>1, ExceedsTotal
        <5> QED BY <2>6, <5>1, <5>2, ExceedsTransitive
      <4> QED BY <4>1, <4>2
    <3>2. \A q \in (m + 1)..m : FALSE
      BY <2>3
    <3> QED BY <2>3, <3>1, <3>2
  <2> QED BY <2>5, <2>6
<1>4. U = Nat
  <2>1. U \in SUBSET Nat
    OBVIOUS
  <2> HIDE DEF U
  <2> QED BY <1>2, <1>3, <2>1, NatInd
<1>5. PICK p \in 1..len : Good(p, len)
  <2>1. PICK n \in Nat : len = n + 1
    <3>1. len - 1 \in Nat /\ len = (len - 1) + 1
      BY <1>1
    <3> QED BY <3>1
  <2>2. n \in U
    BY <1>4
  <2> QED BY <2>1, <2>2
<1> QED BY <1>1, <1>5 DEF len

-----------------------------------------------------------------------------
(* Points of a text.                                                       *)

LEMMA ProductNext ==
    ASSUME NEW a \in Nat, NEW w \in Nat
    PROVE  a * w \in Nat /\ a * w + w = (a + 1) * w
OBVIOUS

LEMMA Quotient ==
    ASSUME NEW a \in Nat, NEW w \in Nat \ {0}, NEW n \in Nat, n < w
    PROVE  (a * w + n) \div w = a
<1> DEFINE m == a * w + n
           q == m \div w
<1>1. m \in Nat /\ q \in Nat /\ m % w \in 0..(w - 1) /\ m = w * q + (m % w)
  OBVIOUS
<1>2. PICK u \in Nat : u = m % w /\ u < w
  BY <1>1
<1> HIDE DEF q
<1>3. a * w + n = w * q + u
  BY <1>1, <1>2
<1>4. ~(q >= a + 1)
  <2>1. SUFFICES ASSUME q >= a + 1 PROVE FALSE
    OBVIOUS
  <2>2. (a + 1) * w <= q * w /\ (a + 1) * w = a * w + w /\ q * w = w * q
    BY <1>1, <2>1, ProductMonotonic
  <2> QED BY <1>1, <1>2, <1>3, <2>2
<1>5. ~(a >= q + 1)
  <2>1. SUFFICES ASSUME a >= q + 1 PROVE FALSE
    OBVIOUS
  <2>2. (q + 1) * w <= a * w /\ (q + 1) * w = q * w + w /\ q * w = w * q
    BY <1>1, <2>1, ProductMonotonic
  <2> QED BY <1>1, <1>2, <1>3, <2>2
<1>6. q = a
  BY <1>1, <1>4, <1>5
<1> QED BY <1>6 DEF q

LEMMA SubSeqStays ==
    ASSUME NEW T, NEW s \in Seq(T), NEW e \in T, NEW a \in Nat \ {0}, NEW b \in Nat, b <= Len(s)
    PROVE  SubSeq(Append(s, e), a, b) = SubSeq(s, a, b)
<1>1. /\ Append(s, e) \in Seq(T) /\ Len(Append(s, e)) = Len(s) + 1 /\ Len(s) \in Nat
      /\ \A x \in 1..Len(s) : Append(s, e)[x] = s[x]
  BY AppendRange
<1>2. \A x \in a..b : x \in 1..Len(s) /\ s[x] \in T /\ Append(s, e)[x] = s[x]
  BY <1>1
<1>3. PICK m \in Nat : m = IF a <= b THEN b - a + 1 ELSE 0
  <2>1. (IF a <= b THEN b - a + 1 ELSE 0) \in Nat
    OBVIOUS
  <2> QED BY <2>1
<1>4. /\ SubSeq(s, a, b) \in Seq(T) /\ Len(SubSeq(s, a, b)) = m
      /\ \A x \in 1..m : SubSeq(s, a, b)[x] = s[a + x - 1]
  <2>1. \A x \in a..b : s[x] \in T
    BY <1>2
  <2>2. /\ SubSeq(s, a, b) \in Seq(T)
        /\ Len(SubSeq(s, a, b)) = IF a <= b THEN b - a + 1 ELSE 0
        /\ \A x \in 1..(b - a + 1) : SubSeq(s, a, b)[x] = s[a + x - 1]
    BY <2>1, SubSeqProperties
  <2> QED BY <1>3, <2>2
<1>5. /\ SubSeq(Append(s, e), a, b) \in Seq(T) /\ Len(SubSeq(Append(s, e), a, b)) = m
      /\ \A x \in 1..m : SubSeq(Append(s, e), a, b)[x] = Append(s, e)[a + x - 1]
  <2>1. \A x \in a..b : Append(s, e)[x] \in T
    BY <1>2
  <2>2. PICK t : t = Append(s, e) /\ \A x \in a..b : t[x] \in T
    BY <2>1
  <2>3. /\ SubSeq(t, a, b) \in Seq(T)
        /\ Len(SubSeq(t, a, b)) = IF a <= b THEN b - a + 1 ELSE 0
        /\ \A x \in 1..(b - a + 1) : SubSeq(t, a, b)[x] = t[a + x - 1]
    BY <2>2, SubSeqProperties
  <2>4. /\ SubSeq(t, a, b) \in Seq(T) /\ Len(SubSeq(t, a, b)) = m
        /\ \A x \in 1..m : SubSeq(t, a, b)[x] = t[a + x - 1]
    BY <1>3, <2>3
  <2> QED BY <2>2, <2>4, Zenon
<1>6. \A x \in 1..m : a + x - 1 \in a..b
  BY <1>3
<1>7. \A x \in 1..m : SubSeq(Append(s, e), a, b)[x] = SubSeq(s, a, b)[x]
  BY <1>2, <1>4, <1>5, <1>6
<1> QED BY <1>4, <1>5, <1>7, SeqEqual

HashPoint == [hash : Bits, index : Nat]

\* A point is the last of the least hashes of its window, or the one before it.
MinimumOf(point, w, before) ==
    \E n \in DOMAIN w :
        /\ \A m \in DOMAIN w : ~Exceeds(w[n].hash, w[m].hash)
        /\ \A m \in (n + 1)..Len(w) : Exceeds(w[m].hash, w[n].hash)
        /\ point = IF w[n].hash = before.hash THEN before ELSE w[n]

WindowOf(p) == SubSeq(rolled, (p - 1) * WindowLength + 1, p * WindowLength)

\* The hashes of the windows that are over gave the points; the others are
\* those of the window that is not.
PointsInv ==
    /\ {win, rolled, points} \subseteq Seq(HashPoint) /\ prev \in HashPoint
    /\ Len(rolled) = Len(points) * WindowLength + Len(win)
    /\ Len(win) < WindowLength
    /\ \A x \in 1..Len(win) : win[x] = rolled[Len(points) * WindowLength + x]
    /\ prev = IF Len(points) = 0 THEN NoPoint ELSE points[Len(points)]
    /\ \A p \in 1..Len(points) :
          MinimumOf(points[p], WindowOf(p), IF p = 1 THEN NoPoint ELSE points[p - 1])

LEMMA MinHashIs ==
    ASSUME NEW w \in Seq(HashPoint), w # <<>>, NEW before
    PROVE  /\ MinHash(w) \in HashPoint
           /\ MinimumOf(IF MinHash(w).hash # before.hash THEN MinHash(w) ELSE before, w, before)
<1>1. \A v \in HashPoint : v.hash \in Bits
  BY DEF HashPoint
<1>2. \E p \in DOMAIN w : /\ \A q \in DOMAIN w : ~Exceeds(w[p].hash, w[q].hash)
                          /\ \A q \in (p + 1)..Len(w) : Exceeds(w[q].hash, w[p].hash)
  BY <1>1, LastLeast
<1>3. PICK p \in DOMAIN w : /\ \A q \in DOMAIN w : ~Exceeds(w[p].hash, w[q].hash)
                            /\ \A q \in (p + 1)..Len(w) : Exceeds(w[q].hash, w[p].hash)
                            /\ MinHash(w) = w[p]
  BY <1>2 DEF MinHash
<1>4. w[p] \in HashPoint
  OBVIOUS
<1> QED BY <1>3, <1>4 DEF MinimumOf

LEMMA WindowedKeeps ==
    ASSUME PointsInv, NEW point \in HashPoint, Windowed(point), rolled' = Append(rolled, point)
    PROVE  PointsInv'
<1> DEFINE full == Append(win, point)
           next == IF MinHash(full).hash # prev.hash THEN MinHash(full) ELSE prev
<1>1. /\ win \in Seq(HashPoint) /\ rolled \in Seq(HashPoint) /\ points \in Seq(HashPoint)
      /\ prev \in HashPoint /\ WindowLength \in Nat \ {0}
      /\ Len(win) \in Nat /\ Len(rolled) \in Nat /\ Len(points) \in Nat
  <2>1. WindowLength \in Nat \ {0}
    BY TextAssumption
  <2>2. win \in Seq(HashPoint) /\ rolled \in Seq(HashPoint) /\ points \in Seq(HashPoint)
        /\ prev \in HashPoint
    BY DEF PointsInv
  <2> QED BY <2>1, <2>2
<1>2. PICK q \in Nat : /\ q = Len(points) * WindowLength
                       /\ q + WindowLength = (Len(points) + 1) * WindowLength
                       /\ Len(rolled) = q + Len(win) /\ Len(win) < WindowLength
                       /\ \A x \in 1..Len(win) : win[x] = rolled[q + x]
  <2>1. /\ Len(points) * WindowLength \in Nat
        /\ Len(points) * WindowLength + WindowLength = (Len(points) + 1) * WindowLength
    BY <1>1, ProductNext
  <2> QED BY <2>1 DEF PointsInv
<1>a. /\ Len(rolled) = q + Len(win) /\ Len(win) < WindowLength
      /\ \A x \in 1..Len(win) : win[x] = rolled[q + x]
  BY <1>2
<1>3. /\ full \in Seq(HashPoint) /\ Len(full) = Len(win) + 1
      /\ \A x \in 1..Len(win) : full[x] = win[x]
      /\ full[Len(win) + 1] = point
  BY <1>1, AppendRange
<1>4. /\ rolled' \in Seq(HashPoint) /\ Len(rolled') = Len(rolled) + 1
      /\ \A x \in 1..Len(rolled) : rolled'[x] = rolled[x]
      /\ rolled'[Len(rolled) + 1] = point
  BY <1>1, AppendRange
<1>5. \A x \in 1..(Len(win) + 1) : full[x] = rolled'[q + x]
  <2>1. ASSUME NEW x \in 1..(Len(win) + 1) PROVE full[x] = rolled'[q + x]
    <3>1. CASE x <= Len(win)
      <4>1. x \in 1..Len(win) /\ q + x \in 1..Len(rolled)
        BY <1>1, <1>2, <3>1
      <4> QED BY <1>2, <1>3, <1>4, <4>1
    <3>2. CASE ~(x <= Len(win))
      <4>1. x = Len(win) + 1
        BY <1>1, <3>2
      <4>2. q + x = Len(rolled) + 1
        BY <1>1, <1>a, <4>1
      <4> QED BY <1>3, <1>4, <4>1, <4>2
    <3> QED BY <3>1, <3>2
  <2> QED BY <2>1
<1>6. ASSUME NEW p \in 1..Len(points) PROVE WindowOf(p)' = WindowOf(p)
  <2>1. /\ (p - 1) * WindowLength \in Nat /\ p * WindowLength \in Nat
        /\ p * WindowLength <= q
    <3>1. p \in Nat /\ p <= Len(points) /\ p - 1 \in Nat /\ p - 1 <= p
      BY <1>1
    <3>2. WindowLength \in Nat
      BY <1>1
    <3>3. (p - 1) * WindowLength \in Nat /\ p * WindowLength \in Nat
      BY <3>1, <3>2, ProductMonotonic
    <3>4. p * WindowLength <= Len(points) * WindowLength
      BY <1>1, <3>1, <3>2, ProductMonotonic
    <3> QED BY <1>2, <3>3, <3>4
  <2>2. PICK a \in Nat \ {0}, b \in Nat : /\ a = (p - 1) * WindowLength + 1
                                           /\ b = p * WindowLength /\ b <= Len(rolled)
    <3>1. q <= Len(rolled)
      BY <1>1, <1>2
    <3>2. PICK u \in Nat, v \in Nat : /\ u = (p - 1) * WindowLength
                                       /\ v = p * WindowLength /\ v <= q
      BY <2>1
    <3>a. v <= q
      BY <3>2
    <3>3. v <= Len(rolled) /\ u + 1 \in Nat \ {0}
      BY <1>1, <3>a, <3>1
    <3> QED BY <3>2, <3>3
  <2>3. SubSeq(Append(rolled, point), a, b) = SubSeq(rolled, a, b)
    BY <1>1, <2>2, SubSeqStays
  <2> QED BY <2>2, <2>3 DEF WindowOf
<1> HIDE DEF full
<1>7. CASE Len(full) < WindowLength
  <2>1. win' = full /\ UNCHANGED <<prev, points>>
    BY <1>7 DEF Windowed, full
  <2>2. ASSUME NEW p \in 1..Len(points)
        PROVE  MinimumOf(points[p], WindowOf(p), IF p = 1 THEN NoPoint ELSE points[p - 1])'
    <3>1. PICK w : /\ w = WindowOf(p) /\ WindowOf(p)' = w
                   /\ MinimumOf(points[p], w, IF p = 1 THEN NoPoint ELSE points[p - 1])
      BY <1>6 DEF PointsInv
    <3> QED BY <2>1, <3>1 DEF MinimumOf
  <2>3. Len(rolled') = Len(points) * WindowLength + Len(full)
    BY <1>1, <1>2, <1>3, <1>4
  <2>4. \A x \in 1..Len(full) : full[x] = rolled'[Len(points) * WindowLength + x]
    BY <1>2, <1>3, <1>5
  <2> QED BY <1>1, <1>3, <1>4, <1>7, <2>1, <2>2, <2>3, <2>4 DEF PointsInv
<1>8. CASE ~(Len(full) < WindowLength)
  <2>1. win' = <<>> /\ prev' = next /\ points' = Append(points, next)
    BY <1>8 DEF Windowed, full
  <2>2. full # <<>>
    BY <1>1, <1>3
  <2>3. /\ next \in HashPoint
        /\ MinimumOf(next, full, prev)
    BY <1>1, <1>3, <2>2, MinHashIs
  <2> HIDE DEF next
  <2>4. /\ points' \in Seq(HashPoint) /\ Len(points') = Len(points) + 1
        /\ \A x \in 1..Len(points) : points'[x] = points[x]
        /\ points'[Len(points) + 1] = next
    BY <1>1, <2>1, <2>3, AppendRange
  <2>5. Len(win) + 1 = WindowLength
    BY <1>1, <1>2, <1>3, <1>8
  <2>6. PICK n \in Nat : n = Len(points) + 1 /\ n >= 1
    BY <1>1
  <2>7. WindowOf(n)' = full
    <3>1. (n - 1) * WindowLength = q /\ n * WindowLength = q + WindowLength
      <4>1. n - 1 = Len(points)
        BY <1>1, <2>6
      <4> QED BY <1>2, <2>6, <4>1
    <3>2. PICK t : t = rolled' /\ Len(t) = q + WindowLength /\ t \in Seq(HashPoint)
      <4>1. Len(rolled') = q + WindowLength
        BY <1>1, <1>a, <1>4, <2>5
      <4> QED BY <1>4, <4>1
    <3>3. \A x \in (q + 1)..(q + WindowLength) : t[x] \in HashPoint
      BY <1>1, <3>2
    <3>4. PICK b \in Nat : b = q + WindowLength /\ b - (q + 1) + 1 = WindowLength /\ q + 1 <= b
      BY <1>1
    <3>5. /\ SubSeq(t, q + 1, b) \in Seq(HashPoint)
          /\ Len(SubSeq(t, q + 1, b)) = IF q + 1 <= b THEN b - (q + 1) + 1 ELSE 0
          /\ \A x \in 1..(b - (q + 1) + 1) : SubSeq(t, q + 1, b)[x] = t[(q + 1) + x - 1]
      <4>1. q + 1 \in Int /\ b \in Int /\ \A x \in (q + 1)..b : t[x] \in HashPoint
        BY <3>3, <3>4
      <4> QED BY <4>1, SubSeqProperties
    <3>6. ASSUME NEW x \in 1..WindowLength PROVE SubSeq(t, q + 1, b)[x] = full[x]
      <4>1. SubSeq(t, q + 1, b)[x] = t[(q + 1) + x - 1] /\ (q + 1) + x - 1 = q + x
        BY <3>4, <3>5
      <4>2. full[x] = t[q + x]
        BY <1>5, <2>5, <3>2
      <4> QED BY <4>1, <4>2
    <3>7. Len(SubSeq(t, q + 1, b)) = WindowLength /\ Len(full) = WindowLength
      BY <1>3, <2>5, <3>4, <3>5
    <3>8. SubSeq(t, q + 1, b) = full
      BY <1>3, <3>5, <3>6, <3>7, SeqEqual
    <3> QED BY <3>1, <3>2, <3>4, <3>8 DEF WindowOf
  <2>8. ASSUME NEW p \in 1..n
        PROVE  MinimumOf(points[p], WindowOf(p), IF p = 1 THEN NoPoint ELSE points[p - 1])'
    <3>1. CASE p # n
      <4>1. p \in 1..Len(points) /\ (p # 1 => p - 1 \in 1..Len(points))
        BY <1>1, <2>6, <3>1
      <4>2. points'[p] = points[p] /\ (p # 1 => points'[p - 1] = points[p - 1])
        BY <2>4, <4>1
      <4>3. PICK w : /\ w = WindowOf(p) /\ WindowOf(p)' = w
                     /\ MinimumOf(points[p], w, IF p = 1 THEN NoPoint ELSE points[p - 1])
        BY <1>6, <4>1 DEF PointsInv
      <4> QED BY <4>2, <4>3 DEF MinimumOf
    <3>2. CASE p = n
      <4>1. points'[p] = next
        BY <2>4, <2>6, <3>2
      <4>2. prev = IF p = 1 THEN NoPoint ELSE points[p - 1]
        <5>1. p - 1 = Len(points) /\ (p = 1 <=> Len(points) = 0)
          BY <1>1, <2>6, <3>2
        <5> QED BY <5>1 DEF PointsInv
      <4>3. p # 1 => points'[p - 1] = points[p - 1]
        <5>1. p # 1 => p - 1 \in 1..Len(points)
          BY <1>1, <2>6, <3>2
        <5> QED BY <2>4, <5>1
      <4>4. PICK w, x, y : /\ w = full /\ x = next /\ y = prev /\ MinimumOf(x, w, y)
        BY <2>3
      <4>5. WindowOf(p)' = w
        BY <2>7, <3>2, <4>4
      <4> QED BY <4>1, <4>2, <4>3, <4>4, <4>5 DEF MinimumOf
    <3> QED BY <3>1, <3>2
  <2>9. <<>> \in Seq(HashPoint) /\ Len(<<>>) = 0
    OBVIOUS
  <2>10. Len(rolled') = Len(points') * WindowLength + 0
    BY <1>1, <1>2, <1>4, <2>4, <2>5
  <2>11. prev' = IF Len(points') = 0 THEN NoPoint ELSE points'[Len(points')]
    BY <1>1, <2>1, <2>4
  <2>12. \A x \in 1..0 : FALSE
    OBVIOUS
  <2> QED BY <1>1, <1>4, <2>1, <2>3, <2>4, <2>6, <2>8, <2>9, <2>10, <2>11, <2>12 DEF PointsInv
<1> QED BY <1>7, <1>8

LEMMA PointsAreLeast == PointsInv => PointsAreMinima
<1> SUFFICES ASSUME PointsInv PROVE PointsAreMinima
  OBVIOUS
<1>1. Len(points) \in Nat /\ Len(win) \in Nat /\ WindowLength \in Nat \ {0}
      /\ DOMAIN points = 1..Len(points)
      /\ Len(rolled) = Len(points) * WindowLength + Len(win) /\ Len(win) < WindowLength
  <2>1. WindowLength \in Nat \ {0}
    BY TextAssumption
  <2>2. win \in Seq(HashPoint) /\ points \in Seq(HashPoint)
    BY DEF PointsInv
  <2> QED BY <2>1, <2>2 DEF PointsInv
<1>2. Len(points) = Len(rolled) \div WindowLength
  <2>1. (Len(points) * WindowLength + Len(win)) \div WindowLength = Len(points)
    BY <1>1, Quotient
  <2> QED BY <1>1, <2>1
<1>3. \A p \in DOMAIN points :
         MinimumOf(points[p], WindowOf(p), IF p = 1 THEN NoPoint ELSE points[p - 1])
  BY <1>1 DEF PointsInv
<1> QED BY <1>2, <1>3 DEF PointsAreMinima, MinimumOf, WindowOf

-----------------------------------------------------------------------------
(* The hash that is rolled over a text.                                    *)

TextIs ==
    /\ text \in Seq(DOMAIN Fold) /\ pos \in 0..Size /\ first \in Nat
    /\ pcT \in {"kgram", "none", "roll", "done", "undefined"}
    /\ kgram \in [0..(KgramLength - 1) -> DOMAIN Key \cup {Unset}]
    /\ hashword \in Bits /\ Letters \in Seq(DOMAIN Key)
    /\ pcT \in {"kgram", "none"} =>
           pos <= KgramLength /\ first = 0 /\ win = <<>> /\ rolled = <<>> /\ points = <<>>
    /\ pcT \in {"roll", "done", "undefined"} => pos >= KgramLength
    /\ pcT = "done" => pos = Size

\* Each character after the first K-gram gives a hash, if it is not skipped.
RoomInv ==
    /\ pcT \in {"roll", "done", "undefined"} =>
           Len(rolled) + KgramLength + SkippedIn(KgramLength + 1, pos) = pos + 1
    /\ pcT # "undefined" => Len(points) <= Capacity
    /\ pcT = "undefined" => Len(points) > Capacity

\* The hash when f letters were added to the first K-gram of letters, and the
\* letter found in the ring at the turn of that number.  A letter is written to
\* the cell that is read one turn before it would be its own: from the K-gram
\* after the first on, the letter found is the one after that which leaves.
Exact(letters) == HashOf(letters, Len(letters) - KgramLength + 1, Len(letters), 0)
HashAt(letters, f) == IF f < KgramLength THEN Exact(letters)
                      ELSE Xor(Exact(letters), Residue(letters))
FoundAt(letters, f) == IF f < KgramLength - 1 THEN letters[f + 1] ELSE letters[f + 2]

RingInv ==
    \A x \in first..(first + KgramLength - 2) :
        kgram[x % KgramLength] = FoundAt(Letters, x)

RollInv ==
    WholeKgram =>
        /\ pcT = "kgram" =>
               /\ Len(Letters) = pos
               /\ \A x \in 1..pos : kgram[x - 1] = Letters[x]
               /\ hashword = HashOf(Letters, 1, pos, 0)
        /\ pcT \in {"roll", "done", "undefined"} =>
               /\ Len(Letters) = KgramLength + first
               /\ RingInv
               /\ hashword = HashAt(Letters, first)

TextInv == TextIs /\ PointsInv /\ RoomInv /\ RollInv

\* Listing character by character.
LEMMA KeepAppend ==
    ASSUME NEW T, NEW s \in Seq(T), NEW e \in T, NEW wanted
    PROVE  Keep(Append(s, e), wanted) =
               IF e \in wanted THEN Append(Keep(s, wanted), e) ELSE Keep(s, wanted)
<1>1. PICK t : /\ t = Append(s, e) /\ t \in Seq(T) /\ Len(t) = Len(s) + 1 /\ Len(s) \in Nat
               /\ \A x \in 1..Len(s) : t[x] = s[x]
               /\ t[Len(s) + 1] = e
  <2>1. /\ Append(s, e) \in Seq(T) /\ Len(Append(s, e)) = Len(s) + 1
        /\ \A x \in 1..Len(s) : Append(s, e)[x] = s[x]
        /\ Append(s, e)[Len(s) + 1] = e
    BY AppendRange
  <2>2. Len(s) \in Nat
    OBVIOUS
  <2> QED BY <2>1, <2>2, Zenon
<1>2. PICK u : /\ Keep(s, wanted) = u[Len(s)] /\ u[0] = <<>>
               /\ \A x \in 1..Len(s) :
                     u[x] = IF s[x] \in wanted THEN Append(u[x - 1], s[x]) ELSE u[x - 1]
  BY KeepSteps
<1>3. PICK v : /\ Keep(t, wanted) = v[Len(t)] /\ v[0] = <<>>
               /\ \A x \in 1..Len(t) :
                     v[x] = IF t[x] \in wanted THEN Append(v[x - 1], t[x]) ELSE v[x - 1]
  <2>1. t \in Seq(T)
    BY <1>1
  <2> QED BY <2>1, KeepSteps
<1> DEFINE U == {n \in Nat : n <= Len(s) => u[n] = v[n]}
<1>4. 0 \in U
  BY <1>2, <1>3
<1>5. ASSUME NEW n \in U PROVE n + 1 \in U
  <2>1. SUFFICES ASSUME n + 1 <= Len(s) PROVE u[n + 1] = v[n + 1]
    OBVIOUS
  <2>2. n + 1 \in 1..Len(s) /\ n + 1 \in 1..Len(t) /\ (n + 1) - 1 = n /\ u[n] = v[n]
    BY <1>1, <2>1
  <2>3. u[n + 1] = IF s[n + 1] \in wanted THEN Append(u[n], s[n + 1]) ELSE u[n]
    BY <1>2, <2>2
  <2>4. v[n + 1] = IF t[n + 1] \in wanted THEN Append(v[n], t[n + 1]) ELSE v[n]
    BY <1>3, <2>2
  <2>5. t[n + 1] = s[n + 1]
    BY <1>1, <2>2
  <2> QED BY <2>2, <2>3, <2>4, <2>5
<1>6. U = Nat
  <2>1. U \in SUBSET Nat
    OBVIOUS
  <2> HIDE DEF U
  <2> QED BY <1>4, <1>5, <2>1, NatInd
<1>7. u[Len(s)] = v[Len(s)]
  <2>1. Len(s) \in U
    BY <1>1, <1>6
  <2> QED BY <2>1
<1>8. v[Len(t)] = IF e \in wanted THEN Append(v[Len(s)], e) ELSE v[Len(s)]
  <2>1. Len(t) \in 1..Len(t) /\ Len(t) - 1 = Len(s) /\ t[Len(t)] = e
    BY <1>1
  <2> QED BY <1>3, <2>1
<1> QED BY <1>1, <1>2, <1>3, <1>7, <1>8

LEMMA Parity ==
    ASSUME NEW T, IsFiniteSet(T), NEW e, e \notin T
    PROVE  /\ Cardinality(T) % 2 \in 0..1
           /\ Cardinality(T \cup {e}) % 2 = 1 - (Cardinality(T) % 2)
<1>1. Cardinality(T) \in Nat
  BY FS_CardinalityType
<1>2. Cardinality(T \cup {e}) = Cardinality(T) + 1
  BY FS_AddElement
<1> QED BY <1>1, <1>2

Lettered(letters) == DOMAIN letters = 1..Len(letters) /\ Len(letters) \in Nat
                     /\ \A n \in 1..Len(letters) : letters[n] \in DOMAIN Key

\* The keys that have a bit set, of the letters a..e shifted so that the last
\* is by n.
With(letters, a, e, n, b) ==
    {m \in a..e : ShiftLeft(Key[letters[m]], n + e - m)[b] = 1}

LEMMA HashOfIs ==
    ASSUME NEW letters, NEW a \in Int, NEW e \in Int, NEW n \in Nat
    PROVE  /\ HashOf(letters, a, e, n) \in Bits
           /\ \A b \in Bit : HashOf(letters, a, e, n)[b] =
                                Cardinality(With(letters, a, e, n, b)) % 2
           /\ \A b : IsFiniteSet(With(letters, a, e, n, b))
<1>1. \A b \in Bit : HashOf(letters, a, e, n)[b] = Cardinality(With(letters, a, e, n, b)) % 2
  BY DEF HashOf, With
<1>2. IsFiniteSet(a..e)
  BY FS_Interval
<1>3. \A b : IsFiniteSet(With(letters, a, e, n, b))
  <2>1. \A b : With(letters, a, e, n, b) \subseteq a..e
    BY DEF With
  <2> QED BY <1>2, <2>1, FS_Subset
<1>4. \A b \in Bit : Cardinality(With(letters, a, e, n, b)) % 2 \in 0..1
  <2>1. \A b : Cardinality(With(letters, a, e, n, b)) \in Nat
    BY <1>3, FS_CardinalityType
  <2> QED BY <2>1
<1>5. HashOf(letters, a, e, n) = [b \in Bit |-> Cardinality(With(letters, a, e, n, b)) % 2]
  BY DEF HashOf, With
<1> QED BY <1>1, <1>3, <1>4, <1>5 DEF Bits

LEMMA HashOfNone ==
    ASSUME NEW letters, NEW a \in Int, NEW e \in Int, e < a, NEW n \in Nat
    PROVE  HashOf(letters, a, e, n) = [b \in Bit |-> 0]
<1>1. a..e = {}
  OBVIOUS
<1>2. \A b : With(letters, a, e, n, b) = {}
  BY <1>1 DEF With
<1>3. Cardinality({}) = 0
  BY FS_EmptySet
<1>4. \A b \in Bit : HashOf(letters, a, e, n)[b] = 0
  <2>1. \A b \in Bit : HashOf(letters, a, e, n)[b] = Cardinality({}) % 2
    BY <1>2, HashOfIs
  <2>2. 0 % 2 = 0
    OBVIOUS
  <2> QED BY <1>3, <2>1, <2>2
<1>5. HashOf(letters, a, e, n) \in Bits /\ [b \in Bit |-> 0] \in Bits
  BY HashOfIs DEF Bits
<1> QED BY <1>4, <1>5, SameBits

AlikeIn(letters, more, a, e) == \A m \in a..e : letters[m] = more[m]

\* A hash depends on its letters only.
LEMMA HashOfSame ==
    ASSUME NEW letters, NEW more, NEW a \in Int, NEW e \in Int, NEW n \in Nat,
           AlikeIn(letters, more, a, e)
    PROVE  HashOf(letters, a, e, n) = HashOf(more, a, e, n)
<1>1. \A b : With(letters, a, e, n, b) = With(more, a, e, n, b)
  BY DEF With, AlikeIn
<1>2. \A b \in Bit : HashOf(letters, a, e, n)[b] = HashOf(more, a, e, n)[b]
  BY <1>1, HashOfIs
<1> QED BY <1>2, HashOfIs, SameBits

\* A letter is added: those before are shifted by one.
LEMMA HashOfNext ==
    ASSUME NEW letters, Lettered(letters), NEW a \in Nat \ {0}, NEW e \in Nat,
           a <= e + 1, e + 1 <= Len(letters), NEW n \in Nat
    PROVE  HashOf(letters, a, e + 1, n) =
               Xor(ShiftLeft(HashOf(letters, a, e, n), 1),
                   ShiftLeft(Key[letters[e + 1]], n))
<1> DEFINE key(m) == Key[letters[m]]
           old == HashOf(letters, a, e, n)
<1>1. \A m \in a..(e + 1) : key(m) \in Bits
  <2>1. \A m \in a..(e + 1) : m \in 1..Len(letters)
    BY DEF Lettered
  <2> QED BY <2>1, TextAssumption DEF Lettered
<1>2. /\ HashOf(letters, a, e + 1, n) \in Bits /\ old \in Bits
      /\ \A b \in Bit : HashOf(letters, a, e + 1, n)[b] =
                            Cardinality(With(letters, a, e + 1, n, b)) % 2
      /\ \A b \in Bit : old[b] = Cardinality(With(letters, a, e, n, b)) % 2
      /\ \A b : IsFiniteSet(With(letters, a, e, n, b))
  <2>1. a \in Int /\ e \in Int /\ e + 1 \in Int
    OBVIOUS
  <2> QED BY <2>1, HashOfIs
<1>3. key(e + 1) \in Bits /\ 1 \in Nat
  BY <1>1
<1>4. /\ ShiftLeft(old, 1) \in Bits /\ ShiftLeft(key(e + 1), n) \in Bits
      /\ Xor(ShiftLeft(old, 1), ShiftLeft(key(e + 1), n)) \in Bits
  BY <1>2, <1>3, BitsAre
<1>5. ASSUME NEW b \in Bit
      PROVE  HashOf(letters, a, e + 1, n)[b] =
                 Xor(ShiftLeft(old, 1), ShiftLeft(key(e + 1), n))[b]
  <2> DEFINE before == {m \in a..e : ShiftLeft(key(m), n + (e + 1) - m)[b] = 1}
             new == ShiftLeft(key(e + 1), n)[b]
  <2>0. b \in Nat /\ new \in 0..1
    BY <1>4, TextAssumption DEF Bit, Bits
  <2>1. before = IF b < 1 THEN {} ELSE With(letters, a, e, n, b - 1)
    <3>1. ASSUME NEW m \in a..e
          PROVE  ShiftLeft(key(m), n + (e + 1) - m)[b] =
                     IF b < 1 THEN 0 ELSE ShiftLeft(key(m), n + e - m)[b - 1]
      <4>1. /\ key(m) \in Bits /\ n + (e + 1) - m \in Nat /\ n + e - m \in Nat
            /\ n + (e + 1) - m = (n + e - m) + 1
        BY <1>1
      <4>2. PICK y \in Nat : y = n + e - m /\ y + 1 = n + (e + 1) - m
        BY <4>1
      <4>3. ShiftLeft(key(m), y + 1)[b] = IF b < y + 1 THEN 0 ELSE key(m)[b - (y + 1)]
        <5>1. y + 1 \in Nat /\ key(m) \in Bits
          BY <4>1, <4>2
        <5> HIDE DEF key
        <5> QED BY <5>1, ShiftLeftIs
      <4>4. b >= 1 => b - 1 \in Bit
        BY <2>0, TextAssumption DEF Bit
      <4>5. b >= 1 => ShiftLeft(key(m), y)[b - 1] = IF b - 1 < y THEN 0 ELSE key(m)[(b - 1) - y]
        <5>1. y \in Nat /\ key(m) \in Bits
          BY <4>1, <4>2
        <5> HIDE DEF key
        <5> QED BY <4>4, <5>1, ShiftLeftIs
      <4>6. (b - 1) - y = b - (y + 1) /\ (b - 1 < y <=> b < y + 1)
        BY <2>0, <4>2
      <4> HIDE DEF key
      <4> QED BY <2>0, <4>2, <4>3, <4>5, <4>6
    <3> HIDE DEF key
    <3>2. CASE b < 1
      <4>1. \A m \in a..e : ShiftLeft(key(m), n + (e + 1) - m)[b] = 0
        BY <3>1, <3>2
      <4>2. 0 # 1
        OBVIOUS
      <4> QED BY <3>2, <4>1, <4>2
    <3>3. CASE ~(b < 1)
      <4>1. \A m \in a..e : ShiftLeft(key(m), n + (e + 1) - m)[b] =
                             ShiftLeft(key(m), n + e - m)[b - 1]
        BY <3>1, <3>3
      <4>2. With(letters, a, e, n, b - 1) =
                {m \in a..e : ShiftLeft(key(m), n + e - m)[b - 1] = 1}
        BY DEF With, key
      <4> QED BY <3>3, <4>1, <4>2
    <3> QED BY <3>2, <3>3
  <2>2. With(letters, a, e + 1, n, b) = before \cup (IF new = 1 THEN {e + 1} ELSE {})
    <3>1. a..(e + 1) = (a..e) \cup {e + 1}
      OBVIOUS
    <3>2. n + (e + 1) - (e + 1) = n
      OBVIOUS
    <3> QED BY <3>1, <3>2 DEF With
  <2>3. ShiftLeft(old, 1)[b] = IF b < 1 THEN 0 ELSE old[b - 1]
    BY <1>2, BitsAre
  <2>4. Cardinality(before) % 2 = ShiftLeft(old, 1)[b] /\ IsFiniteSet(before)
    <3>1. CASE b < 1
      <4>1. before = {} /\ Cardinality({}) = 0 /\ IsFiniteSet({})
        BY <2>1, <3>1, FS_EmptySet
      <4>2. ShiftLeft(old, 1)[b] = 0
        BY <2>3, <3>1
      <4>3. 0 % 2 = 0
        OBVIOUS
      <4> HIDE DEF before, old
      <4> QED BY <4>1, <4>2, <4>3
    <3>2. CASE ~(b < 1)
      <4>1. b - 1 \in Bit
        BY <2>0, <3>2, TextAssumption DEF Bit
      <4>2. before = With(letters, a, e, n, b - 1)
        BY <2>1, <3>2
      <4> HIDE DEF before, old
      <4> QED BY <1>2, <2>3, <3>2, <4>1, <4>2
    <3> QED BY <3>1, <3>2
  <2>5. e + 1 \notin before
    OBVIOUS
  <2>6. Cardinality(With(letters, a, e + 1, n, b)) % 2 =
            IF new = 1 THEN 1 - ShiftLeft(old, 1)[b] ELSE ShiftLeft(old, 1)[b]
    <3> HIDE DEF before, new, old
    <3>1. CASE new = 1
      BY <2>2, <2>4, <2>5, <3>1, Parity
    <3>2. CASE new # 1
      BY <2>2, <2>4, <3>2
    <3> QED BY <3>1, <3>2
  <2>7. Xor(ShiftLeft(old, 1), ShiftLeft(key(e + 1), n))[b] =
            IF ShiftLeft(old, 1)[b] = new THEN 0 ELSE 1
    BY <1>4, BitsAre
  <2>8. ShiftLeft(old, 1)[b] \in 0..1
    BY <1>4 DEF Bits
  <2> HIDE DEF new, old
  <2>9. HashOf(letters, a, e + 1, n)[b] = IF ShiftLeft(old, 1)[b] = new THEN 0 ELSE 1
    BY <1>2, <2>0, <2>6, <2>8
  <2> QED BY <2>7, <2>9
<1> HIDE DEF old, key
<1>6. HashOf(letters, a, e + 1, n) = Xor(ShiftLeft(old, 1), ShiftLeft(key(e + 1), n))
  BY <1>2, <1>4, <1>5, SameBits
<1> QED BY <1>6 DEF old, key

\* The first letter is taken out.
LEMMA HashOfDrop ==
    ASSUME NEW letters, Lettered(letters), NEW a \in Nat \ {0}, NEW e \in Nat,
           a <= e, e <= Len(letters), NEW n \in Nat
    PROVE  HashOf(letters, a, e, n) =
               Xor(HashOf(letters, a + 1, e, n), ShiftLeft(Key[letters[a]], n + e - a))
<1> DEFINE key == Key[letters[a]]
           tail == HashOf(letters, a + 1, e, n)
           shifted == ShiftLeft(key, n + e - a)
<1>1. key \in Bits /\ n + e - a \in Nat
  <2>1. a \in 1..Len(letters)
    BY DEF Lettered
  <2> QED BY <2>1, TextAssumption DEF Lettered
<1>2. /\ HashOf(letters, a, e, n) \in Bits /\ tail \in Bits
      /\ \A b \in Bit : HashOf(letters, a, e, n)[b] = Cardinality(With(letters, a, e, n, b)) % 2
      /\ \A b \in Bit : tail[b] = Cardinality(With(letters, a + 1, e, n, b)) % 2
      /\ \A b : IsFiniteSet(With(letters, a + 1, e, n, b))
  <2>1. a \in Int /\ e \in Int /\ a + 1 \in Int
    OBVIOUS
  <2> QED BY <2>1, HashOfIs
<1>3. shifted \in Bits
  BY <1>1, BitsAre
<1>4. Xor(tail, shifted) \in Bits /\ \A b \in Bit : Xor(tail, shifted)[b] =
                                          IF tail[b] = shifted[b] THEN 0 ELSE 1
  <2> HIDE DEF tail, shifted
  <2>1. 0 \in Nat
    OBVIOUS
  <2> QED BY <1>2, <1>3, <2>1, BitsAre
<1>5. ASSUME NEW b \in Bit PROVE HashOf(letters, a, e, n)[b] = Xor(tail, shifted)[b]
  <2>1. With(letters, a, e, n, b) =
            With(letters, a + 1, e, n, b) \cup (IF shifted[b] = 1 THEN {a} ELSE {})
    <3>1. a..e = ((a + 1)..e) \cup {a}
      OBVIOUS
    <3> QED BY <3>1 DEF With
  <2>2. a \notin With(letters, a + 1, e, n, b)
    BY DEF With
  <2>3. tail[b] \in 0..1 /\ shifted[b] \in 0..1
    BY <1>2, <1>3 DEF Bits
  <2> HIDE DEF tail, shifted
  <2>4. CASE shifted[b] = 1
    <3>1. Cardinality(With(letters, a, e, n, b)) % 2 = 1 - tail[b]
      BY <1>2, <2>1, <2>2, <2>4, Parity
    <3> QED BY <1>2, <1>4, <2>3, <2>4, <3>1
  <2>5. CASE shifted[b] # 1
    <3>1. With(letters, a, e, n, b) = With(letters, a + 1, e, n, b)
      BY <2>1, <2>5
    <3>2. HashOf(letters, a, e, n)[b] = tail[b]
      BY <1>2, <3>1
    <3> QED BY <1>4, <2>3, <2>5, <3>2
  <2> QED BY <2>4, <2>5
<1> HIDE DEF tail, shifted
<1>6. HashOf(letters, a, e, n) = Xor(tail, shifted)
  BY <1>2, <1>4, <1>5, SameBits
<1> QED BY <1>6 DEF tail, shifted

\* Taking a hash in twice leaves nothing of it.
LEMMA XorTwice ==
    ASSUME NEW x \in Bits, NEW y \in Bits
    PROVE  Xor(Xor(x, y), y) = x
<1>1. Xor(x, y) \in Bits /\ Xor(Xor(x, y), y) \in Bits
  <2>1. 0 \in Nat
    OBVIOUS
  <2> QED BY <2>1, BitsAre
<1>2. \A b \in Bit : /\ x[b] \in 0..1 /\ y[b] \in 0..1
                     /\ Xor(x, y)[b] = IF x[b] = y[b] THEN 0 ELSE 1
                     /\ Xor(Xor(x, y), y)[b] = IF Xor(x, y)[b] = y[b] THEN 0 ELSE 1
  BY DEF Bits, Xor
<1>3. \A b \in Bit : Xor(Xor(x, y), y)[b] = x[b]
  BY <1>2
<1> QED BY <1>1, <1>3, SameBits

LEMMA XorNothing ==
    ASSUME NEW x \in Bits, NEW z, z = [b \in Bit |-> 0]
    PROVE  z \in Bits /\ Xor(x, Xor(z, z)) = x
<1>1. z \in Bits
  BY DEF Bits
<1>2. Xor(z, z) \in Bits /\ Xor(x, Xor(z, z)) \in Bits
  <2>1. 0 \in Nat
    OBVIOUS
  <2> QED BY <1>1, <2>1, BitsAre
<1>3. \A b \in Bit : /\ x[b] \in 0..1 /\ z[b] = 0
                     /\ Xor(z, z)[b] = IF z[b] = z[b] THEN 0 ELSE 1
                     /\ Xor(x, Xor(z, z))[b] = IF x[b] = Xor(z, z)[b] THEN 0 ELSE 1
  BY DEF Bits, Xor
<1>4. \A b \in Bit : Xor(x, Xor(z, z))[b] = x[b]
  BY <1>3
<1> QED BY <1>1, <1>2, <1>4, SameBits

\* A hash e is rolled that has the residues p and q: with key taken in and t
\* taken out, the residues are shifted and have s and t added.
ResidueRolls(e, p, q, key, new, s, t) ==
    Xor(ShiftLeft(e, 1), key) = Xor(new, s) =>
        Xor(Xor(ShiftLeft(Xor(e, Xor(p, q)), 1), key), t) =
            Xor(new, Xor(Xor(ShiftLeft(p, 1), s), Xor(ShiftLeft(q, 1), t)))

\* A residue is shifted with the hash it is part of.
LEMMA ResidueShifts ==
    ASSUME NEW e \in Bits, NEW p \in Bits, NEW q \in Bits, NEW key \in Bits,
           NEW new \in Bits, NEW s \in Bits, NEW t \in Bits
    PROVE  ResidueRolls(e, p, q, key, new, s, t)
<1> SUFFICES ASSUME Xor(ShiftLeft(e, 1), key) = Xor(new, s)
             PROVE  Xor(Xor(ShiftLeft(Xor(e, Xor(p, q)), 1), key), t) =
                        Xor(new, Xor(Xor(ShiftLeft(p, 1), s), Xor(ShiftLeft(q, 1), t)))
  BY DEF ResidueRolls
<1> DEFINE x == Xor(e, Xor(p, q))
           le == ShiftLeft(e, 1)
           lp == ShiftLeft(p, 1)
           lq == ShiftLeft(q, 1)
           lx == ShiftLeft(x, 1)
           left == Xor(Xor(lx, key), t)
           right == Xor(new, Xor(Xor(lp, s), Xor(lq, t)))
<1>1. 1 \in Nat /\ \A u, v \in Bits : Xor(u, v) \in Bits /\ ShiftLeft(u, 1) \in Bits
  BY BitsAre
<1>2. \A u, v \in Bits, b \in Bit : /\ u[b] \in 0..1
                                    /\ Xor(u, v)[b] = IF u[b] = v[b] THEN 0 ELSE 1
  BY DEF Bits, Xor
<1>3. Xor(p, q) \in Bits /\ x \in Bits
  BY <1>1
<1> HIDE DEF x
<1>4. le \in Bits /\ lp \in Bits /\ lq \in Bits /\ lx \in Bits
  BY <1>1, <1>3
<1>5. ASSUME NEW b \in Bit
      PROVE  lx[b] = IF le[b] = (IF lp[b] = lq[b] THEN 0 ELSE 1) THEN 0 ELSE 1
  <2>1. b \in Nat /\ (~(b < 1) => b - 1 \in Bit)
    BY TextAssumption DEF Bit
  <2>2. /\ lx[b] = (IF b < 1 THEN 0 ELSE x[b - 1])
        /\ le[b] = (IF b < 1 THEN 0 ELSE e[b - 1])
        /\ lp[b] = (IF b < 1 THEN 0 ELSE p[b - 1])
        /\ lq[b] = (IF b < 1 THEN 0 ELSE q[b - 1])
    BY <1>3, <1>1, ShiftLeftIs
  <2> HIDE DEF lx, le, lp, lq
  <2>3. CASE b < 1
    BY <2>2, <2>3
  <2>4. CASE ~(b < 1)
    <3>1. PICK d \in Bit : d = b - 1
      BY <2>1, <2>4
    <3>2. x[d] = (IF e[d] = Xor(p, q)[d] THEN 0 ELSE 1)
      BY <1>2, <1>3 DEF x
    <3>3. Xor(p, q)[d] = (IF p[d] = q[d] THEN 0 ELSE 1)
      BY <1>2
    <3> QED BY <2>2, <2>4, <3>1, <3>2, <3>3
  <2> QED BY <2>3, <2>4
<1> HIDE DEF lx, le, lp, lq
<1>6. Xor(lx, key) \in Bits /\ left \in Bits
  BY <1>1, <1>4
<1>7. Xor(lp, s) \in Bits /\ Xor(lq, t) \in Bits /\ Xor(Xor(lp, s), Xor(lq, t)) \in Bits
      /\ right \in Bits
  BY <1>1, <1>4
<1>8. ASSUME NEW b \in Bit PROVE left[b] = right[b]
  <2>1. /\ left[b] = (IF Xor(lx, key)[b] = t[b] THEN 0 ELSE 1)
        /\ Xor(lx, key)[b] = (IF lx[b] = key[b] THEN 0 ELSE 1)
    BY <1>2, <1>4, <1>6
  <2>2. /\ right[b] = (IF new[b] = Xor(Xor(lp, s), Xor(lq, t))[b] THEN 0 ELSE 1)
        /\ Xor(Xor(lp, s), Xor(lq, t))[b] = (IF Xor(lp, s)[b] = Xor(lq, t)[b] THEN 0 ELSE 1)
        /\ Xor(lp, s)[b] = (IF lp[b] = s[b] THEN 0 ELSE 1)
        /\ Xor(lq, t)[b] = (IF lq[b] = t[b] THEN 0 ELSE 1)
    BY <1>2, <1>4, <1>7
  <2>3. (IF le[b] = key[b] THEN 0 ELSE 1) = (IF new[b] = s[b] THEN 0 ELSE 1)
    <3>1. Xor(le, key)[b] = Xor(new, s)[b]
      BY DEF le
    <3> QED BY <1>2, <1>4, <3>1
  <2>4. /\ le[b] \in 0..1 /\ lp[b] \in 0..1 /\ lq[b] \in 0..1 /\ key[b] \in 0..1
        /\ new[b] \in 0..1 /\ s[b] \in 0..1 /\ t[b] \in 0..1
    BY <1>2, <1>4
  <2> HIDE DEF left, right
  <2> QED BY <1>5, <2>1, <2>2, <2>3, <2>4
<1>9. left = right
  <2> HIDE DEF left, right
  <2> QED BY <1>6, <1>7, <1>8, SameBits
<1> QED BY <1>9 DEF lx, le, lp, lq, x

\* The hash after a turn of the loop, by the letter it took out.
LEMMA TurnOfHash ==
    ASSUME NEW l \in Seq(DOMAIN Key), NEW c \in DOMAIN Key, NEW f \in Nat,
           Len(l) = KgramLength + f
    PROVE  Xor(Xor(ShiftLeft(HashAt(l, f), 1), Key[c]), ShiftLeft(Key[FoundAt(l, f)], KgramLength)) =
               HashAt(Append(l, c), f + 1)
<1> SUFFICES ASSUME NEW h, h = HashAt(l, f), NEW old, old = FoundAt(l, f),
                    NEW more, more = Append(l, c)
             PROVE  Xor(Xor(ShiftLeft(h, 1), Key[c]), ShiftLeft(Key[old], KgramLength)) =
                        HashAt(more, f + 1)
  OBVIOUS
<1> USE DEF HashAt, FoundAt
<1> DEFINE n == KgramLength + f
           e == HashOf(l, f + 1, n, 0)
           new == HashOf(more, f + 2, n + 1, 0)
           s == ShiftLeft(Key[more[f + 1]], KgramLength)
           t == ShiftLeft(Key[more[f + 2]], KgramLength)
           p == HashOf(l, KgramLength, f, KgramLength)
           q == HashOf(l, KgramLength + 1, f + 1, KgramLength)
<1>1. KgramLength \in Nat /\ KgramLength > 1 /\ n \in Nat /\ Key \in [DOMAIN Key -> Bits]
  BY TextAssumption
<1>2. /\ more \in Seq(DOMAIN Key) /\ Len(more) = n + 1 /\ more[n + 1] = c
      /\ \A x \in 1..n : more[x] = l[x]
  <2>1. /\ Append(l, c) \in Seq(DOMAIN Key) /\ Len(Append(l, c)) = Len(l) + 1
        /\ \A x \in 1..Len(l) : Append(l, c)[x] = l[x]
        /\ Append(l, c)[Len(l) + 1] = c
    BY AppendRange
  <2> QED BY <2>1, Zenon
<1>3. Lettered(l) /\ Lettered(more)
  BY <1>1, <1>2 DEF Lettered
<1>4. Exact(l) = e /\ Exact(more) = new
  <2>1. Len(l) - KgramLength + 1 = f + 1 /\ Len(more) - KgramLength + 1 = f + 2
    BY <1>1, <1>2
  <2> QED BY <1>2, <2>1 DEF Exact
<1>5. /\ Key[c] \in Bits /\ e \in Bits /\ new \in Bits /\ p \in Bits /\ q \in Bits
      /\ s \in Bits /\ t \in Bits
  <2>1. /\ f + 1 \in Int /\ n \in Int /\ f + 2 \in Int /\ n + 1 \in Int /\ f \in Int
        /\ KgramLength \in Int /\ KgramLength + 1 \in Int /\ 0 \in Nat
    BY <1>1
  <2>2. f + 1 \in 1..Len(more) /\ f + 2 \in 1..Len(more)
    BY <1>1, <1>2
  <2>3. Key[more[f + 1]] \in Bits /\ Key[more[f + 2]] \in Bits /\ Key[c] \in Bits
    BY <1>1, <1>2, <2>2
  <2> QED BY <1>1, <2>1, <2>3, HashOfIs, BitsAre
<1>6. Xor(ShiftLeft(e, 1), Key[c]) = Xor(new, s)
  <2>1. HashOf(more, f + 1, n, 0) = e
    <3>1. \A m \in (f + 1)..n : more[m] = l[m]
      BY <1>1, <1>2
    <3>2. PICK x \in Int, y \in Int : x = f + 1 /\ y = n
      BY <1>1
    <3>3. AlikeIn(more, l, x, y)
      BY <3>1, <3>2 DEF AlikeIn
    <3>4. PICK z \in Nat : z = 0
      OBVIOUS
    <3>5. HashOf(more, x, y, z) = HashOf(l, x, y, z)
      BY <3>3, HashOfSame
    <3> HIDE DEF n
    <3> QED BY <3>2, <3>4, <3>5
  <2>2. f + 1 \in Nat \ {0} /\ f + 1 <= n + 1 /\ n + 1 <= Len(more) /\ 0 \in Nat /\ n + 1 \in Nat
        /\ f + 1 <= n
    BY <1>1, <1>2
  <2> HIDE DEF n
  <2>3. HashOf(more, f + 1, n + 1, 0) =
            Xor(ShiftLeft(HashOf(more, f + 1, n, 0), 1), ShiftLeft(Key[more[n + 1]], 0))
    BY <1>1, <1>3, <2>2, HashOfNext
  <2>4. ShiftLeft(Key[c], 0) = Key[c]
    <3>1. ASSUME NEW b \in Bit PROVE ShiftLeft(Key[c], 0)[b] = Key[c][b]
      <4>1. b \in Nat
        BY TextAssumption DEF Bit
      <4>2. ~(b < 0) /\ b - 0 = b
        BY <4>1
      <4> QED BY <1>5, <4>2, ShiftLeftIs
    <3>2. ShiftLeft(Key[c], 0) \in Bits
      BY <1>5, <2>2, BitsAre
    <3> QED BY <1>5, <3>1, <3>2, SameBits
  <2>5. HashOf(more, f + 1, n + 1, 0) =
            Xor(HashOf(more, (f + 1) + 1, n + 1, 0),
                ShiftLeft(Key[more[f + 1]], 0 + (n + 1) - (f + 1)))
    <3>1. f + 1 <= n + 1
      BY <2>2
    <3> QED BY <1>1, <1>3, <2>2, HashOfDrop
  <2>6. (f + 1) + 1 = f + 2 /\ 0 + (n + 1) - (f + 1) = KgramLength
    <3>1. KgramLength \in Nat /\ n = KgramLength + f
      BY <1>1 DEF n
    <3> HIDE DEF n
    <3> QED BY <3>1
  <2> QED BY <1>2, <2>1, <2>3, <2>4, <2>5, <2>6
<1>7. CASE f < KgramLength - 1
  <2>1. h = e /\ f + 1 < KgramLength
    BY <1>1, <1>4, <1>7
  <2>2. old = more[f + 1]
    BY <1>1, <1>2, <1>7
  <2> HIDE DEF e, new
  <2>3. Xor(Xor(new, s), s) = new
    BY <1>5, XorTwice
  <2> QED BY <1>4, <1>6, <2>1, <2>2, <2>3
<1>8. CASE ~(f < KgramLength - 1)
  <2>1. old = more[f + 2] /\ ~(f + 1 < KgramLength)
    BY <1>1, <1>2, <1>8
  <2>2. h = Xor(e, Xor(p, q))
    <3>1. CASE f < KgramLength
      <4>1. f < KgramLength /\ f + 1 < KgramLength + 1 /\ f = KgramLength - 1 /\ h = e
        BY <1>1, <1>4, <1>8, <3>1
      <4>2. p = [b \in Bit |-> 0] /\ q = [b \in Bit |-> 0]
        <5>1. /\ KgramLength \in Int /\ f \in Int /\ KgramLength + 1 \in Int
              /\ f + 1 \in Int /\ KgramLength \in Nat
          BY <1>1
        <5>2. p = [b \in Bit |-> 0]
          <6>1. PICK x \in Int, y \in Int : x = KgramLength /\ y = f /\ y < x
            BY <4>1, <5>1
          <6>2. HashOf(l, x, y, KgramLength) = [b \in Bit |-> 0]
            BY <5>1, <6>1, HashOfNone
          <6> QED BY <6>1, <6>2
        <5>3. PICK x \in Int, y \in Int : x = KgramLength + 1 /\ y = f + 1 /\ y < x
          BY <4>1, <5>1
        <5>4. q = [b \in Bit |-> 0]
          BY <5>1, <5>3, HashOfNone
        <5> QED BY <5>2, <5>4
      <4> HIDE DEF e, p, q
      <4> QED BY <1>5, <4>1, <4>2, XorNothing
    <3>2. CASE ~(f < KgramLength)
      <4>1. h = Xor(e, Residue(l))
        BY <1>4, <3>2
      <4>2. Len(l) - KgramLength = f /\ Len(l) - KgramLength + 1 = f + 1
        BY <1>1
      <4> QED BY <4>1, <4>2 DEF Residue
    <3> QED BY <3>1, <3>2
  <2>3. Residue(more) = Xor(HashOf(more, KgramLength, f + 1, KgramLength),
                            HashOf(more, KgramLength + 1, f + 2, KgramLength))
    <3>1. Len(more) - KgramLength = f + 1 /\ Len(more) - KgramLength + 1 = f + 2
      BY <1>1, <1>2
    <3> QED BY <3>1 DEF Residue
  <2>4. HashOf(more, KgramLength, f + 1, KgramLength) = Xor(ShiftLeft(p, 1), s)
    <3>1. HashOf(more, KgramLength, f, KgramLength) = p
      <4>1. \A m \in KgramLength..f : more[m] = l[m]
        BY <1>1, <1>2
      <4>2. PICK x \in Int, y \in Int : x = KgramLength /\ y = f
        BY <1>1
      <4>3. AlikeIn(more, l, x, y)
        BY <4>1, <4>2 DEF AlikeIn
      <4>4. HashOf(more, x, y, KgramLength) = HashOf(l, x, y, KgramLength)
        BY <1>1, <4>3, HashOfSame
      <4> QED BY <4>2, <4>4
    <3>2. KgramLength \in Nat \ {0} /\ KgramLength <= f + 1 /\ f + 1 <= Len(more)
      BY <1>1, <1>2, <1>8
    <3>3. HashOf(more, KgramLength, f + 1, KgramLength) =
              Xor(ShiftLeft(HashOf(more, KgramLength, f, KgramLength), 1),
                  ShiftLeft(Key[more[f + 1]], KgramLength))
      BY <1>1, <1>3, <3>2, HashOfNext
    <3> QED BY <3>1, <3>3
  <2>5. HashOf(more, KgramLength + 1, f + 2, KgramLength) = Xor(ShiftLeft(q, 1), t)
    <3>1. HashOf(more, KgramLength + 1, f + 1, KgramLength) = q
      <4>1. \A m \in (KgramLength + 1)..(f + 1) : more[m] = l[m]
        BY <1>1, <1>2
      <4>2. PICK x \in Int, y \in Int : x = KgramLength + 1 /\ y = f + 1
        BY <1>1
      <4>3. AlikeIn(more, l, x, y)
        BY <4>1, <4>2 DEF AlikeIn
      <4>4. HashOf(more, x, y, KgramLength) = HashOf(l, x, y, KgramLength)
        BY <1>1, <4>3, HashOfSame
      <4> QED BY <4>2, <4>4
    <3>2. /\ KgramLength + 1 \in Nat \ {0} /\ KgramLength + 1 <= (f + 1) + 1
          /\ (f + 1) + 1 <= Len(more) /\ f + 1 \in Nat
      BY <1>1, <1>2, <1>8
    <3>3. HashOf(more, KgramLength + 1, (f + 1) + 1, KgramLength) =
              Xor(ShiftLeft(HashOf(more, KgramLength + 1, f + 1, KgramLength), 1),
                  ShiftLeft(Key[more[(f + 1) + 1]], KgramLength))
      BY <1>1, <1>3, <3>2, HashOfNext
    <3>4. (f + 1) + 1 = f + 2
      OBVIOUS
    <3> QED BY <3>1, <3>3, <3>4
  <2> HIDE DEF e, new, p, q, s
  <2>6. Xor(Xor(ShiftLeft(Xor(e, Xor(p, q)), 1), Key[c]), t) =
            Xor(new, Xor(Xor(ShiftLeft(p, 1), s), Xor(ShiftLeft(q, 1), t)))
    <3>1. /\ Key[c] \in Bits /\ e \in Bits /\ new \in Bits /\ p \in Bits /\ q \in Bits
          /\ s \in Bits /\ t \in Bits
      BY <1>5
    <3>2. PICK key \in Bits : key = Key[c]
      BY <3>1
    <3>3. Xor(ShiftLeft(e, 1), key) = Xor(new, s)
      BY <1>6, <3>2
    <3> HIDE DEF n, t
    <3>4. ResidueRolls(e, p, q, key, new, s, t)
      BY <3>1, <3>2, ResidueShifts
    <3> QED BY <3>2, <3>3, <3>4 DEF ResidueRolls
  <2> QED BY <1>4, <2>1, <2>2, <2>3, <2>4, <2>5, <2>6
<1> QED BY <1>7, <1>8

LEMMA ModSmall ==
    ASSUME NEW n \in Nat \ {0}, NEW x \in 0..(n - 1)
    PROVE  x % n = x
OBVIOUS

LEMMA ModDiffers ==
    ASSUME NEW n \in Nat \ {0}, NEW x \in Nat, NEW y \in Nat, x < y, y - x < n
    PROVE  x % n # y % n
<1> SUFFICES ASSUME x % n = y % n PROVE FALSE
  OBVIOUS
<1>1. PICK a \in Nat, b \in Nat, m \in Nat : x = n * a + m /\ y = n * b + m
  <2>1. /\ x \div n \in Nat /\ y \div n \in Nat /\ x % n \in Nat
        /\ x = n * (x \div n) + (x % n) /\ y = n * (y \div n) + (y % n)
    OBVIOUS
  <2> QED BY <2>1
<1>2. CASE a < b
  <2>1. (a + 1) * n <= b * n /\ (a + 1) * n = a * n + n /\ n * a = a * n /\ n * b = b * n
        /\ a * n \in Nat /\ b * n \in Nat
    BY <1>2, ProductMonotonic
  <2> QED BY <1>1, <2>1
<1>3. CASE ~(a < b)
  <2>1. b * n <= a * n /\ n * a = a * n /\ n * b = b * n /\ a * n \in Nat /\ b * n \in Nat
    BY <1>3, ProductMonotonic
  <2> QED BY <1>1, <2>1
<1> QED BY <1>2, <1>3

LEMMA SymbolIs ==
    ASSUME TextIs, pos < Size
    PROVE  /\ Symbol \in DOMAIN Key \cup {Skipped}
           /\ Symbol # Skipped <=> Symbol \in DOMAIN Key
<1>1. text[pos + 1] \in DOMAIN Fold
  <2>1. pos + 1 \in 1..Len(text)
    BY DEF TextIs, Size
  <2> QED BY <2>1 DEF TextIs
<1>2. Symbol \in Range(Fold)
  BY <1>1 DEF Symbol, Range
<1> QED BY <1>2, TextAssumption

\* A further character is read.
LEMMA LettersNext ==
    ASSUME TextIs, pos < Size, pos' = pos + 1, text' = text
    PROVE  /\ Letters' = IF Symbol = Skipped THEN Letters ELSE Append(Letters, Symbol)
           /\ Letters' \in Seq(DOMAIN Key)
<1> DEFINE T == DOMAIN Key \cup {Skipped}
<1>1. Symbol \in T /\ (Symbol # Skipped <=> Symbol \in DOMAIN Key)
  BY SymbolIs
<1>2. pos \in Nat /\ text \in Seq(DOMAIN Fold) /\ Len(text) \in Nat /\ pos <= Len(text)
  BY DEF TextIs, Size
<1>3. Folded \in Seq(T) /\ Len(Folded) = pos
  <2>1. \A x \in 1..pos : Fold[text[x]] \in T
    <3>1. ASSUME NEW x \in 1..pos PROVE Fold[text[x]] \in T
      <4>1. text[x] \in DOMAIN Fold
        BY <1>2
      <4>2. Fold[text[x]] \in Range(Fold)
        BY <4>1 DEF Range
      <4> QED BY <4>2, TextAssumption
    <3> QED BY <3>1
  <2> HIDE DEF T
  <2>2. Folded \in [1..pos -> T]
    BY <2>1 DEF Folded
  <2> QED BY <1>2, <2>2
<1>4. Folded' = Append(Folded, Symbol)
  <2> HIDE DEF T
  <2>1. /\ Append(Folded, Symbol) \in Seq(T) /\ Len(Append(Folded, Symbol)) = pos + 1
        /\ \A x \in 1..pos : Append(Folded, Symbol)[x] = Folded[x]
        /\ Append(Folded, Symbol)[pos + 1] = Symbol
    BY <1>1, <1>3, AppendRange
  <2>2. Folded' = [x \in 1..(pos + 1) |-> Fold[text[x]]]
    BY DEF Folded
  <2>3. \A x \in 1..(pos + 1) : Folded'[x] = Append(Folded, Symbol)[x]
    <3>1. ASSUME NEW x \in 1..(pos + 1) PROVE Fold[text[x]] = Append(Folded, Symbol)[x]
      <4>1. CASE x \in 1..pos
        <5>1. Folded[x] = Fold[text[x]]
          BY <4>1 DEF Folded
        <5> QED BY <2>1, <4>1, <5>1
      <4>2. CASE x \notin 1..pos
        <5>1. x = pos + 1
          BY <1>2, <4>2
        <5> QED BY <2>1, <5>1 DEF Symbol
      <4> QED BY <4>1, <4>2
    <3> QED BY <2>2, <3>1
  <2>4. Folded' \in Seq(T) /\ Len(Folded') = pos + 1
    <3>1. \A x \in 1..(pos + 1) : Folded'[x] \in T
      <4>1. \A x \in 1..(pos + 1) : Append(Folded, Symbol)[x] \in T
        BY <1>2, <2>1
      <4> QED BY <2>3, <4>1
    <3>2. PICK n \in Nat : n = pos + 1
      BY <1>2
    <3>3. Folded' \in [1..n -> T]
      BY <2>2, <3>1, <3>2
    <3> QED BY <3>2, <3>3
  <2> QED BY <2>1, <2>3, <2>4, SeqEqual
<1>5. Keep(Append(Folded, Symbol), DOMAIN Key) =
          IF Symbol \in DOMAIN Key THEN Append(Keep(Folded, DOMAIN Key), Symbol)
          ELSE Keep(Folded, DOMAIN Key)
  <2>1. PICK U : U = T /\ Folded \in Seq(U) /\ Symbol \in U
    BY <1>1, <1>3
  <2>2. PICK s \in Seq(U), e \in U : s = Folded /\ e = Symbol
    BY <2>1
  <2>3. Keep(Append(s, e), DOMAIN Key) =
            IF e \in DOMAIN Key THEN Append(Keep(s, DOMAIN Key), e) ELSE Keep(s, DOMAIN Key)
    BY KeepAppend
  <2> QED BY <2>2, <2>3, Zenon
<1>6. Letters' = IF Symbol = Skipped THEN Letters ELSE Append(Letters, Symbol)
  BY <1>1, <1>4, <1>5 DEF Letters
<1>7. Letters \in Seq(DOMAIN Key)
  BY DEF TextIs
<1>8. Letters' \in Seq(DOMAIN Key)
  <2>1. Symbol \in DOMAIN Key => Append(Letters, Symbol) \in Seq(DOMAIN Key)
    BY <1>7, AppendRange
  <2> QED BY <1>1, <1>6, <1>7, <2>1
<1> QED BY <1>6, <1>8

LEMMA SkippedInFinite ==
    ASSUME NEW a \in Nat, NEW b \in Nat
    PROVE  /\ IsFiniteSet({m \in a..b : Fold[text[m]] = Skipped})
           /\ SkippedIn(a, b) \in Nat
           /\ b < a => SkippedIn(a, b) = 0
<1>1. IsFiniteSet(a..b)
  BY FS_Interval
<1>2. IsFiniteSet({m \in a..b : Fold[text[m]] = Skipped})
  BY <1>1, FS_Subset
<1>3. Cardinality({}) = 0
  BY FS_EmptySet
<1>4. b < a => {m \in a..b : Fold[text[m]] = Skipped} = {}
  OBVIOUS
<1> QED BY <1>2, <1>3, <1>4, FS_CardinalityType DEF SkippedIn

LEMMA SkippedNext ==
    ASSUME NEW a \in Nat \ {0}, NEW b \in Nat, a <= b + 1
    PROVE  SkippedIn(a, b + 1) =
               SkippedIn(a, b) + (IF Fold[text[b + 1]] = Skipped THEN 1 ELSE 0)
<1> DEFINE T == {m \in a..b : Fold[text[m]] = Skipped}
<1>1. IsFiniteSet(T) /\ SkippedIn(a, b) = Cardinality(T)
  <2>1. a \in Nat
    OBVIOUS
  <2> QED BY <2>1, SkippedInFinite DEF SkippedIn
<1>2. {m \in a..(b + 1) : Fold[text[m]] = Skipped} =
          T \cup (IF Fold[text[b + 1]] = Skipped THEN {b + 1} ELSE {})
  OBVIOUS
<1>3. b + 1 \notin T
  OBVIOUS
<1>4. SkippedIn(a, b + 1) = Cardinality(T \cup (IF Fold[text[b + 1]] = Skipped THEN {b + 1} ELSE {}))
  BY <1>2 DEF SkippedIn
<1>5. Cardinality(T) \in Nat
  BY <1>1, FS_CardinalityType
<1> HIDE DEF T
<1>6. CASE Fold[text[b + 1]] = Skipped
  <2>1. Cardinality(T \cup {b + 1}) = Cardinality(T) + 1
    BY <1>1, <1>3, FS_AddElement
  <2> QED BY <1>1, <1>4, <1>6, <2>1
<1>7. CASE Fold[text[b + 1]] # Skipped
  <2>1. T \cup {} = T /\ Cardinality(T) + 0 = Cardinality(T)
    BY <1>5
  <2> QED BY <1>1, <1>4, <1>7, <2>1
<1> QED BY <1>6, <1>7

\* The characters still to come are skipped or not.
LEMMA SkippedUpTo ==
    ASSUME NEW a \in Nat \ {0}, NEW b \in Nat, NEW e \in Nat, a <= b + 1, b <= e
    PROVE  /\ SkippedIn(a, e) \in Nat
           /\ SkippedIn(a, e) <= SkippedIn(a, b) + (e - b)
<1> DEFINE U == {d \in Nat : SkippedIn(a, b + d) <= SkippedIn(a, b) + d}
<1>0. a \in Nat /\ \A g \in Nat : SkippedIn(a, g) \in Nat
  <2>1. a \in Nat
    OBVIOUS
  <2> QED BY <2>1, SkippedInFinite
<1>1. 0 \in U
  <2>1. b + 0 = b /\ SkippedIn(a, b) \in Nat
    BY <1>0
  <2> QED BY <2>1
<1>2. ASSUME NEW d \in U PROVE d + 1 \in U
  <2>1. PICK g \in Nat : g = b + d /\ g + 1 = b + (d + 1) /\ a <= g + 1
    OBVIOUS
  <2>2. SkippedIn(a, g) \in Nat /\ SkippedIn(a, g + 1) \in Nat /\ SkippedIn(a, b) \in Nat
    <3>1. g + 1 \in Nat
      OBVIOUS
    <3> QED BY <1>0, <3>1
  <2>3. SkippedIn(a, g + 1) <= SkippedIn(a, g) + 1
    <3>1. SkippedIn(a, g + 1) =
              SkippedIn(a, g) + (IF Fold[text[g + 1]] = Skipped THEN 1 ELSE 0)
      BY <2>1, SkippedNext
    <3> QED BY <2>2, <3>1
  <2>4. SkippedIn(a, g) <= SkippedIn(a, b) + d
    BY <2>1
  <2>5. SkippedIn(a, g + 1) <= SkippedIn(a, b) + (d + 1)
    BY <2>2, <2>3, <2>4
  <2> QED BY <2>1, <2>5
<1>3. U = Nat
  <2>1. U \in SUBSET Nat
    OBVIOUS
  <2> HIDE DEF U
  <2> QED BY <1>1, <1>2, <2>1, NatInd
<1>4. PICK d \in Nat : d = e - b /\ b + d = e
  OBVIOUS
<1>5. d \in U
  BY <1>3
<1>6. SkippedIn(a, e) <= SkippedIn(a, b) + (e - b)
  <2>1. SkippedIn(a, b + d) <= SkippedIn(a, b) + d
    BY <1>5
  <2> QED BY <1>4, <2>1
<1> QED BY <1>0, <1>6

LEMMA CapacityIs ==
    ASSUME TextIs
    PROVE  Capacity \in Nat
<1>1. Size \in Nat /\ WindowLength \in Nat \ {0}
  <2>1. WindowLength \in Nat \ {0}
    BY TextAssumption
  <2> QED BY <2>1 DEF TextIs, Size
<1>2. CASE Size < WindowLength
  BY <1>2 DEF Capacity
<1>3. CASE ~(Size < WindowLength)
  <2>1. Size - WindowLength + 1 \in Nat
    BY <1>1, <1>3
  <2>2. (Size - WindowLength + 1) \div WindowLength \in Nat
    BY <1>1, <2>1
  <2> QED BY <1>3, <2>2 DEF Capacity
<1> QED BY <1>2, <1>3

-----------------------------------------------------------------------------
(* The steps of ph_texthash.                                               *)

LEMMA ShiftNone ==
    ASSUME NEW x \in Bits
    PROVE  ShiftLeft(x, 0) = x
<1>1. ASSUME NEW b \in Bit PROVE ShiftLeft(x, 0)[b] = x[b]
  <2>1. b \in Nat
    BY TextAssumption DEF Bit
  <2>2. ~(b < 0) /\ b - 0 = b /\ 0 \in Nat
    BY <2>1
  <2> QED BY <2>2, ShiftLeftIs
<1>2. ShiftLeft(x, 0) \in Bits
  <2>1. 0 \in Nat
    OBVIOUS
  <2> QED BY <2>1, BitsAre
<1> QED BY <1>1, <1>2, SameBits

LEMMA AddLetter ==
    ASSUME NEW l \in Seq(DOMAIN Key), NEW c \in DOMAIN Key, NEW n \in Nat, n = Len(l)
    PROVE  HashOf(Append(l, c), 1, n + 1, 0) = Xor(ShiftLeft(HashOf(l, 1, n, 0), 1), Key[c])
<1>1. PICK more : /\ more = Append(l, c) /\ more \in Seq(DOMAIN Key) /\ Len(more) = n + 1
                  /\ more[n + 1] = c /\ \A m \in 1..n : more[m] = l[m]
  <2>1. /\ Append(l, c) \in Seq(DOMAIN Key) /\ Len(Append(l, c)) = Len(l) + 1
        /\ \A x \in 1..Len(l) : Append(l, c)[x] = l[x]
        /\ Append(l, c)[Len(l) + 1] = c
    BY AppendRange
  <2> QED BY <2>1, Zenon
<1>2. PICK z \in Nat, o \in Nat \ {0} : z = 0 /\ o = 1
  OBVIOUS
<1>3. HashOf(more, o, n, z) = HashOf(l, o, n, z)
  <2>1. AlikeIn(more, l, o, n)
    BY <1>1, <1>2 DEF AlikeIn
  <2>2. o \in Int /\ n \in Int
    BY <1>2
  <2> QED BY <2>1, <2>2, HashOfSame
<1>4. HashOf(more, o, n + 1, z) =
          Xor(ShiftLeft(HashOf(more, o, n, z), 1), ShiftLeft(Key[more[n + 1]], z))
  <2>1. Lettered(more) /\ o <= n + 1 /\ n + 1 <= Len(more)
    BY <1>1, <1>2 DEF Lettered
  <2> QED BY <2>1, HashOfNext
<1>5. ShiftLeft(Key[c], 0) = Key[c]
  <2>1. Key[c] \in Bits
    BY TextAssumption
  <2> QED BY <2>1, ShiftNone
<1> QED BY <1>1, <1>2, <1>3, <1>4, <1>5, Zenon

LEMMA NoPointIs == NoPoint \in HashPoint
<1>1. ULLONG_MAX \in Bits
  BY DEF ULLONG_MAX, Bits
<1> QED BY <1>1 DEF NoPoint, HashPoint

LEMMA InitText ==
    ASSUME TextBegins, text \in Seq(DOMAIN Fold)
    PROVE  TextInv
<1>1. KgramLength \in Nat /\ KgramLength > 1 /\ WindowLength \in Nat /\ WindowLength > 1
  BY TextAssumption
<1>2. Size \in Nat
  BY DEF Size
<1>3. Letters = <<>>
  <2>1. Folded \in Seq(DOMAIN Key) /\ Len(Folded) = 0
    <3>1. Folded = <<>>
      BY DEF TextBegins, Folded
    <3> QED BY <3>1
  <2>2. PICK s \in Seq(DOMAIN Key) : s = Folded /\ Len(s) = 0
    BY <2>1
  <2>3. PICK u : Keep(s, DOMAIN Key) = u[Len(s)] /\ u[0] = <<>>
    BY KeepSteps
  <2> QED BY <2>2, <2>3 DEF Letters
<1>4. TextIs
  <2>1. [b \in Bit |-> 0] \in Bits
    BY DEF Bits
  <2> QED BY <1>1, <1>2, <1>3, <2>1 DEF TextBegins, TextIs
<1>5. PointsInv
  <2>1. 0 * WindowLength = 0
    BY <1>1
  <2>2. <<>> \in Seq(HashPoint) /\ Len(<<>>) = 0
    OBVIOUS
  <2> QED BY <1>1, <2>1, <2>2, NoPointIs DEF TextBegins, PointsInv
<1>6. RoomInv
  BY <1>4, CapacityIs DEF TextBegins, RoomInv
<1>7. RollInv
  <2>1. HashOf(Letters, 1, 0, 0) = [b \in Bit |-> 0]
    <3>1. PICK x \in Int, y \in Int, z \in Nat : x = 1 /\ y = 0 /\ z = 0 /\ y < x
      OBVIOUS
    <3>2. HashOf(Letters, x, y, z) = [b \in Bit |-> 0]
      BY <3>1, HashOfNone
    <3> QED BY <3>1, <3>2
  <2> QED BY <1>3, <2>1 DEF TextBegins, RollInv
<1> QED BY <1>4, <1>5, <1>6, <1>7 DEF TextInv

\* What the text alone decides.
LEMMA TextStays ==
    ASSUME text' = text
    PROVE  /\ Size' = Size /\ Capacity' = Capacity
           /\ WholeKgram' <=> WholeKgram
           /\ \A a, b : SkippedIn(a, b)' = SkippedIn(a, b)
           /\ pos' = pos => Letters' = Letters
BY DEF Size, Capacity, WholeKgram, SkippedIn, Letters, Folded

LEMMA PointsStay ==
    ASSUME PointsInv, UNCHANGED <<win, prev, points, rolled>>
    PROVE  PointsInv'
<1>1. \A p : WindowOf(p)' = WindowOf(p)
  BY DEF WindowOf
<1>2. ASSUME NEW p \in 1..Len(points)
      PROVE  MinimumOf(points[p], WindowOf(p), IF p = 1 THEN NoPoint ELSE points[p - 1])'
  <2>1. PICK w : /\ w = WindowOf(p) /\ WindowOf(p)' = w
                 /\ MinimumOf(points[p], w, IF p = 1 THEN NoPoint ELSE points[p - 1])
    BY <1>1 DEF PointsInv
  <2> QED BY <2>1 DEF MinimumOf
<1> QED BY <1>2 DEF PointsInv

LEMMA TooShortKeeps ==
    ASSUME TextInv, TooShort
    PROVE  TextInv'
<1>1. /\ UNCHANGED <<text, pos, kgram, first, hashword, win, prev, points, rolled>>
      /\ pcT' = "none" /\ pcT = "kgram"
  BY DEF TooShort
<1>2. Size' = Size /\ Capacity' = Capacity /\ Letters' = Letters
  BY <1>1, TextStays
<1>3. TextIs'
  BY <1>1, <1>2 DEF TextInv, TextIs
<1>4. PointsInv'
  BY <1>1, PointsStay DEF TextInv
<1>5. RoomInv'
  BY <1>1, <1>2 DEF TextInv, RoomInv
<1>6. RollInv'
  BY <1>1 DEF RollInv
<1> QED BY <1>3, <1>4, <1>5, <1>6 DEF TextInv

LEMMA TextEndsKeeps ==
    ASSUME TextInv, TextEnds
    PROVE  TextInv'
<1>1. /\ UNCHANGED <<text, pos, kgram, first, hashword, win, prev, points, rolled>>
      /\ pcT' = "done" /\ pcT = "roll" /\ pos = Size
  BY DEF TextEnds
<1>2. /\ Size' = Size /\ Capacity' = Capacity /\ Letters' = Letters
      /\ WholeKgram' <=> WholeKgram
      /\ SkippedIn(KgramLength + 1, pos)' = SkippedIn(KgramLength + 1, pos)
  <2>1. \A a, b : SkippedIn(a, b)' = SkippedIn(a, b)
    BY <1>1, TextStays
  <2>2. SkippedIn(KgramLength + 1, pos)' = SkippedIn(KgramLength + 1, pos)
    BY <1>1 DEF SkippedIn
  <2> QED BY <1>1, <2>2, TextStays
<1>3. TextIs'
  BY <1>1, <1>2 DEF TextInv, TextIs
<1>4. PointsInv'
  BY <1>1, PointsStay DEF TextInv
<1>5. RoomInv'
  BY <1>1, <1>2 DEF TextInv, RoomInv
<1>6. RollInv'
  BY <1>1, <1>2 DEF TextInv, RollInv, RingInv
<1> QED BY <1>3, <1>4, <1>5, <1>6 DEF TextInv

LEMMA FirstKgramKeeps ==
    ASSUME TextInv, FirstKgram
    PROVE  TextInv'
<1>1. /\ UNCHANGED <<text, pcT, first, win, prev, points, rolled>>
      /\ pcT = "kgram" /\ pos < KgramLength /\ pos < Size /\ pos' = pos + 1
  BY DEF FirstKgram
<1>2. TextIs /\ PointsInv /\ RoomInv /\ RollInv
  BY DEF TextInv
<1>3. KgramLength \in Nat /\ KgramLength > 1 /\ pos \in Nat /\ Size \in Nat
      /\ 0 \in Nat /\ 1 \in Nat
  BY <1>2, TextAssumption DEF TextIs, Size
<1>4. /\ Size' = Size /\ Capacity' = Capacity
      /\ WholeKgram' <=> WholeKgram
  BY <1>1, TextStays
<1>5. Symbol \in DOMAIN Key \cup {Skipped} /\ (Symbol # Skipped <=> Symbol \in DOMAIN Key)
  BY <1>1, <1>2, SymbolIs
<1>6. /\ Letters' = IF Symbol = Skipped THEN Letters ELSE Append(Letters, Symbol)
      /\ Letters' \in Seq(DOMAIN Key)
  BY <1>1, <1>2, LettersNext
<1>7. TextIs'
  <2>1. kgram' \in [0..(KgramLength - 1) -> DOMAIN Key \cup {Unset}] /\ hashword' \in Bits
    <3>1. CASE Symbol = Skipped
      BY <1>2, <3>1 DEF FirstKgram, TextIs
    <3>2. CASE Symbol # Skipped
      <4>1. /\ kgram' = [kgram EXCEPT ![pos] = Symbol]
            /\ hashword' = Xor(ShiftLeft(hashword, 1), Key[Symbol])
        BY <3>2 DEF FirstKgram
      <4>2. hashword \in Bits /\ Key[Symbol] \in Bits
        BY <1>2, <1>5, <3>2, TextAssumption DEF TextIs
      <4>3. ShiftLeft(hashword, 1) \in Bits
        BY <1>3, <4>2, BitsAre
      <4>4. hashword' \in Bits
        BY <1>3, <4>1, <4>2, <4>3, BitsAre
      <4>5. kgram' \in [0..(KgramLength - 1) -> DOMAIN Key \cup {Unset}]
        BY <1>2, <1>5, <3>2, <4>1 DEF TextIs
      <4> QED BY <4>4, <4>5
    <3> QED BY <3>1, <3>2
  <2>2. pos' \in 0..Size' /\ pos' <= KgramLength
    BY <1>1, <1>3, <1>4
  <2> QED BY <1>1, <1>2, <1>6, <2>1, <2>2 DEF TextIs
<1>8. PointsInv'
  BY <1>1, <1>2, PointsStay
<1>9. RoomInv'
  BY <1>1, <1>2, <1>4 DEF RoomInv
<1>10. RollInv'
  <2>1. SUFFICES ASSUME WholeKgram
                 PROVE  /\ Len(Letters') = pos + 1
                        /\ \A x \in 1..(pos + 1) : kgram'[x - 1] = Letters'[x]
                        /\ hashword' = HashOf(Letters', 1, pos + 1, 0)
    BY <1>1, <1>4 DEF RollInv
  <2>2. /\ Len(Letters) = pos
        /\ \A x \in 1..pos : kgram[x - 1] = Letters[x]
        /\ hashword = HashOf(Letters, 1, pos, 0)
    BY <1>1, <1>2, <2>1 DEF RollInv
  <2>3. Symbol # Skipped
    <3>1. pos + 1 \in 1..KgramLength
      BY <1>1, <1>3
    <3> QED BY <2>1, <3>1 DEF WholeKgram, Symbol
  <2>4. /\ kgram' = [kgram EXCEPT ![pos] = Symbol]
        /\ hashword' = Xor(ShiftLeft(hashword, 1), Key[Symbol])
    BY <2>3 DEF FirstKgram
  <2>5. PICK l \in Seq(DOMAIN Key), c \in DOMAIN Key, n \in Nat :
            l = Letters /\ c = Symbol /\ n = pos /\ n = Len(l)
    BY <1>2, <1>3, <1>5, <2>2, <2>3 DEF TextIs
  <2>6. /\ Len(Append(l, c)) = Len(l) + 1
        /\ \A x \in 1..Len(l) : Append(l, c)[x] = l[x]
        /\ Append(l, c)[Len(l) + 1] = c
    BY AppendRange
  <2>7. HashOf(Append(l, c), 1, n + 1, 0) = Xor(ShiftLeft(HashOf(l, 1, n, 0), 1), Key[c])
    BY <2>5, AddLetter
  <2>8. Letters' = Append(l, c)
    BY <1>6, <2>3, <2>5
  <2>9. ASSUME NEW x \in 1..(pos + 1) PROVE kgram'[x - 1] = Letters'[x]
    <3>1. kgram'[x - 1] = IF x - 1 = pos THEN Symbol ELSE kgram[x - 1]
      <4>1. x - 1 \in 0..(KgramLength - 1)
        BY <1>1, <1>3
      <4> QED BY <1>2, <2>4, <4>1 DEF TextIs
    <3>2. CASE x = pos + 1
      <4>a. x - 1 = pos
        BY <1>3, <3>2
      <4>b. x = Len(l) + 1
        BY <2>5, <3>2
      <4>1. x - 1 = pos /\ x = Len(l) + 1
        BY <4>a, <4>b
      <4>2. Letters'[x] = c
        BY <2>6, <2>8, <4>1, Zenon
      <4> QED BY <2>5, <3>1, <4>1, <4>2
    <3>3. CASE x # pos + 1
      <4>1. x \in 1..pos /\ x - 1 # pos
        BY <1>3, <3>3
      <4> QED BY <2>2, <2>5, <2>6, <2>8, <3>1, <4>1
    <3> QED BY <3>2, <3>3
  <2> QED BY <2>2, <2>4, <2>5, <2>6, <2>7, <2>8, <2>9
<1> QED BY <1>7, <1>8, <1>9, <1>10 DEF TextInv

LEMMA FirstHashKeeps ==
    ASSUME TextInv, FirstHash
    PROVE  TextInv'
<1>1. /\ UNCHANGED <<text, pos, kgram, first, hashword, prev, points>>
      /\ pcT = "kgram" /\ pcT' = "roll" /\ pos = KgramLength
      /\ win' = <<[hash |-> hashword, index |-> 0]>> /\ rolled' = win'
  BY DEF FirstHash
<1>2. TextIs /\ PointsInv /\ RoomInv /\ RollInv
  BY DEF TextInv
<1>3. KgramLength \in Nat /\ KgramLength > 1 /\ WindowLength \in Nat /\ WindowLength > KgramLength
  BY TextAssumption
<1>4. /\ Size' = Size /\ Capacity' = Capacity
      /\ WholeKgram' <=> WholeKgram
      /\ \A a, b : SkippedIn(a, b)' = SkippedIn(a, b)
      /\ Letters' = Letters
  BY <1>1, TextStays
<1>5. first = 0 /\ win = <<>> /\ rolled = <<>> /\ points = <<>>
  BY <1>1, <1>2 DEF TextIs
<1>6. PICK z \in HashPoint : z = [hash |-> hashword, index |-> 0]
  <2>1. [hash |-> hashword, index |-> 0] \in HashPoint
    BY <1>2 DEF TextIs, HashPoint
  <2> QED BY <2>1
<1>7. win' = <<z>> /\ rolled' = <<z>> /\ <<z>> \in Seq(HashPoint) /\ Len(<<z>>) = 1
      /\ <<z>>[1] = z
  BY <1>1, <1>6
<1>8. TextIs'
  BY <1>1, <1>2, <1>4 DEF TextIs
<1>9. PointsInv'
  <2>1. 0 * WindowLength = 0 /\ 1 < WindowLength /\ Len(points) = 0
    BY <1>3, <1>5
  <2>2. Len(rolled') = Len(points') * WindowLength + Len(win')
    BY <1>1, <1>7, <2>1
  <2>3. \A x \in 1..Len(win') : win'[x] = rolled'[Len(points') * WindowLength + x]
    <3>1. \A x \in 1..1 : x = 1 /\ 0 + x = 1
      OBVIOUS
    <3> QED BY <1>1, <1>7, <2>1, <3>1
  <2> QED BY <1>1, <1>2, <1>7, <2>1, <2>2, <2>3 DEF PointsInv
<1>10. RoomInv'
  <2>1. SkippedIn(KgramLength + 1, KgramLength) = 0
    <3>1. PICK a \in Nat, b \in Nat : a = KgramLength + 1 /\ b = KgramLength /\ b < a
      BY <1>3
    <3> QED BY <3>1, SkippedInFinite
  <2>2. SkippedIn(KgramLength + 1, pos)' = 0
    BY <1>1, <1>4, <2>1 DEF SkippedIn
  <2> QED BY <1>1, <1>2, <1>3, <1>4, <1>7, <2>2 DEF RoomInv
<1>11. RollInv'
  <2>1. SUFFICES ASSUME WholeKgram
                 PROVE  /\ Len(Letters) = KgramLength + first
                        /\ RingInv'
                        /\ first < KgramLength /\ hashword = Exact(Letters)
    BY <1>1, <1>4 DEF RollInv, HashAt
  <2>2. /\ Len(Letters) = KgramLength
        /\ \A x \in 1..KgramLength : kgram[x - 1] = Letters[x]
        /\ hashword = HashOf(Letters, 1, KgramLength, 0)
    BY <1>1, <1>2, <2>1 DEF RollInv
  <2>3. ASSUME NEW x \in 0..(KgramLength - 2)
        PROVE  x % KgramLength = x /\ kgram[x] = Letters[x + 1] /\ x < KgramLength - 1
    <3>1. x + 1 \in 1..KgramLength /\ (x + 1) - 1 = x /\ x \in 0..(KgramLength - 1)
      BY <1>3
    <3>2. x % KgramLength = x
      <4>1. KgramLength \in Nat \ {0}
        BY <1>3
      <4> QED BY <3>1, <4>1, ModSmall
    <3>3. kgram[(x + 1) - 1] = Letters[x + 1]
      BY <2>2, <3>1
    <3> QED BY <1>3, <3>1, <3>2, <3>3
  <2>4. RingInv'
    <3>1. first' = 0 /\ 0 + KgramLength - 2 = KgramLength - 2 /\ kgram' = kgram
      BY <1>1, <1>3, <1>5
    <3> QED BY <1>4, <2>3, <3>1 DEF RingInv, FoundAt
  <2>5. Len(Letters) - KgramLength + 1 = 1
    BY <1>3, <2>2
  <2> QED BY <1>3, <1>5, <2>2, <2>4, <2>5 DEF Exact
<1> QED BY <1>8, <1>9, <1>10, <1>11 DEF TextInv

LEMMA SkipKeeps ==
    ASSUME TextInv, Skip
    PROVE  TextInv'
<1>1. /\ UNCHANGED <<text, pcT, kgram, first, hashword, win, prev, points, rolled>>
      /\ pcT = "roll" /\ pos < Size /\ Symbol = Skipped /\ pos' = pos + 1
  BY DEF Skip
<1>2. TextIs /\ PointsInv /\ RoomInv /\ RollInv
  BY DEF TextInv
<1>3. /\ KgramLength \in Nat /\ KgramLength > 1 /\ Size \in Nat
      /\ pos \in Nat /\ KgramLength <= pos
  BY <1>1, <1>2, TextAssumption DEF TextIs, Size
<1>4. /\ Size' = Size /\ Capacity' = Capacity
      /\ WholeKgram' <=> WholeKgram
      /\ \A a, b : SkippedIn(a, b)' = SkippedIn(a, b)
  BY <1>1, TextStays
<1>5. Letters' = Letters
  BY <1>1, <1>2, LettersNext
<1>6. TextIs'
  <2>1. pos' \in 0..Size' /\ pos' >= KgramLength
    BY <1>1, <1>3, <1>4
  <2> QED BY <1>1, <1>2, <1>5, <2>1 DEF TextIs
<1>7. PointsInv'
  BY <1>1, <1>2, PointsStay
<1>8. RoomInv'
  <2>1. PICK a \in Nat \ {0} : a = KgramLength + 1 /\ a <= pos + 1
    BY <1>3
  <2>2. SkippedIn(a, pos + 1) = SkippedIn(a, pos) + 1
    BY <1>1, <1>3, <2>1, SkippedNext DEF Symbol
  <2>3. SkippedIn(a, pos)' = SkippedIn(a, pos) + 1
    BY <1>1, <2>2 DEF SkippedIn
  <2>4. SkippedIn(KgramLength + 1, pos)' = SkippedIn(KgramLength + 1, pos) + 1
    BY <2>1, <2>3
  <2>5. SkippedIn(KgramLength + 1, pos) \in Nat
    <3>1. a \in Nat /\ SkippedIn(a, pos) \in Nat
      BY <1>3, <2>1, SkippedInFinite
    <3> QED BY <2>1, <3>1
  <2>6. rolled \in Seq(HashPoint)
    BY <1>2 DEF PointsInv
  <2>7. Len(rolled) + KgramLength + SkippedIn(KgramLength + 1, pos) = pos + 1
    BY <1>1, <1>2 DEF RoomInv
  <2>8. Len(rolled) \in Nat
    BY <2>6
  <2>9. Len(rolled) + KgramLength + (SkippedIn(KgramLength + 1, pos) + 1) = (pos + 1) + 1
    BY <1>3, <2>5, <2>7, <2>8
  <2> QED BY <1>1, <1>2, <1>4, <2>4, <2>9 DEF RoomInv
<1>9. RollInv'
  BY <1>1, <1>2, <1>4, <1>5 DEF RollInv, RingInv
<1> QED BY <1>6, <1>7, <1>8, <1>9 DEF TextInv

\* The letter that a turn of the loop finds in the ring.
LEMMA RollTakes ==
    ASSUME TextInv, Roll
    PROVE  /\ Symbol \in DOMAIN Key
           /\ \E old \in DOMAIN Key :
                 /\ hashword' = Xor(Xor(ShiftLeft(hashword, 1), Key[Symbol]),
                                    ShiftLeft(Key[old], KgramLength))
                 /\ WholeKgram =>
                       old = FoundAt(Letters, first)
<1>1. pcT = "roll" /\ pos < Size /\ Symbol # Skipped
  BY DEF Roll
<1>2. TextIs /\ RollInv
  BY DEF TextInv
<1>3. KgramLength \in Nat /\ KgramLength > 1 /\ first \in Nat
  BY <1>2, TextAssumption DEF TextIs
<1>4. Symbol \in DOMAIN Key
  BY <1>1, <1>2, SymbolIs
<1>5. PICK old \in Leaving :
          hashword' = Xor(Xor(ShiftLeft(hashword, 1), Key[Symbol]),
                          ShiftLeft(Key[old], KgramLength))
  BY DEF Roll
<1>6. PICK c : c = kgram[first % KgramLength] /\ c \in DOMAIN Key \cup {Unset}
  <2>1. first % KgramLength \in 0..(KgramLength - 1)
    BY <1>3
  <2> QED BY <1>2, <2>1 DEF TextIs
<1>7. old \in DOMAIN Key /\ (c # Unset => old = c)
  BY <1>6 DEF Leaving
<1>8. ASSUME WholeKgram
      PROVE  old = FoundAt(Letters, first)
  <2>1. Len(Letters) = KgramLength + first /\ RingInv
    BY <1>1, <1>2, <1>8 DEF RollInv
  <2>2. c = FoundAt(Letters, first)
    <3>1. first \in first..(first + KgramLength - 2)
      BY <1>3
    <3> QED BY <1>6, <2>1, <3>1 DEF RingInv
  <2>3. first + 1 \in 1..Len(Letters) /\ first + 2 \in 1..Len(Letters)
    BY <1>3, <2>1
  <2>4. c \in DOMAIN Key
    <3>1. Letters[first + 1] \in DOMAIN Key /\ Letters[first + 2] \in DOMAIN Key
      BY <1>2, <2>3 DEF TextIs
    <3> QED BY <2>2, <3>1 DEF FoundAt
  <2>5. Unset \notin DOMAIN Key
    BY TextAssumption
  <2> QED BY <1>7, <2>2, <2>4, <2>5
<1> QED BY <1>4, <1>5, <1>7, <1>8

LEMMA RollKeeps ==
    ASSUME TextInv, Roll
    PROVE  TextInv'
<1> DEFINE point == [hash |-> hashword', index |-> pos' - KgramLength]
<1>1. /\ pcT = "roll" /\ pos < Size /\ Symbol # Skipped /\ text' = text
      /\ first' = first + 1 /\ pos' = pos + 1
      /\ kgram' = [kgram EXCEPT ![(first + KgramLength - 1) % KgramLength] = Symbol]
      /\ Windowed(point) /\ rolled' = Append(rolled, point)
  BY DEF Roll
<1>2. TextIs /\ PointsInv /\ RoomInv /\ RollInv
  BY DEF TextInv
<1>3. /\ KgramLength \in Nat \ {0} /\ KgramLength > 1 /\ Size \in Nat
      /\ pos \in Nat /\ KgramLength <= pos /\ first \in Nat
  BY <1>1, <1>2, TextAssumption DEF TextIs, Size
<1>4. /\ Size' = Size /\ Capacity' = Capacity
      /\ WholeKgram' <=> WholeKgram
      /\ \A a, b : SkippedIn(a, b)' = SkippedIn(a, b)
  BY <1>1, TextStays
<1>5. /\ Symbol \in DOMAIN Key
      /\ Letters' = Append(Letters, Symbol) /\ Letters' \in Seq(DOMAIN Key)
  BY <1>1, <1>2, LettersNext, RollTakes
<1>6. PICK old \in DOMAIN Key :
          /\ hashword' = Xor(Xor(ShiftLeft(hashword, 1), Key[Symbol]),
                             ShiftLeft(Key[old], KgramLength))
          /\ WholeKgram => old = FoundAt(Letters, first)
  BY RollTakes
<1>7. hashword' \in Bits
  <2>1. hashword \in Bits /\ Key[Symbol] \in Bits /\ Key[old] \in Bits /\ 1 \in Nat
    BY <1>2, <1>5, TextAssumption DEF TextIs
  <2>2. ShiftLeft(hashword, 1) \in Bits /\ ShiftLeft(Key[old], KgramLength) \in Bits
    BY <1>3, <2>1, BitsAre
  <2>3. Xor(ShiftLeft(hashword, 1), Key[Symbol]) \in Bits
    BY <2>1, <2>2, BitsAre
  <2>4. Xor(Xor(ShiftLeft(hashword, 1), Key[Symbol]), ShiftLeft(Key[old], KgramLength)) \in Bits
    BY <2>1, <2>2, <2>3, BitsAre
  <2> QED BY <1>6, <2>4
<1>8. point \in HashPoint
  <2>1. pos' - KgramLength \in Nat
    BY <1>1, <1>3
  <2> QED BY <1>7, <2>1 DEF HashPoint
<1> HIDE DEF point
<1>9. /\ pcT' \in {"roll", "undefined"}
      /\ \/ points' = points /\ pcT' = pcT
         \/ /\ Len(points') = Len(points) + 1
            /\ pcT' = IF Len(points) >= Capacity THEN "undefined" ELSE pcT
  <2>1. CASE Len(Append(win, point)) < WindowLength
    BY <1>1, <2>1 DEF Windowed
  <2>2. CASE ~(Len(Append(win, point)) < WindowLength)
    <3>1. PICK z : /\ points' = Append(points, z)
                   /\ pcT' = IF Len(points) >= Capacity THEN "undefined" ELSE pcT
      BY <1>1, <2>2 DEF Windowed
    <3>2. Len(points') = Len(points) + 1
      BY <1>2, <3>1 DEF PointsInv
    <3> QED BY <1>1, <3>1, <3>2
  <2> QED BY <2>1, <2>2
<1>10. PointsInv'
  BY <1>1, <1>2, <1>8, WindowedKeeps
<1>11. TextIs'
  <2>1. pos' \in 0..Size' /\ pos' >= KgramLength /\ first' \in Nat
    BY <1>1, <1>3, <1>4
  <2>2. kgram' \in [0..(KgramLength - 1) -> DOMAIN Key \cup {Unset}]
    BY <1>1, <1>2, <1>5 DEF TextIs
  <2> QED BY <1>1, <1>2, <1>5, <1>7, <1>9, <2>1, <2>2 DEF TextIs
<1>12. RoomInv'
  <2>1. PICK a \in Nat \ {0} : a = KgramLength + 1 /\ a <= pos + 1
    BY <1>3
  <2>2. SkippedIn(a, pos + 1) = SkippedIn(a, pos)
    <3>1. SkippedIn(a, pos + 1) = SkippedIn(a, pos) + 0
      BY <1>1, <1>3, <2>1, SkippedNext DEF Symbol
    <3>2. SkippedIn(a, pos) \in Nat
      BY <1>3, <2>1, SkippedInFinite
    <3> QED BY <3>1, <3>2
  <2>3. SkippedIn(a, pos)' = SkippedIn(a, pos)
    BY <1>1, <2>2 DEF SkippedIn
  <2>4. SkippedIn(KgramLength + 1, pos)' = SkippedIn(KgramLength + 1, pos)
    BY <2>1, <2>3
  <2>5. SkippedIn(KgramLength + 1, pos) \in Nat
    <3>1. a \in Nat /\ SkippedIn(a, pos) \in Nat
      BY <1>3, <2>1, SkippedInFinite
    <3> QED BY <2>1, <3>1
  <2>6. Len(rolled) \in Nat /\ Len(rolled') = Len(rolled) + 1 /\ Len(points) \in Nat
    BY <1>1, <1>2 DEF PointsInv
  <2>7. Len(rolled) + KgramLength + SkippedIn(KgramLength + 1, pos) = pos + 1
    BY <1>1, <1>2 DEF RoomInv
  <2>8. Len(rolled') + KgramLength + SkippedIn(KgramLength + 1, pos) = (pos + 1) + 1
    BY <1>3, <2>5, <2>6, <2>7
  <2>9. Capacity \in Nat /\ Len(points) <= Capacity
    BY <1>1, <1>2, CapacityIs DEF RoomInv
  <2>10. pcT' # "undefined" => Len(points') <= Capacity
    BY <1>1, <1>9, <2>6, <2>9
  <2>11. pcT' = "undefined" => Len(points') > Capacity
    BY <1>1, <1>9, <2>6, <2>9
  <2> QED BY <1>1, <1>4, <2>4, <2>8, <2>10, <2>11 DEF RoomInv
<1>13. RollInv'
  <2>1. SUFFICES ASSUME WholeKgram
                 PROVE  /\ Len(Letters') = KgramLength + (first + 1)
                        /\ RingInv'
                        /\ hashword' = HashAt(Letters', first + 1)
    BY <1>1, <1>4, <1>9 DEF RollInv
  <2>2. /\ Len(Letters) = KgramLength + first /\ RingInv
        /\ hashword = HashAt(Letters, first)
    BY <1>1, <1>2, <2>1 DEF RollInv
  <2>3. PICK l \in Seq(DOMAIN Key), c \in DOMAIN Key, f \in Nat :
            l = Letters /\ c = Symbol /\ f = first /\ Len(l) = KgramLength + f
    BY <1>2, <1>3, <1>5, <2>2 DEF TextIs
  <2>4. PICK more : more = Append(l, c) /\ more = Letters'
    BY <1>5, <2>3
  <2>5. /\ Len(more) = Len(l) + 1
        /\ \A x \in 1..Len(l) : more[x] = l[x]
        /\ more[Len(l) + 1] = c
    <3>1. /\ Len(Append(l, c)) = Len(l) + 1
          /\ \A x \in 1..Len(l) : Append(l, c)[x] = l[x]
          /\ Append(l, c)[Len(l) + 1] = c
      BY AppendRange
    <3> QED BY <2>4, <3>1, Zenon
  <2>6. hashword' = HashAt(more, f + 1)
    <3>1. Xor(Xor(ShiftLeft(HashAt(l, f), 1), Key[c]), ShiftLeft(Key[FoundAt(l, f)], KgramLength)) =
              HashAt(Append(l, c), f + 1)
      BY <2>3, TurnOfHash
    <3>2. hashword = HashAt(l, f) /\ old = FoundAt(l, f)
      BY <1>6, <2>1, <2>2, <2>3
    <3> QED BY <1>6, <2>3, <2>4, <3>1, <3>2
  <2>7. ASSUME NEW x \in (f + 1)..((f + 1) + KgramLength - 2)
        PROVE  kgram'[x % KgramLength] = FoundAt(more, x)
    <3>1. /\ x \in Nat /\ x % KgramLength \in 0..(KgramLength - 1)
          /\ f + KgramLength - 1 \in Nat
      BY <1>3
    <3>2. kgram'[x % KgramLength] =
              IF x % KgramLength = (f + KgramLength - 1) % KgramLength THEN c
              ELSE kgram[x % KgramLength]
      BY <1>1, <1>2, <2>3, <3>1 DEF TextIs
    <3>3. CASE x = f + KgramLength - 1
      <4>1. ~(x < KgramLength - 1) /\ x + 2 = Len(l) + 1
        BY <1>3, <2>3, <3>3
      <4> QED BY <2>5, <3>2, <3>3, <4>1 DEF FoundAt
    <3>4. CASE x # f + KgramLength - 1
      <4>1. /\ x < f + KgramLength - 1 /\ (f + KgramLength - 1) - x < KgramLength
            /\ x \in f..(f + KgramLength - 2)
        BY <1>3, <3>1, <3>4
      <4>2. x % KgramLength # (f + KgramLength - 1) % KgramLength
        BY <1>3, <3>1, <4>1, ModDiffers
      <4>3. kgram[x % KgramLength] = FoundAt(l, x)
        BY <2>2, <2>3, <4>1 DEF RingInv
      <4>4. x + 1 \in 1..Len(l) /\ x + 2 \in 1..Len(l)
        BY <1>3, <2>3, <3>1, <4>1
      <4> QED BY <2>5, <3>2, <4>2, <4>3, <4>4 DEF FoundAt
    <3> QED BY <3>3, <3>4
  <2>8. RingInv'
    BY <1>1, <2>3, <2>4, <2>7 DEF RingInv
  <2> QED BY <1>3, <2>3, <2>4, <2>5, <2>6, <2>8
<1> QED BY <1>10, <1>11, <1>12, <1>13 DEF TextInv

LEMMA TextKeeps ==
    ASSUME TextInv, [TextStep]_textVars
    PROVE  TextInv'
<1>1. CASE TooShort
  BY <1>1, TooShortKeeps
<1>2. CASE FirstKgram
  BY <1>2, FirstKgramKeeps
<1>3. CASE FirstHash
  BY <1>3, FirstHashKeeps
<1>4. CASE Roll
  BY <1>4, RollKeeps
<1>5. CASE Skip
  BY <1>5, SkipKeeps
<1>6. CASE TextEnds
  BY <1>6, TextEndsKeeps
<1>7. CASE UNCHANGED textVars
  <2>1. UNCHANGED <<text, pcT, pos, kgram, first, hashword, win, prev, points, rolled>>
    BY <1>7 DEF textVars
  <2>2. /\ Size' = Size /\ Capacity' = Capacity /\ Letters' = Letters
        /\ WholeKgram' <=> WholeKgram
    BY <2>1, TextStays
  <2>3. SkippedIn(KgramLength + 1, pos)' = SkippedIn(KgramLength + 1, pos)
    BY <2>1 DEF SkippedIn
  <2>4. PointsInv'
    BY <2>1, PointsStay DEF TextInv
  <2> QED BY <2>1, <2>2, <2>3, <2>4 DEF TextInv, TextIs, RoomInv, RollInv, RingInv
<1> QED BY <1>1, <1>2, <1>3, <1>4, <1>5, <1>6, <1>7 DEF TextStep

LEMMA HashIsRolled == TextInv => RollingHash
<1> SUFFICES ASSUME TextInv, WholeKgram, pcT \in {"roll", "done"}
             PROVE  hashword = HashAt(Letters, first)
  BY DEF RollingHash, HashAt, Exact
<1> QED BY DEF TextInv, RollInv

LEMMA QuotientRest ==
    ASSUME NEW m \in Nat, NEW w \in Nat \ {0}
    PROVE  m \div w \in Nat /\ m % w \in Nat /\ m % w < w /\ m = (m \div w) * w + (m % w)
<1>1. /\ m \div w \in Nat /\ m % w \in Nat /\ m % w < w
      /\ m = w * (m \div w) + (m % w)
  OBVIOUS
<1>2. w * (m \div w) = (m \div w) * w
  BY <1>1
<1> QED BY <1>1, <1>2

\* As many windows as are over.
LEMMA CapacityOf ==
    ASSUME NEW q \in Nat, NEW r \in Nat, r < WindowLength,
           Size + 1 = q * WindowLength + r, Size >= WindowLength, Size \in Nat
    PROVE  Capacity = q - 1 /\ (Size + 1) % WindowLength = r /\ q > 0
<1>1. WindowLength \in Nat \ {0} /\ WindowLength > 1
  BY TextAssumption
<1>2. q # 0
  <2>1. q = 0 => q * WindowLength = 0
    BY <1>1
  <2> QED BY <1>1, <2>1
<1>3. PICK p \in Nat : p = q - 1 /\ p + 1 = q
  BY <1>2
<1>4. p * WindowLength \in Nat /\ p * WindowLength + WindowLength = q * WindowLength
  BY <1>1, <1>3, ProductNext
<1>5. Size - WindowLength + 1 = p * WindowLength + r
  BY <1>1, <1>4
<1>6. (p * WindowLength + r) \div WindowLength = p
  BY <1>1, Quotient
<1>7. Capacity = p
  BY <1>1, <1>5, <1>6 DEF Capacity
<1>8. (Size + 1) % WindowLength = r
  <2>1. PICK m \in Nat : m = Size + 1
    OBVIOUS
  <2>2. m \div WindowLength = q
    BY <1>1, <2>1, Quotient
  <2>3. m = WindowLength * (m \div WindowLength) + (m % WindowLength) /\ m % WindowLength \in Nat
    BY <1>1, <2>1
  <2>4. WindowLength * q = q * WindowLength /\ q * WindowLength \in Nat
    BY <1>1
  <2> QED BY <2>1, <2>2, <2>3, <2>4
<1> QED BY <1>2, <1>3, <1>7, <1>8

LEMMA PointsHaveRoom == TextInv => RoomForPoints
<1> SUFFICES ASSUME TextInv PROVE RoomForPoints
  OBVIOUS
<1> DEFINE over == (Size + 1) % WindowLength
           unused == KgramLength + SkippedIn(KgramLength + 1, Size)
           n == Len(points)
           all == n * WindowLength
<1>1. TextIs /\ PointsInv /\ RoomInv
  BY DEF TextInv
<1>2. /\ WindowLength \in Nat \ {0} /\ KgramLength \in Nat /\ KgramLength > 1
      /\ KgramLength < WindowLength
  BY TextAssumption
<1>3. Size \in Nat /\ pos \in Nat /\ pos <= Size
  BY <1>1 DEF TextIs, Size
<1>4. /\ n \in Nat /\ Len(win) \in Nat /\ Len(rolled) \in Nat
      /\ Len(rolled) = all + Len(win) /\ Len(win) < WindowLength
  BY <1>1 DEF PointsInv
<1>5. all \in Nat
  BY <1>2, <1>4, ProductNext
<1>6. PICK q \in Nat, r \in Nat : r < WindowLength /\ Size + 1 = q * WindowLength + r
  <2>1. PICK m \in Nat : m = Size + 1
    BY <1>3
  <2>2. PICK w \in Nat \ {0} : w = WindowLength
    BY <1>2
  <2>3. m \div w \in Nat /\ m % w \in Nat /\ m % w < w /\ m = (m \div w) * w + (m % w)
    BY QuotientRest
  <2>4. PICK x \in Nat, y \in Nat : x = m \div w /\ y = m % w
    BY <2>3
  <2>5. y < WindowLength /\ Size + 1 = x * WindowLength + y
    BY <2>1, <2>2, <2>3, <2>4, Zenon
  <2> QED BY <2>5, Zenon
<1>7. q * WindowLength \in Nat /\ q * WindowLength + WindowLength = (q + 1) * WindowLength
  BY <1>2, <1>6, ProductNext
<1>8. Size >= WindowLength => Capacity = q - 1 /\ over = r /\ q > 0
  BY <1>2, <1>3, <1>6, CapacityOf
<1>9. ASSUME pcT \in {"done", "undefined"}
      PROVE  /\ pos >= KgramLength /\ unused \in Nat
             /\ Len(rolled) + unused <= Size + 1
             /\ pos = Size => Len(rolled) + unused = Size + 1
  <2>1. PICK a \in Nat \ {0} : a = KgramLength + 1
    BY <1>2
  <2>2. pos >= KgramLength /\ Len(rolled) + KgramLength + SkippedIn(a, pos) = pos + 1
    BY <1>1, <1>9, <2>1 DEF TextIs, RoomInv
  <2>3. /\ SkippedIn(a, Size) \in Nat
        /\ SkippedIn(a, Size) <= SkippedIn(a, pos) + (Size - pos)
    <3>1. a <= pos + 1
      BY <1>2, <1>3, <2>1, <2>2
    <3> QED BY <1>3, <3>1, SkippedUpTo
  <2>4. SkippedIn(a, pos) \in Nat
    <3>1. a \in Nat
      BY <2>1
    <3> QED BY <1>3, <3>1, SkippedInFinite
  <2>5. unused = KgramLength + SkippedIn(a, Size)
    BY <2>1
  <2> HIDE DEF unused
  <2>6. unused \in Nat
    BY <1>2, <2>3, <2>5
  <2>a. Len(rolled) \in Nat /\ KgramLength \in Nat
    BY <1>2, <1>4
  <2>7. Len(rolled) + unused <= Size + 1
    BY <1>3, <2>a, <2>2, <2>3, <2>4, <2>5
  <2>8. pos = Size => Len(rolled) + unused = Size + 1
    BY <1>3, <2>a, <2>2, <2>3, <2>4, <2>5
  <2> QED BY <2>2, <2>6, <2>7, <2>8
<1>10. unused >= KgramLength
  <2>1. PICK a \in Nat : a = KgramLength + 1
    BY <1>2
  <2>2. SkippedIn(a, Size) \in Nat
    BY <1>3, SkippedInFinite
  <2> QED BY <1>2, <2>1, <2>2
<1> HIDE DEF over, unused, all, n
<1>11. ASSUME pcT = "undefined" PROVE Size >= WindowLength /\ over >= unused
  <2>1. n > Capacity /\ Capacity \in Nat
    BY <1>1, <1>11, CapacityIs DEF RoomInv, n
  <2>2. unused \in Nat /\ all + unused <= Size + 1
    BY <1>3, <1>4, <1>5, <1>9, <1>11
  <2>3. Size >= WindowLength
    <3>1. 1 * WindowLength <= n * WindowLength /\ 1 * WindowLength = WindowLength
      <4>1. 1 \in Nat /\ 1 <= n
        BY <1>4, <2>1
      <4> QED BY <1>2, <1>4, <4>1, ProductMonotonic
    <3>2. WindowLength <= all
      BY <3>1 DEF all
    <3> QED BY <1>2, <1>3, <1>5, <1>10, <2>2, <3>2
  <2>4. q * WindowLength <= all
    <3>1. q <= n
      BY <1>4, <1>6, <1>8, <2>1, <2>3
    <3> QED BY <1>2, <1>4, <1>6, <3>1, ProductMonotonic DEF all
  <2>5. over = r
    BY <1>8, <2>3
  <2> QED BY <1>3, <1>5, <1>6, <1>7, <2>2, <2>3, <2>4, <2>5
<1>12. ASSUME pcT = "done", Size >= WindowLength PROVE over < unused
  <2>1. n <= Capacity /\ pos = Size
    BY <1>1, <1>12 DEF RoomInv, TextIs, n
  <2>2. unused \in Nat /\ all + Len(win) + unused = Size + 1
    BY <1>3, <1>4, <1>5, <1>9, <1>12, <2>1
  <2>3. all + WindowLength <= q * WindowLength
    <3>1. n + 1 \in Nat /\ n + 1 <= q
      BY <1>4, <1>6, <1>8, <1>12, <2>1
    <3>2. (n + 1) * WindowLength <= q * WindowLength
      BY <1>2, <1>6, <3>1, ProductMonotonic
    <3>3. n * WindowLength + WindowLength = (n + 1) * WindowLength
      BY <1>2, <1>4, ProductNext
    <3> QED BY <3>2, <3>3 DEF all
  <2>4. over = r
    BY <1>8, <1>12
  <2> QED BY <1>2, <1>3, <1>4, <1>5, <1>6, <1>7, <2>2, <2>3, <2>4
<1> QED BY <1>2, <1>3, <1>11, <1>12 DEF RoomForPoints, over, unused

-----------------------------------------------------------------------------
(* The calls.                                                              *)

\* Each call takes steps of its own component only.
LEMMA CallsApart ==
    ASSUME [Next]_vars
    PROVE  /\ [TextStep]_textVars /\ [MatchStep]_matchVars /\ [VideoStep]_videoVars
           /\ [DistanceStep]_distanceVars /\ [DirectoryStep \/ Environment]_directoryVars
<1>1. CASE Pictures
  BY <1>1 DEF Pictures
<1>2. CASE TextHashed
  BY <1>2 DEF TextHashed
<1>3. CASE TextsCompared
  BY <1>3 DEF TextsCompared
<1>4. CASE KeyFramesTaken
  BY <1>4 DEF KeyFramesTaken
<1>5. CASE VideosCompared
  BY <1>5 DEF VideosCompared
<1>6. CASE Disturbed
  BY <1>6 DEF Disturbed
<1>7. CASE Over \/ UNCHANGED vars
  BY <1>7 DEF Over, vars
<1> QED BY <1>1, <1>2, <1>3, <1>4, <1>5, <1>6, <1>7 DEF Next

LibraryInv == SlicesInv /\ TextInv /\ MatchInv /\ VideoInv /\ DistanceInv

LEMMA InitLibrary == Init => LibraryInv
<1> SUFFICES ASSUME Init PROVE LibraryInv
  OBVIOUS
<1>1. SlicesInv
  BY DEF Init, NamesBegin, HashThreadsIdle, SlicesInv
<1>2. TextInv
  <2>1. text \in Seq(DOMAIN Fold)
    <3>1. text \in Text \/ text = <<>>
      BY DEF Init, Called
    <3>2. <<>> \in Seq(DOMAIN Fold)
      OBVIOUS
    <3> QED BY <3>1, <3>2, TextAssumption
  <2> QED BY <2>1, InitText DEF Init
<1>3. MatchInv
  <2>1. PointsAre
    <3>1. /\ hash1 \in Points \/ hash1 = <<>>
          /\ hash2 \in Points \/ hash2 = <<>>
      BY DEF Init, Called
    <3>2. <<>> \in Seq(TxtPoint)
      OBVIOUS
    <3> QED BY <3>1, <3>2, PointsAssumption DEF PointsAre
  <2> QED BY <2>1, InitMatch DEF Init
<1>4. VideoInv
  <2>1. CASE job = "video"
    <3>1. PICK v \in Video : /\ frames = v.frames /\ rate = v.rate
                             /\ dist = v.dist /\ stored = v.stored
      BY <2>1 DEF Init, Called
    <3>2. /\ frames \in Int /\ rate \in Int /\ stored \in Nat
          /\ frames >= 0 /\ rate > 0 => dist \in [0..(nbframes - 1) -> Nat]
      BY <3>1, KeyFramesAssumption DEF nbframes, step
    <3>3. ASSUME frames >= 0, rate > 0 PROVE VideoIs
      <4>1. step \in Nat \ {0}
        BY <3>2, <3>3 DEF step
      <4>2. nbframes \in Nat
        BY <3>2, <3>3, <4>1 DEF nbframes
      <4> QED BY <3>2, <3>3, <4>1, <4>2 DEF VideoIs
    <3> QED BY <3>2, <3>3, InitVideo DEF Init, FileIs
  <2>2. CASE job # "video"
    <3>1. frames = 0 /\ rate = 1 /\ dist = <<>> /\ stored = 0
      BY <2>2 DEF Init, Called
    <3>2. step = 1 /\ nbframes = 0
      BY <3>1 DEF step, nbframes
    <3>3. dist \in [0..(0 - 1) -> Nat]
      <4>1. 0..(0 - 1) = {}
        OBVIOUS
      <4> QED BY <3>1, <4>1
    <3>4. VideoIs
      BY <3>1, <3>2, <3>3 DEF VideoIs
    <3> QED BY <3>1, <3>4, InitVideo DEF Init, FileIs
  <2> QED BY <2>1, <2>2
<1>5. DistanceInv
  <2>1. Len(hashB) \in Nat
    <3>1. CASE job = "distance"
      BY <3>1, FramesAssumption DEF Init, Called
    <3>2. CASE job # "distance"
      BY <3>2 DEF Init, Called
    <3> QED BY <3>1, <3>2
  <2> QED BY <2>1, InitDistance DEF Init
<1> QED BY <1>1, <1>2, <1>3, <1>4, <1>5 DEF LibraryInv

LEMMA LibraryKeeps == LibraryInv /\ [Next]_vars => LibraryInv'
<1> SUFFICES ASSUME LibraryInv, [Next]_vars PROVE LibraryInv'
  OBVIOUS
<1>1. SlicesInv'
  BY CallsApart, StepKeepsSlices DEF LibraryInv
<1>2. TextInv'
  BY CallsApart, TextKeeps DEF LibraryInv
<1>3. MatchInv'
  BY CallsApart, MatchStepKeeps DEF LibraryInv
<1>4. VideoInv'
  BY CallsApart, VideoKeeps DEF LibraryInv
<1>5. DistanceInv'
  BY CallsApart, DistanceKeeps DEF LibraryInv
<1> QED BY <1>1, <1>2, <1>3, <1>4, <1>5 DEF LibraryInv

\* The invariant of the calls.
THEOREM LibraryInvariant == Spec => []LibraryInv
BY InitLibrary, LibraryKeeps, PTL DEF Spec

\* ph_texthash: the hash rolled through the ring is that of the last
\* KgramLength letters, and from KgramLength letters on has the residue of the
\* letters that the ring took out one turn late.
THEOREM HashRolls == Spec => []RollingHash
<1>1. LibraryInv => RollingHash
  BY HashIsRolled DEF LibraryInv
<1> QED BY <1>1, LibraryInvariant, PTL

\* ph_texthash: the points are the last least hashes of the windows.
THEOREM WindowsMinima == Spec => []PointsAreMinima
<1>1. LibraryInv => PointsAreMinima
  BY PointsAreLeast DEF LibraryInv, TextInv
<1> QED BY <1>1, LibraryInvariant, PTL

\* ph_compare_text_hashes: every pair of equal points is found once, with the
\* longest run that begins there.
THEOREM MatchedRuns == Spec => []MatchesAreRuns
<1>1. LibraryInv => MatchesAreRuns
  BY MatchesAre DEF LibraryInv
<1> QED BY <1>1, LibraryInvariant, PTL

\* ph_getKeyFramesFromVideo: each shot has one key frame, and no frame within
\* it differs less from the one before it.
THEOREM ShotsKeyFrames == Spec => []OneFramePerShot
<1>1. LibraryInv => OneFramePerShot
  BY ShotsHaveOneFrame DEF LibraryInv
<1> QED BY <1>1, LibraryInvariant, PTL

\* ph_getKeyFramesFromVideo: two boundaries inside a video are further apart
\* than the local surroundings reach.
THEOREM PeaksStandApart == Spec => []BoundariesApart
<1>1. LibraryInv => BoundariesApart
  BY PeaksApart DEF LibraryInv
<1> QED BY <1>1, LibraryInvariant, PTL

\* ph_dct_videohash_dist: a cell of the table is the length of the longest
\* sequence of alike frames in common of the frames up to it.
THEOREM CommonFrames == Spec => []LongestInCommon
<1>1. LibraryInv => LongestInCommon
  BY LongestIs DEF LibraryInv
<1> QED BY <1>1, LibraryInvariant, PTL

\* The arrays the library writes to are left in the cases that StaysInArrays
\* names, and in no other.
THEOREM ArraysOfTheLibrary == Spec => []StaysInArrays
<1>1. LibraryInv => StaysInArrays
  <2>1. SlicesInv => LeavesArray
    BY DEF SlicesInv, LeavesArray
  <2> QED BY <2>1, PointsHaveRoom, MatchesHaveRoom, BoundsHaveRoom
          DEF LibraryInv, StaysInArrays
<1> QED BY <1>1, LibraryInvariant, PTL

=============================================================================
