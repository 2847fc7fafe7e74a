------------------------ MODULE HashDirectoryProofs ------------------------
(***************************************************************************)
(* Theorems about the slices of HashThreads, for every number of names and *)
(* of threads and every schedule, in a directory that others change.       *)
(***************************************************************************)
EXTENDS HashDirectory, ListLemmas, FiniteSetTheorems, TLAPS

\* A directory holds finitely many entries.
DirectoryBegin ==
    /\ entries \subseteq Dots \cup File /\ IsFiniteSet(entries)
    /\ NamesBegin /\ HashThreadsIdle

DirectorySpec ==
    /\ DirectoryBegin
    /\ [][DirectoryStep \/ Environment]_directoryVars

\* The sum of the lengths of the slices before slice n.
Before(cnt, t, n) ==
    n * (cnt \div t) + (IF n < Rem(cnt, t) THEN n ELSE Rem(cnt, t)) * (t - Rem(cnt, t))

-----------------------------------------------------------------------------
(* The slices as numbers.                                                  *)

LEMMA Division ==
    ASSUME NEW cnt \in Nat, NEW t \in Nat \ {0}
    PROVE  /\ cnt \div t \in Nat
           /\ Rem(cnt, t) \in 0..(t - 1)
           /\ cnt = t * (cnt \div t) + Rem(cnt, t)
  BY DEF Rem

LEMMA OffIsNat ==
    ASSUME NEW cnt \in Nat, NEW t \in Nat \ {0}, NEW n \in Nat
    PROVE  Off(cnt, t, n) \in Nat
<1>1. cnt \div t \in Nat /\ Rem(cnt, t) \in 0..(t - 1)
  BY Division
<1> QED BY <1>1 DEF Off

LEMMA ProductMonotonic ==
    ASSUME NEW a \in Nat, NEW b \in Nat, NEW d \in Nat, a <= b
    PROVE  a * d \in Nat /\ b * d \in Nat /\ a * d <= b * d
  OBVIOUS

LEMMA BeforeNext ==
    ASSUME NEW cnt \in Nat, NEW t \in Nat \ {0}, NEW n \in Nat
    PROVE  /\ Before(cnt, t, n) \in Nat
           /\ Before(cnt, t, n + 1) = Before(cnt, t, n) + Off(cnt, t, n)
<1> DEFINE q == cnt \div t
           r == Rem(cnt, t)
<1>1. q \in Nat /\ r \in 0..(t - 1)
  BY Division
<1> HIDE DEF q, r
<1>2. /\ n * q \in Nat
      /\ (n + 1) * q = n * q + q
  BY <1>1
<1>3. CASE n < r
  <2>1. n * (t - r) \in Nat /\ (n + 1) * (t - r) = n * (t - r) + (t - r)
    BY <1>1
  <2>2. (IF n + 1 < r THEN n + 1 ELSE r) = n + 1
    BY <1>1, <1>3
  <2> QED BY <1>1, <1>2, <1>3, <2>1, <2>2 DEF Before, Off, q, r
<1>4. CASE ~(n < r)
  <2>1. r * (t - r) \in Nat
    BY <1>1
  <2>2. ~(n + 1 < r)
    BY <1>1, <1>4
  <2> QED BY <1>1, <1>2, <1>4, <2>1, <2>2 DEF Before, Off, q, r
<1> QED BY <1>3, <1>4

\* If the slices fit, none ends behind the array.
LEMMA FittingSlices ==
    ASSUME NEW cnt \in Nat, NEW t \in Nat \ {0}, Fits(cnt, t), NEW n \in 0..t
    PROVE  Before(cnt, t, n) <= cnt
<1> DEFINE q == cnt \div t
           r == Rem(cnt, t)
           m == IF n < r THEN n ELSE r
<1>1. q \in Nat /\ r \in 0..(t - 1) /\ cnt = t * q + r
  BY Division
<1>2. r = 0 \/ t - r = 1
  BY <1>1 DEF Fits
<1> HIDE DEF q, r
<1>3. n * q \in Nat /\ t * q \in Nat /\ n * q <= t * q
  BY <1>1, ProductMonotonic
<1>4. m \in Nat /\ m <= r
  BY <1>1
<1>5. m * (t - r) <= r
  <2>1. CASE r = 0
    BY <1>1, <1>4, <2>1
  <2>2. CASE t - r = 1
    BY <1>4, <2>2
  <2> QED BY <1>2, <2>1, <2>2
<1>6. Before(cnt, t, n) = n * q + m * (t - r)
  BY DEF Before, q, r
<1>7. m * (t - r) \in Int
  BY <1>1, <1>4
<1> QED BY <1>1, <1>3, <1>5, <1>6, <1>7

\* If they do not, a slice that is not empty ends behind it.
LEMMA OverrunningSlice ==
    ASSUME NEW cnt \in Nat, NEW t \in Nat \ {0}, ~Fits(cnt, t)
    PROVE  \E n \in 0..(t - 1) :
              Off(cnt, t, n) > 0 /\ Before(cnt, t, n) + Off(cnt, t, n) > cnt
<1> DEFINE q == cnt \div t
           r == Rem(cnt, t)
<1>1. q \in Nat /\ r \in 0..(t - 1) /\ cnt = t * q + r
  BY Division
<1>2. r > 0 /\ t - r > 1
  BY <1>1 DEF Fits
<1> HIDE DEF q, r
<1>3. r * (t - r) > r
  <2>1. 2 * r <= (t - r) * r
    BY <1>1, <1>2, ProductMonotonic
  <2> QED BY <1>1, <1>2, <2>1
<1>4. CASE q > 0
  <2>1. Off(cnt, t, t - 1) > 0
    BY <1>1, <1>2, <1>4 DEF Off, q, r
  <2>2. Before(cnt, t, t) = t * q + r * (t - r)
    BY <1>1 DEF Before, q, r
  <2>3. Before(cnt, t, (t - 1) + 1) = Before(cnt, t, t - 1) + Off(cnt, t, t - 1)
    BY BeforeNext
  <2>4. Before(cnt, t, t) > cnt
    BY <1>1, <1>3, <2>2
  <2> QED BY <2>1, <2>3, <2>4
<1>5. CASE q = 0
  <2>1. Off(cnt, t, r - 1) > 0
    BY <1>1, <1>2, <1>5 DEF Off, q, r
  <2>2. Before(cnt, t, r) = r * (t - r)
    BY <1>1, <1>5 DEF Before, q, r
  <2>3. Before(cnt, t, (r - 1) + 1) = Before(cnt, t, r - 1) + Off(cnt, t, r - 1)
    BY <1>1, <1>2, BeforeNext
  <2>4. Before(cnt, t, r) > cnt
    BY <1>1, <1>3, <1>5, <2>2
  <2>5. r - 1 \in 0..(t - 1) /\ (r - 1) + 1 = r
    BY <1>1, <1>2
  <2> QED BY <2>1, <2>3, <2>4, <2>5
<1> QED BY <1>1, <1>4, <1>5

-----------------------------------------------------------------------------
(* The call.                                                               *)

\* Each slice begins where those before it end, and a thread that has hashed
\* something is within the array.
Sliced ==
    /\ size \in Nat \ {0}
    /\ threads \in Nat \ {0}
    /\ made \in 0..threads
    /\ progress \in [0..(made - 1) -> Nat]
    /\ \A n \in 0..(made - 1) :
          /\ start[n] = Before(size, threads, n)
          /\ progress[n] <= Off(size, threads, n)
          /\ progress[n] > 0 => start[n] + progress[n] <= size

SlicesInv ==
    /\ count \in Nat
    /\ pcH # "idle" => pcN = "listed"
    /\ pcH = "idle" => made = 0 /\ progress = <<>>
    /\ pcH = "create" => Sliced
    /\ pcH = "undefined" => Len(files) < count \/ ~Fits(size, threads)
    /\ pcH = "hashed" => Fits(size, threads)

LEMMA InitSlices == DirectoryBegin => SlicesInv
  BY DEF DirectoryBegin, NamesBegin, HashThreadsIdle, SlicesInv

\* While names are listed no thread runs; later nothing but the threads
\* changes what the invariant is about.
LEMMA NamesKeepSlices ==
    ASSUME SlicesInv, Names \/ Environment \/ UNCHANGED directoryVars
    PROVE  SlicesInv'
<1> USE DEF SlicesInv
<1>1. CASE Names
  <2>1. pcN # "listed" /\ UNCHANGED threadVars
    BY <1>1 DEF Names, NamesStep, Opened, NotFound, Counted, Alloc, NoMemory,
                ListedName, ListEnds
  <2>2. count' \in Nat
    BY <1>1 DEF Names, NamesStep, Opened, NotFound, Counted, Alloc, NoMemory,
                ListedName, ListEnds
  <2> QED BY <2>1, <2>2 DEF threadVars
<1>2. CASE Environment \/ UNCHANGED directoryVars
  <2>1. UNCHANGED <<threadVars, pcN, count, files>>
    BY <1>2 DEF Environment, Others, Add, Delete, directoryVars, namesVars, names
  <2> QED BY <2>1 DEF threadVars, Sliced
<1> QED BY <1>1, <1>2

LEMMA CallKeepsSlices ==
    ASSUME SlicesInv, Call \/ CallOnUnset
    PROVE  SlicesInv'
<1>1. CASE CallOnUnset
  BY <1>1 DEF SlicesInv, CallOnUnset, namesVars, names
<1>2. CASE Call
  <2>1. PICK asked \in ThreadChoices : CallHashes(count, asked)
    BY <1>2 DEF Call
  <2>2. pcN' = "listed" /\ count' = count /\ pcH = "idle" /\ count \in Nat
    BY <1>2, <2>1 DEF Call, CallHashes, namesVars, names, SlicesInv
  <2>3. CASE count <= 0
    <3>1. pcH' = "none"
      BY <2>1, <2>3 DEF CallHashes
    <3> QED BY <2>2, <3>1 DEF SlicesInv
  <2>4. CASE count > 0
    <3>1. /\ pcH' = "create" /\ size' = count /\ made' = 0 /\ progress' = <<>>
          /\ threads' = NumThreads(asked, count)
      BY <2>1, <2>2, <2>4 DEF CallHashes, SlicesInv
    <3>2. threads' \in Nat \ {0}
      BY <2>2, <2>4, <3>1, ThreadsAssumption DEF NumThreads
    <3>3. progress' \in [0..(made' - 1) -> Nat] /\ 0..(made' - 1) = {}
      BY <3>1
    <3>4. Sliced'
      BY <2>2, <2>4, <3>1, <3>2, <3>3 DEF Sliced
    <3> QED BY <2>2, <3>1, <3>4 DEF SlicesInv
  <2> QED BY <2>2, <2>3, <2>4
<1> QED BY <1>1, <1>2

LEMMA CreateKeepsSlices ==
    ASSUME SlicesInv, Create, UNCHANGED namesVars
    PROVE  SlicesInv'
<1> USE DEF Create
<1>1. Sliced /\ pcN = "listed" /\ count \in Nat
  BY DEF SlicesInv
<1>2. UNCHANGED <<pcN, count, files, pcH, size, threads>>
  BY DEF namesVars, names
<1>3. Begin(made) = Before(size, threads, made)
  <2>1. CASE made = 0
    <3> DEFINE q == size \div threads
               r == Rem(size, threads)
    <3>1. q \in Nat /\ r \in 0..(threads - 1) /\ threads \in Nat
      BY <1>1, Division DEF Sliced
    <3> HIDE DEF q, r
    <3>2. 0 * q = 0 /\ 0 * (threads - r) = 0
      BY <3>1
    <3>3. Before(size, threads, 0) = 0
      BY <3>1, <3>2 DEF Before, q, r
    <3> QED BY <2>1, <3>3 DEF Begin
  <2>2. CASE made # 0
    <3>1. made - 1 \in 0..(made - 1) /\ (made - 1) + 1 = made
      BY <1>1, <2>2 DEF Sliced
    <3>2. start[made - 1] = Before(size, threads, made - 1)
      BY <1>1, <3>1 DEF Sliced
    <3>3. Before(size, threads, (made - 1) + 1)
            = Before(size, threads, made - 1) + Off(size, threads, made - 1)
      BY <1>1, <3>1, BeforeNext DEF Sliced
    <3> QED BY <2>2, <3>1, <3>2, <3>3 DEF Begin
  <2> QED BY <2>1, <2>2
<1>4. made' \in 0..threads /\ made' = made + 1 /\ made \in Nat
  BY <1>1 DEF Sliced
<1>5. progress' \in [0..(made' - 1) -> Nat]
  BY <1>1, <1>4 DEF Sliced
<1>6. ASSUME NEW n \in 0..(made' - 1)
      PROVE  /\ start'[n] = Before(size, threads, n)
             /\ progress'[n] <= Off(size, threads, n)
             /\ progress'[n] > 0 => start'[n] + progress'[n] <= size
  <2>1. n \in 0..made
    BY <1>4
  <2>2. CASE n = made
    <3>1. Off(size, threads, n) \in Nat
      BY <1>1, <1>4, <2>2, OffIsNat DEF Sliced
    <3> QED BY <1>3, <2>1, <2>2, <3>1
  <2>3. CASE n # made
    <3>1. n \in 0..(made - 1)
      BY <1>4, <2>1, <2>3
    <3>2. start'[n] = start[n] /\ progress'[n] = progress[n]
      BY <2>1, <2>3
    <3> QED BY <1>1, <3>1, <3>2 DEF Sliced
  <2> QED BY <2>2, <2>3
<1>7. Sliced'
  BY <1>1, <1>2, <1>4, <1>5, <1>6 DEF Sliced
<1> QED BY <1>1, <1>2, <1>7 DEF SlicesInv

\* A thread leaves the array only with slices that do not fit.
LEMMA HashKeepsSlices ==
    ASSUME SlicesInv, UNCHANGED namesVars,
           NEW n \in 0..(made - 1), NEW value, pcH = "create", Turn(n, value)
    PROVE  SlicesInv'
<1> DEFINE i == start[n] + progress[n]
<1>1. Sliced /\ pcN = "listed" /\ count \in Nat
  BY DEF SlicesInv
<1>2. UNCHANGED <<pcN, count, files, size, threads, made, start>>
  BY DEF namesVars, names, Turn
<1>3. /\ n \in Nat /\ n + 1 \in 0..threads
      /\ start[n] = Before(size, threads, n)
      /\ Off(size, threads, n) \in Nat
      /\ progress[n] \in Nat
      /\ progress[n] < Off(size, threads, n)
  <2>1. n \in Nat /\ n + 1 \in 0..threads /\ progress[n] \in Nat
    BY <1>1 DEF Sliced
  <2>2. Off(size, threads, n) \in Nat
    BY <1>1, <2>1, OffIsNat DEF Sliced
  <2>3. progress[n] # Off(size, threads, n)
    BY DEF Turn, Finished
  <2> QED BY <1>1, <2>1, <2>2, <2>3 DEF Sliced
<1>4. /\ start[n] \in Nat
      /\ Before(size, threads, n + 1) = start[n] + Off(size, threads, n)
  BY <1>1, <1>3, BeforeNext DEF Sliced
<1>5. CASE i < size
  <2>1. pcH' = pcH /\ progress' = [progress EXCEPT ![n] = @ + 1]
    BY <1>5 DEF Turn
  <2>2. progress' \in [0..(made - 1) -> Nat]
    BY <1>1, <1>3, <2>1 DEF Sliced
  <2>3. ASSUME NEW m \in 0..(made - 1)
        PROVE  /\ progress'[m] <= Off(size, threads, m)
               /\ progress'[m] > 0 => start[m] + progress'[m] <= size
    <3>1. CASE m = n
      <4>1. progress'[m] = progress[n] + 1
        BY <1>1, <2>1, <3>1 DEF Sliced
      <4>2. size \in Nat
        BY <1>1 DEF Sliced
      <4> QED BY <1>3, <1>4, <1>5, <3>1, <4>1, <4>2
    <3>2. CASE m # n
      BY <1>1, <2>1, <3>2 DEF Sliced
    <3> QED BY <3>1, <3>2
  <2>4. Sliced'
    BY <1>1, <1>2, <2>2, <2>3 DEF Sliced
  <2> QED BY <1>1, <1>2, <2>1, <2>4 DEF SlicesInv
<1>6. CASE ~(i < size)
  <2>1. pcH' = "undefined"
    BY <1>6 DEF Turn
  <2>2. ~Fits(size, threads)
    <3>1. SUFFICES ASSUME Fits(size, threads) PROVE FALSE
      OBVIOUS
    <3>2. Before(size, threads, n + 1) <= size
      BY <1>1, <1>3, <3>1, FittingSlices DEF Sliced
    <3>3. size \in Nat
      BY <1>1 DEF Sliced
    <3> QED BY <1>3, <1>4, <1>6, <3>2, <3>3
  <2> QED BY <1>1, <1>2, <2>1, <2>2 DEF SlicesInv
<1> QED BY <1>5, <1>6

\* When all threads have ended within the array, the slices fit.
LEMMA JoinedKeepsSlices ==
    ASSUME SlicesInv, Joined, UNCHANGED namesVars
    PROVE  SlicesInv'
<1>1. Sliced /\ pcN = "listed" /\ count \in Nat
  BY DEF SlicesInv, Joined
<1>2. UNCHANGED <<pcN, count, size, threads>> /\ pcH' = "hashed"
  BY DEF namesVars, names, Joined
<1>3. Fits(size, threads)
  <2>1. SUFFICES ASSUME ~Fits(size, threads) PROVE FALSE
    OBVIOUS
  <2>2. PICK n \in 0..(threads - 1) :
           /\ Off(size, threads, n) > 0
           /\ Before(size, threads, n) + Off(size, threads, n) > size
    BY <1>1, <2>1, OverrunningSlice DEF Sliced
  <2>3. /\ start[n] = Before(size, threads, n)
        /\ progress[n] = Off(size, threads, n)
        /\ progress[n] > 0 => start[n] + progress[n] <= size
    BY <1>1 DEF Joined, Finished, Sliced
  <2>4. Before(size, threads, n) \in Nat /\ Off(size, threads, n) \in Nat
    BY <1>1, BeforeNext, OffIsNat DEF Sliced
  <2>5. size \in Nat
    BY <1>1 DEF Sliced
  <2> QED BY <2>2, <2>3, <2>4, <2>5
<1> QED BY <1>1, <1>2, <1>3 DEF SlicesInv

LEMMA StepKeepsSlices ==
    ASSUME SlicesInv, [DirectoryStep \/ Environment]_directoryVars
    PROVE  SlicesInv'
<1>1. CASE Names \/ Environment \/ UNCHANGED directoryVars
  BY <1>1, NamesKeepSlices
<1>2. CASE Call \/ CallOnUnset
  BY <1>2, CallKeepsSlices
<1>3. CASE Threads
  <2>1. UNCHANGED namesVars
    BY <1>3 DEF Threads
  <2>2. CASE Create
    BY <2>1, <2>2, CreateKeepsSlices
  <2>3. CASE Joined
    BY <2>1, <2>3, JoinedKeepsSlices
  <2>4. ASSUME NEW n \in 0..(made - 1), NEW name, NEW readable, Hash(n, name, readable)
        PROVE  SlicesInv'
    <3> DEFINE value == IF readable THEN name ELSE Garbage
    <3>1. pcH = "create" /\ Turn(n, value)
      BY <2>4 DEF Hash
    <3> HIDE DEF value
    <3> QED BY <2>1, <3>1, HashKeepsSlices
  <2> QED BY <1>3, <2>2, <2>3, <2>4 DEF Threads
<1> QED BY <1>1, <1>2, <1>3 DEF DirectoryStep

\* However many names there are, whatever number of threads is asked for and
\* in whichever order they run, a thread of ph_dct_image_hashes leaves the array
\* only if the remainder of the division is neither 0 nor one less than the
\* number of threads, and it returns only if the remainder is one of these.
THEOREM ArrayIsLeft == DirectorySpec => []LeavesArray
<1>1. SlicesInv => LeavesArray
  BY DEF SlicesInv, LeavesArray
<1>2. SlicesInv /\ [DirectoryStep \/ Environment]_directoryVars => SlicesInv'
  BY StepKeepsSlices
<1> QED BY InitSlices, <1>1, <1>2, PTL DEF DirectorySpec

-----------------------------------------------------------------------------
(* The two passes over the directory.                                      *)

\* An entry returned is not returned again, and whatever a pass returned was
\* in the directory.
Passing ==
    /\ entries \subseteq Dots \cup File /\ IsFiniteSet(entries)
    /\ count \in Nat
    /\ files \in Seq(File)
    /\ Range(files) \subseteq entries \cup removed
    /\ dirp = [stat |-> dirp.stat, handle |-> dirp.handle]
    /\ dirp.stat \in Int
    /\ dirp.stat <= 0 => dirp.handle = NoHandle
    /\ dirp.stat > 0 => /\ dirp.handle \subseteq Dots \cup File
                        /\ dirp.handle \subseteq entries \cup removed
                        /\ IsFiniteSet(dirp.handle)
    /\ missed \in BOOLEAN
    /\ changes \in Nat /\ (changes = 0 => added = {} /\ removed = {})
    /\ pcN \in {"open", "count", "alloc", "list", "listed", "failed", "undefined"}
    /\ pcN = "open" => dirp = OpenDir /\ files = <<>> /\ count = 0
    /\ pcN = "count" => dirp.stat >= 0 /\ files = <<>> /\ (dirp.stat = 0 => count = 0)
    /\ pcN = "alloc" => dirp.stat < 0 /\ files = <<>>
    /\ pcN = "list" => dirp.stat >= 0 /\ (dirp.stat = 0 => files = <<>>)
    /\ pcN \in {"listed", "failed"} => dirp.handle = NoHandle
    /\ pcN \in {"list", "listed"} => Len(files) <= count

Passed == (entries \ dirp.handle) \cap File
Ahead == dirp.handle \cap File

\* If nothing was added or missed there is room for all files.
RoomForAll ==
    added = {} /\ ~missed =>
        /\ pcN = "count" /\ dirp.stat > 0 => Cardinality(Passed) <= count
        /\ pcN \in {"alloc", "list", "listed"} => Cardinality(Listing) <= count
        /\ pcN = "list" /\ dirp.stat > 0 => Len(files) + Cardinality(Ahead) <= count
        /\ pcN # "undefined"

\* If nothing was removed there is a file for each name counted.
FileForEach ==
    removed = {} =>
        /\ pcN = "count" /\ dirp.stat > 0 => count <= Cardinality(Passed)
        /\ pcN \in {"alloc", "list", "listed"} => count <= Cardinality(Listing)
        /\ pcN = "list" /\ dirp.stat > 0 => count <= Len(files) + Cardinality(Ahead)
        /\ pcN = "listed" => count <= Len(files)

\* If nothing changed at all the names are those of the files passed.
NamesPassed ==
    changes = 0 =>
        /\ pcN = "list" /\ dirp.stat > 0 => Range(files) = Passed
        /\ pcN = "listed" => Range(files) = Listing

NamesInv == Passing /\ RoomForAll /\ FileForEach /\ NamesPassed

LEMMA Smaller ==
    ASSUME NEW S, NEW T, IsFiniteSet(T), S \subseteq T
    PROVE  /\ IsFiniteSet(S)
           /\ Cardinality(S) \in Nat /\ Cardinality(T) \in Nat
           /\ Cardinality(S) <= Cardinality(T)
BY FS_Subset, FS_CardinalityType

\* An entry more, or the same ones if it is no file.
LEMMA OneMore ==
    ASSUME NEW S, IsFiniteSet(S), NEW e, e \notin S
    PROVE  Cardinality(S \cup {e}) = Cardinality(S) + 1 /\ IsFiniteSet(S \cup {e})
BY FS_AddElement

LEMMA MinIsIn ==
    ASSUME NEW S \in SUBSET Nat, S # {}
    PROVE  Min(S) \in S
<1>1. \E x \in S : \A y \in S : x =< y
  BY Least
<1> QED BY <1>1 DEF Min

EntriesLeft == IF dirp.stat = 0 THEN entries ELSE dirp.handle

\* readdir returns one of the entries left, or none; none with no error only
\* when all were returned.
LEMMA ReadOutcome ==
    ASSUME Passing, dirp.stat >= 0, NEW r \in ReadDir(dirp, entries)
    PROVE  \/ /\ r.entry \in EntriesLeft
              /\ r.entry # NoEntry
              /\ r.dir = [stat |-> dirp.stat + 1, handle |-> EntriesLeft \ {r.entry}]
              /\ r.errno = FALSE
           \/ /\ r.entry = NoEntry
              /\ r.dir = [stat |-> -1, handle |-> NoHandle]
              /\ r.errno \in BOOLEAN
              /\ ~r.errno => dirp.stat > 0 /\ dirp.handle = {}
<1>1. PICK s, h : dirp = [stat |-> s, handle |-> h]
  BY DEF Passing
<1>2. dirp.stat = s /\ dirp.handle = h /\ s \in Int /\ s >= 0
  BY <1>1 DEF Passing
<1>3. AtEndOf(dirp) = [stat |-> -1, handle |-> NoHandle]
  <2>1. PICK q : q = [dirp EXCEPT !.stat = -1]
    OBVIOUS
  <2>2. q = [stat |-> -1, handle |-> h]
    BY <1>1, <2>1
  <2>3. [q EXCEPT !.handle = NoHandle] = [stat |-> -1, handle |-> NoHandle]
    BY <2>2
  <2>4. [dirp EXCEPT !.stat = -1, !.handle = NoHandle]
            = [[dirp EXCEPT !.stat = -1] EXCEPT !.handle = NoHandle]
    OBVIOUS
  <2> QED BY <2>1, <2>3, <2>4 DEF AtEndOf
<1>4. ASSUME NEW left \in SUBSET (Dots \cup File), left # {}
      PROVE  /\ Taking(dirp, left) =
                    Returned([stat |-> s + 1, handle |-> left \ {Min(left)}], Min(left), FALSE)
             /\ Min(left) \in left /\ Min(left) # NoEntry
  <2>1. PICK q : q = [dirp EXCEPT !.stat = @ + 1]
    OBVIOUS
  <2>2. q = [stat |-> s + 1, handle |-> h]
    BY <1>1, <1>2, <2>1
  <2>3. [q EXCEPT !.handle = left \ {Min(left)}] = [stat |-> s + 1, handle |-> left \ {Min(left)}]
    BY <2>2
  <2>4. [dirp EXCEPT !.stat = @ + 1, !.handle = left \ {Min(left)}]
            = [[dirp EXCEPT !.stat = @ + 1] EXCEPT !.handle = left \ {Min(left)}]
    OBVIOUS
  <2>5. left \subseteq Nat /\ NoEntry \notin left
    BY NamesAssumption
  <2>6. Min(left) \in left
    BY <2>5, <1>4, MinIsIn
  <2> QED BY <2>1, <2>3, <2>4, <2>5, <2>6 DEF Taking
<1>5. CASE r = FindFails(dirp)
  BY <1>3, <1>5 DEF FindFails, Returned
<1>6. CASE s = 0 /\ r = FindFirst(dirp, entries)
  <2>1. h = NoHandle
    BY <1>2, <1>6 DEF Passing
  <2>2. CASE entries = {}
    <3>1. [dirp EXCEPT !.stat = -1] = [stat |-> -1, handle |-> NoHandle]
      BY <1>1, <2>1
    <3> QED BY <1>6, <2>2, <3>1 DEF FindFirst, Returned
  <2>3. CASE entries # {}
    <3>1. entries \subseteq Dots \cup File
      BY DEF Passing
    <3>2. r = Taking(dirp, entries)
      BY <1>6, <2>3 DEF FindFirst
    <3>3. EntriesLeft = entries
      BY <1>2, <1>6 DEF EntriesLeft
    <3> QED BY <1>2, <1>4, <2>3, <3>1, <3>2, <3>3 DEF Returned
  <2> QED BY <2>2, <2>3
<1>7. CASE s > 0 /\ r = FindNext(dirp)
  <2>1. h \subseteq Dots \cup File /\ EntriesLeft = h
    BY <1>2, <1>7 DEF Passing, EntriesLeft
  <2>2. CASE h = {}
    BY <1>2, <1>3, <1>7, <2>2 DEF FindNext, Returned
  <2>3. CASE h # {}
    <3>1. r = Taking(dirp, h)
      BY <1>2, <1>7, <2>3 DEF FindNext
    <3>2. /\ r = Returned([stat |-> s + 1, handle |-> h \ {Min(h)}], Min(h), FALSE)
          /\ Min(h) \in h /\ Min(h) # NoEntry
      BY <1>4, <2>1, <2>3, <3>1
    <3>3. r.entry = Min(h) /\ r.errno = FALSE /\ r.dir = [stat |-> s + 1, handle |-> h \ {Min(h)}]
      BY <3>2 DEF Returned
    <3> QED BY <1>2, <2>1, <3>2, <3>3
  <2> QED BY <2>2, <2>3
<1>8. r = FindFails(dirp) \/ (s = 0 /\ r = FindFirst(dirp, entries)) \/ (s > 0 /\ r = FindNext(dirp))
  <2>1. ~(dirp.stat < 0)
    BY <1>2
  <2>2. r \in IF dirp.stat = 0 THEN {FindFirst(dirp, entries), FindFails(dirp)}
              ELSE {FindNext(dirp), FindFails(dirp)}
    BY <2>1 DEF ReadDir
  <2> QED BY <1>2, <2>2
<1> QED BY <1>5, <1>6, <1>7, <1>8

-----------------------------------------------------------------------------
LEMMA InitNames == DirectoryBegin => NamesInv
<1> SUFFICES ASSUME DirectoryBegin PROVE NamesInv
  OBVIOUS
<1>1. /\ pcN = "open" /\ dirp = OpenDir /\ errno = FALSE /\ count = 0 /\ files = <<>>
      /\ added = {} /\ removed = {} /\ missed = FALSE /\ changes = 0
      /\ entries \subseteq Dots \cup File /\ IsFiniteSet(entries)
  BY DEF DirectoryBegin, NamesBegin
<1>2. dirp.stat = 0 /\ dirp.handle = NoHandle /\ dirp = [stat |-> 0, handle |-> NoHandle]
  BY <1>1 DEF OpenDir
<1>3. Range(files) = {} /\ files \in Seq(File) /\ Len(files) = 0
  BY <1>1 DEF Range
<1>4. Passing
  <2>1. /\ dirp.stat \in Int /\ dirp.stat <= 0 /\ ~(dirp.stat > 0) /\ count \in Nat
        /\ changes \in Nat
    BY <1>1, <1>2
  <2>2. missed \in BOOLEAN
    BY <1>1, Zenon
  <2> QED BY <1>1, <1>2, <1>3, <2>1, <2>2 DEF Passing
<1> QED BY <1>1, <1>2, <1>4 DEF NamesInv, RoomForAll, FileForEach, NamesPassed

LEMMA NamesUnchanged ==
    ASSUME NamesInv, UNCHANGED namesVars
    PROVE  NamesInv'
<1>1. /\ pcN' = pcN /\ dirp' = dirp /\ errno' = errno /\ count' = count
      /\ files' = files /\ missed' = missed /\ entries' = entries
      /\ added' = added /\ removed' = removed /\ changes' = changes
  BY DEF namesVars, names, others
<1>2. Passing'
  BY <1>1 DEF NamesInv, Passing
<1>3. RoomForAll' /\ FileForEach' /\ NamesPassed'
  BY <1>1 DEF NamesInv, RoomForAll, FileForEach, NamesPassed, Passed, Ahead, Listing
<1> QED BY <1>2, <1>3 DEF NamesInv

\* Between the passes, and before them.
LEMMA BetweenPasses ==
    ASSUME NamesInv, Opened \/ NotFound \/ Alloc \/ NoMemory
    PROVE  NamesInv'
<1>0. Passing /\ RoomForAll /\ FileForEach /\ NamesPassed
  BY DEF NamesInv
<1>1. UNCHANGED <<count, files, missed, entries, added, removed, changes>>
  BY DEF Opened, NotFound, Alloc, NoMemory, others
<1>2. Listing' = Listing /\ Range(files)' = Range(files)
  BY <1>1 DEF Listing
<1>3. CASE Opened
  <2>1. pcN = "open" /\ pcN' = "count" /\ dirp' = dirp
    BY <1>3 DEF Opened
  <2>2. dirp.stat = 0 /\ dirp.handle = NoHandle
    BY <1>0, <2>1 DEF Passing, OpenDir
  <2>3. Passing'
    BY <1>0, <1>1, <1>2, <2>1, <2>2 DEF Passing
  <2> QED BY <1>1, <2>1, <2>2, <2>3 DEF NamesInv, RoomForAll, FileForEach, NamesPassed
<1>4. CASE NotFound
  <2>1. pcN = "open" /\ pcN' = "failed" /\ dirp' = dirp
    BY <1>4 DEF NotFound
  <2>2. dirp.stat = 0 /\ dirp.handle = NoHandle
    BY <1>0, <2>1 DEF Passing, OpenDir
  <2>3. Passing'
    BY <1>0, <1>1, <1>2, <2>1, <2>2 DEF Passing
  <2> QED BY <1>1, <2>1, <2>2, <2>3 DEF NamesInv, RoomForAll, FileForEach, NamesPassed
<1>5. CASE Alloc
  <2>1. pcN = "alloc" /\ pcN' = "list" /\ dirp' = OpenDir
    BY <1>5 DEF Alloc, RewindDir
  <2>2. dirp'.stat = 0 /\ dirp'.handle = NoHandle /\ dirp' = [stat |-> 0, handle |-> NoHandle]
    BY <2>1 DEF OpenDir
  <2>3. Len(files) = 0 /\ files = <<>>
    BY <1>0, <2>1 DEF Passing
  <2>4. Passing'
    BY <1>0, <1>1, <1>2, <2>1, <2>2, <2>3 DEF Passing
  <2> QED BY <1>0, <1>1, <1>2, <2>1, <2>2, <2>4 DEF NamesInv, RoomForAll, FileForEach, NamesPassed
<1>6. CASE NoMemory
  <2>1. pcN = "alloc" /\ pcN' = "failed" /\ dirp' = dirp
    BY <1>6 DEF NoMemory
  <2>2. dirp.handle = NoHandle
    BY <1>0, <2>1 DEF Passing
  <2>3. Passing'
    BY <1>0, <1>1, <1>2, <2>1, <2>2 DEF Passing
  <2> QED BY <1>1, <2>1, <2>3 DEF NamesInv, RoomForAll, FileForEach, NamesPassed
<1> QED BY <1>3, <1>4, <1>5, <1>6

\* What a pass has returned and what it has still to return, before its turn.
Behind == (entries \ EntriesLeft) \cap File
Coming == EntriesLeft \cap File

LEMMA Sets ==
    ASSUME Passing, dirp.stat >= 0
    PROVE  /\ IsFiniteSet(Behind) /\ Cardinality(Behind) \in Nat
           /\ IsFiniteSet(Coming) /\ Cardinality(Coming) \in Nat
           /\ IsFiniteSet(Listing) /\ Cardinality(Listing) \in Nat
           /\ Behind \subseteq Listing /\ Cardinality(Behind) <= Cardinality(Listing)
           /\ IsFiniteSet(EntriesLeft) /\ EntriesLeft \subseteq Dots \cup File
           /\ EntriesLeft \subseteq entries \cup removed
           /\ dirp.stat > 0 => Behind = Passed /\ Coming = Ahead
           /\ dirp.stat = 0 => Behind = {} /\ Cardinality(Behind) = 0 /\ Coming = Listing
<1>1. IsFiniteSet(entries) /\ dirp.stat \in Int
  BY DEF Passing
<1>2. /\ IsFiniteSet(EntriesLeft) /\ EntriesLeft \subseteq Dots \cup File
      /\ EntriesLeft \subseteq entries \cup removed
  <2>1. CASE dirp.stat = 0
    BY <2>1 DEF Passing, EntriesLeft
  <2>2. CASE dirp.stat > 0
    BY <2>2 DEF Passing, EntriesLeft
  <2> QED BY <1>1, <2>1, <2>2
<1>3. Behind \subseteq Listing /\ Listing \subseteq entries /\ Coming \subseteq EntriesLeft
  BY DEF Behind, Listing, Coming
<1>4. IsFiniteSet(Listing) /\ Cardinality(Listing) \in Nat
  BY <1>1, <1>3, Smaller
<1>5. IsFiniteSet(Behind) /\ Cardinality(Behind) \in Nat /\ Cardinality(Behind) <= Cardinality(Listing)
  BY <1>3, <1>4, Smaller
<1>6. IsFiniteSet(Coming) /\ Cardinality(Coming) \in Nat
  BY <1>2, <1>3, Smaller
<1>7. dirp.stat > 0 => Behind = Passed /\ Coming = Ahead
  BY <1>1 DEF Behind, Passed, Coming, Ahead, EntriesLeft
<1>8. dirp.stat = 0 => Behind = {} /\ Coming = Listing
  BY DEF Behind, Listing, Coming, EntriesLeft
<1>9. dirp.stat = 0 => Cardinality(Behind) = 0
  BY <1>8, FS_EmptySet
<1> QED BY <1>2, <1>3, <1>4, <1>5, <1>6, <1>7, <1>8, <1>9

LEMMA CountedKeepsNames ==
    ASSUME NamesInv, Counted
    PROVE  NamesInv'
<1>0. /\ Passing /\ RoomForAll /\ FileForEach /\ NamesPassed
      /\ pcN = "count" /\ dirp.stat >= 0 /\ dirp.stat \in Int /\ count \in Nat
  BY DEF NamesInv, Counted, Passing
<1>1. UNCHANGED <<files, entries, added, removed, changes>> /\ Listing' = Listing
  BY DEF Counted, others, Listing
<1>2. PICK r \in ReadDir(dirp, entries) :
          /\ dirp' = r.dir
          /\ count' = IF r.entry \in File THEN count + 1 ELSE count
          /\ missed' = (missed \/ r.errno)
          /\ pcN' = IF r.entry = NoEntry THEN "alloc" ELSE "count"
  BY DEF Counted
<1>3. files = <<>> /\ Range(files)' = Range(files) /\ NoEntry \notin File
  BY <1>0, <1>1, NamesAssumption DEF Passing
<1>4. CASE /\ r.entry \in EntriesLeft
           /\ r.entry # NoEntry
           /\ r.dir = [stat |-> dirp.stat + 1, handle |-> EntriesLeft \ {r.entry}]
           /\ r.errno = FALSE
  <2> DEFINE e == r.entry
  <2>1. /\ pcN' = "count" /\ (missed' <=> missed) /\ missed' \in BOOLEAN
        /\ dirp'.stat = dirp.stat + 1 /\ dirp'.handle = EntriesLeft \ {e}
        /\ dirp' = [stat |-> dirp'.stat, handle |-> dirp'.handle]
    BY <1>0, <1>2, <1>4 DEF Passing
  <2>2. dirp'.stat > 0 /\ dirp'.stat \in Int /\ count' \in Nat
    BY <1>0, <1>2, <2>1
  <2>3. IsFiniteSet(dirp'.handle)
    BY <1>0, <2>1, Sets, Smaller
  <2>4. /\ dirp'.handle \subseteq Dots \cup File
        /\ dirp'.handle \subseteq entries \cup removed
    BY <1>0, <2>1, Sets
  <2>5. Passing'
    BY <1>0, <1>1, <1>3, <2>1, <2>2, <2>3, <2>4 DEF Passing
  <2>6. e \notin Behind /\ Passed' \subseteq Behind \cup ({e} \cap File)
        /\ (e \in entries => Passed' = Behind \cup ({e} \cap File))
    BY <1>1, <1>4, <2>1 DEF Passed, Behind
  <2>7. Cardinality(Behind \cup ({e} \cap File))
            = Cardinality(Behind) + (IF e \in File THEN 1 ELSE 0)
        /\ IsFiniteSet(Behind \cup ({e} \cap File))
    <3>1. CASE e \in File
      <4>1. {e} \cap File = {e}
        BY <3>1
      <4> QED BY <1>0, <2>6, <3>1, <4>1, Sets, OneMore
    <3>2. CASE e \notin File
      <4>1. Behind \cup ({e} \cap File) = Behind
        BY <3>2
      <4>2. IsFiniteSet(Behind) /\ Cardinality(Behind) \in Nat
        BY <1>0, Sets
      <4>3. Cardinality(Behind) + 0 = Cardinality(Behind)
        BY <4>2
      <4> QED BY <3>2, <4>1, <4>2, <4>3
    <3> QED BY <3>1, <3>2
  <2>8. Cardinality(Passed') <= Cardinality(Behind) + (IF e \in File THEN 1 ELSE 0)
        /\ Cardinality(Passed') \in Nat
    BY <2>6, <2>7, Smaller
  <2>9. Cardinality(Behind) \in Nat
    BY <1>0, Sets
  <2>10. added = {} /\ ~missed => Cardinality(Behind) <= count
    BY <1>0, Sets DEF RoomForAll
  <2>11. removed = {} => count <= Cardinality(Behind)
    BY <1>0, Sets DEF FileForEach, Passing
  <2>12. removed = {} =>
            Cardinality(Passed') = Cardinality(Behind) + (IF e \in File THEN 1 ELSE 0)
    <3>1. removed = {} => e \in entries
      BY <1>0, <1>4, Sets
    <3> QED BY <2>6, <2>7, <3>1
  <2>13. RoomForAll'
    BY <1>0, <1>1, <1>2, <2>1, <2>8, <2>9, <2>10 DEF RoomForAll
  <2>14. FileForEach'
    BY <1>0, <1>1, <1>2, <2>1, <2>8, <2>9, <2>11, <2>12 DEF FileForEach
  <2>15. NamesPassed'
    BY <2>1 DEF NamesPassed
  <2> QED BY <2>5, <2>13, <2>14, <2>15 DEF NamesInv
<1>5. CASE /\ r.entry = NoEntry
           /\ r.dir = [stat |-> -1, handle |-> NoHandle]
           /\ r.errno \in BOOLEAN
           /\ ~r.errno => dirp.stat > 0 /\ dirp.handle = {}
  <2>1. /\ pcN' = "alloc" /\ missed' = (missed \/ r.errno) /\ count' = count
        /\ dirp'.stat = -1 /\ dirp'.handle = NoHandle
        /\ dirp' = [stat |-> -1, handle |-> NoHandle]
    BY <1>2, <1>3, <1>5
  <2>2. missed' \in BOOLEAN
    BY <2>1
  <2>3. Passing'
    BY <1>0, <1>1, <1>3, <2>1, <2>2 DEF Passing
  <2>4. Cardinality(Behind) \in Nat /\ Cardinality(Listing) \in Nat
        /\ Cardinality(Behind) <= Cardinality(Listing)
    BY <1>0, Sets
  <2>5. ~r.errno => Passed = Listing /\ dirp.stat > 0
    BY <1>5 DEF Passed, Listing
  <2>6. RoomForAll'
    BY <1>0, <1>1, <2>1, <2>5 DEF RoomForAll
  <2>7. removed = {} => count <= Cardinality(Behind)
    BY <1>0, Sets DEF FileForEach, Passing
  <2>8. FileForEach'
    BY <1>0, <1>1, <2>1, <2>4, <2>7 DEF FileForEach
  <2>9. NamesPassed'
    BY <2>1 DEF NamesPassed
  <2> QED BY <2>3, <2>6, <2>8, <2>9 DEF NamesInv
<1> QED BY <1>0, <1>4, <1>5, ReadOutcome

LEMMA ListedKeepsNames ==
    ASSUME NamesInv, ListedName
    PROVE  NamesInv'
<1>0. /\ Passing /\ RoomForAll /\ FileForEach /\ NamesPassed
      /\ pcN = "list" /\ dirp.stat >= 0 /\ dirp.stat \in Int /\ count \in Nat
      /\ files \in Seq(File) /\ Len(files) \in Nat
  BY DEF NamesInv, ListedName, Passing
<1>1. UNCHANGED <<count, missed, entries, added, removed, changes>> /\ Listing' = Listing
  BY DEF ListedName, others, Listing
<1>2. PICK r \in ReadDir(dirp, entries) :
          /\ r.entry # NoEntry
          /\ dirp' = r.dir
          /\ files' = IF r.entry \in File THEN Append(files, r.entry) ELSE files
  BY DEF ListedName
<1> DEFINE e == r.entry
           one == IF e \in File THEN 1 ELSE 0
<1>3. /\ e \in EntriesLeft
      /\ dirp' = [stat |-> dirp.stat + 1, handle |-> EntriesLeft \ {e}]
  BY <1>0, <1>2, ReadOutcome
<1>4. /\ dirp'.stat = dirp.stat + 1 /\ dirp'.handle = EntriesLeft \ {e}
      /\ dirp' = [stat |-> dirp'.stat, handle |-> dirp'.handle]
      /\ dirp'.stat > 0 /\ dirp'.stat \in Int
  BY <1>0, <1>3
<1>5. IsFiniteSet(dirp'.handle)
  BY <1>0, <1>4, Sets, Smaller
<1>6. /\ dirp'.handle \subseteq Dots \cup File
      /\ dirp'.handle \subseteq entries \cup removed
      /\ e \in entries \cup removed
  BY <1>0, <1>3, <1>4, Sets
<1>7. /\ files' \in Seq(File)
      /\ Len(files') = Len(files) + one
      /\ Range(files') = Range(files) \cup ({e} \cap File)
  <2>1. CASE e \in File
    <3>1. {e} \cap File = {e}
      BY <2>1
    <3> QED BY <1>0, <1>2, <2>1, <3>1, AppendRange
  <2>2. CASE e \notin File
    BY <1>0, <1>2, <2>2
  <2> QED BY <2>1, <2>2
<1>8. Cardinality(Ahead') + one = Cardinality(Coming) /\ Cardinality(Ahead') \in Nat
  <2>1. IsFiniteSet(Coming) /\ Cardinality(Coming) \in Nat
    BY <1>0, Sets
  <2>2. Ahead' = Coming \ {e}
    BY <1>4 DEF Ahead, Coming
  <2>3. IsFiniteSet(Ahead') /\ Cardinality(Ahead') \in Nat
    BY <2>1, <2>2, Smaller
  <2>4. CASE e \in File
    <3>1. e \in Coming /\ Coming = Ahead' \cup {e} /\ e \notin Ahead'
      BY <1>3, <2>2, <2>4 DEF Coming
    <3> QED BY <2>3, <2>4, <3>1, OneMore
  <2>5. CASE e \notin File
    <3>1. Ahead' = Coming
      BY <2>2, <2>5 DEF Coming
    <3> QED BY <2>1, <2>5, <3>1
  <2> QED BY <2>4, <2>5
<1>9. Cardinality(Coming) \in Nat /\ one \in Nat
  BY <1>0, Sets
<1> HIDE DEF one
<1>10. dirp.stat = 0 => Len(files) = 0 /\ Cardinality(Coming) = Cardinality(Listing)
  BY <1>0, Sets DEF Passing
<1>11. dirp.stat > 0 => Cardinality(Coming) = Cardinality(Ahead)
  BY <1>0, Sets
<1>12. added = {} /\ ~missed => Len(files) + Cardinality(Coming) <= count
  <2>1. CASE dirp.stat = 0
    BY <1>0, <1>9, <1>10, <2>1 DEF RoomForAll
  <2>2. CASE dirp.stat > 0
    BY <1>0, <1>11, <2>2 DEF RoomForAll
  <2> QED BY <1>0, <2>1, <2>2
<1>13. removed = {} => count <= Len(files) + Cardinality(Coming)
  <2>1. CASE dirp.stat = 0
    BY <1>0, <1>9, <1>10, <2>1 DEF FileForEach
  <2>2. CASE dirp.stat > 0
    BY <1>0, <1>11, <2>2 DEF FileForEach
  <2> QED BY <1>0, <2>1, <2>2
<1>14. pcN' = IF Len(files') > count THEN "undefined" ELSE "list"
  BY DEF ListedName
<1>15. Passing'
  <2>1. Range(files') \subseteq entries \cup removed
    BY <1>0, <1>6, <1>7 DEF Passing
  <2>2. pcN' = "list" => Len(files') <= count
    BY <1>0, <1>7, <1>9, <1>14
  <2>3. /\ pcN' \in {"list", "undefined"} /\ ~(dirp'.stat <= 0) /\ dirp'.stat >= 0
        /\ dirp'.stat # 0
    BY <1>4, <1>14
  <2> QED BY <1>0, <1>1, <1>4, <1>5, <1>6, <1>7, <2>1, <2>2, <2>3 DEF Passing
<1>16. RoomForAll'
  <2>1. added = {} /\ ~missed => Len(files') + Cardinality(Ahead') <= count
    BY <1>0, <1>7, <1>8, <1>9, <1>12
  <2>2. added = {} /\ ~missed => pcN' = "list"
    BY <1>0, <1>7, <1>8, <1>9, <1>14, <2>1
  <2> QED BY <1>0, <1>1, <1>14, <2>1, <2>2 DEF RoomForAll
<1>17. FileForEach'
  <2>1. removed = {} => count <= Len(files') + Cardinality(Ahead')
    BY <1>0, <1>7, <1>8, <1>9, <1>13
  <2> QED BY <1>0, <1>1, <1>14, <2>1 DEF FileForEach
<1>18. NamesPassed'
  <2> SUFFICES ASSUME changes = 0 PROVE Range(files') = Passed'
    BY <1>1, <1>14 DEF NamesPassed
  <2>1. removed = {} /\ e \in entries
    BY <1>0, <1>6 DEF Passing
  <2>2. Range(files) = Behind
    <3>1. CASE dirp.stat = 0
      BY <1>0, <3>1, Sets DEF Passing, Range
    <3>2. CASE dirp.stat > 0
      BY <1>0, <3>2, Sets DEF NamesPassed
    <3> QED BY <1>0, <3>1, <3>2
  <2>3. Passed' = Behind \cup ({e} \cap File)
    BY <1>1, <1>4, <2>1 DEF Passed, Behind
  <2> QED BY <1>7, <2>2, <2>3
<1> QED BY <1>15, <1>16, <1>17, <1>18 DEF NamesInv

LEMMA EndKeepsNames ==
    ASSUME NamesInv, ListEnds
    PROVE  NamesInv'
<1>0. /\ Passing /\ RoomForAll /\ FileForEach /\ NamesPassed
      /\ pcN = "list" /\ dirp.stat >= 0 /\ dirp.stat \in Int /\ count \in Nat
      /\ files \in Seq(File) /\ Len(files) \in Nat /\ NoEntry \notin Dots \cup File
  BY NamesAssumption DEF NamesInv, ListEnds, Passing
<1>1. UNCHANGED <<count, files, missed, entries, added, removed, changes>>
      /\ Listing' = Listing /\ Range(files)' = Range(files)
  BY DEF ListEnds, others, Listing
<1>2. PICK r \in ReadDir(dirp, entries) :
          r.entry = NoEntry /\ dirp' = r.dir /\ errno' = r.errno
  BY DEF ListEnds
<1>3. /\ dirp' = [stat |-> -1, handle |-> NoHandle]
      /\ ~errno' => dirp.stat > 0 /\ dirp.handle = {}
  BY <1>0, <1>2, ReadOutcome
<1>4. dirp'.stat = -1 /\ dirp'.handle = NoHandle
  BY <1>3
<1>5. pcN' = (IF errno' THEN "failed" ELSE "listed")
  BY DEF ListEnds
<1>6. Passing'
  <2>1. pcN' \in {"failed", "listed"}
    BY <1>5
  <2> QED BY <1>0, <1>1, <1>3, <1>4, <2>1 DEF Passing
<1>7. CASE errno'
  BY <1>5, <1>6, <1>7 DEF NamesInv, RoomForAll, FileForEach, NamesPassed
<1>8. CASE ~errno'
  <2>1. pcN' = "listed" /\ dirp.stat > 0 /\ dirp.handle = {}
    BY <1>3, <1>5, <1>8
  <2>2. Passed = Listing /\ Cardinality(Ahead) = 0
    <3>1. Ahead = {} /\ Passed = Listing
      BY <2>1 DEF Ahead, Passed, Listing
    <3> QED BY <3>1, FS_EmptySet
  <2>3. RoomForAll'
    BY <1>0, <1>1, <2>1 DEF RoomForAll
  <2>4. FileForEach'
    BY <1>0, <1>1, <2>1, <2>2 DEF FileForEach
  <2>5. NamesPassed'
    BY <1>0, <1>1, <2>1, <2>2 DEF NamesPassed
  <2> QED BY <1>6, <2>3, <2>4, <2>5 DEF NamesInv
<1> QED BY <1>7, <1>8

\* What the find handle notices of a change.
LEMMA Notices ==
    ASSUME Passing, NEW n, NEW addition \in BOOLEAN, NEW d \in Noticing(dirp, n, addition)
    PROVE  \/ d = dirp
           \/ /\ dirp.stat > 0
              /\ d = [stat |-> dirp.stat, handle |-> IF addition THEN dirp.handle \cup {n}
                                                                 ELSE dirp.handle \ {n}]
<1>1. CASE dirp.handle = NoHandle
  BY <1>1 DEF Noticing
<1>2. CASE dirp.handle # NoHandle
  <2>1. dirp.stat > 0
    BY <1>2 DEF Passing
  <2>2. PICK s, h : dirp = [stat |-> s, handle |-> h] /\ s = dirp.stat /\ h = dirp.handle
    BY DEF Passing
  <2>3. \A x : [dirp EXCEPT !.handle = x] = [stat |-> s, handle |-> x]
    BY <2>2
  <2>4. d = dirp \/ d = [dirp EXCEPT !.handle = IF addition THEN @ \cup {n} ELSE @ \ {n}]
    BY <1>2 DEF Noticing
  <2> QED BY <2>1, <2>2, <2>3, <2>4
<1> QED BY <1>1, <1>2

LEMMA AddKeepsNames ==
    ASSUME NamesInv, NEW n \in File, Add(n)
    PROVE  NamesInv'
<1>0. /\ Passing /\ FileForEach /\ dirp.stat \in Int /\ count \in Nat
      /\ files \in Seq(File) /\ Len(files) \in Nat
  BY DEF NamesInv, Passing
<1>1. /\ UNCHANGED <<pcN, count, files, missed, removed>>
      /\ Range(files)' = Range(files)
      /\ n \notin entries /\ entries' = entries \cup {n}
      /\ added' # {} /\ changes' \in Nat /\ changes' # 0
      /\ dirp' \in Noticing(dirp, n, TRUE)
  <2>1. /\ UNCHANGED <<pcN, count, files, missed, removed>>
        /\ changes' = changes + 1
        /\ dirp' \in Noticing(dirp, n, TRUE)
    BY DEF Add
  <2>2. changes' \in Nat /\ changes' # 0
    BY <1>0, <2>1 DEF Passing
  <2>3. Range(files)' = Range(files)
    BY <2>1
  <2> QED BY <2>1, <2>2, <2>3 DEF Add
<1>2. \/ dirp' = dirp
      \/ dirp.stat > 0 /\ dirp' = [stat |-> dirp.stat, handle |-> dirp.handle \cup {n}]
  BY <1>0, <1>1, Notices
<1>3. /\ dirp' = [stat |-> dirp'.stat, handle |-> dirp'.handle]
      /\ dirp'.stat = dirp.stat
      /\ \/ dirp'.handle = dirp.handle
         \/ dirp.stat > 0 /\ dirp'.handle = dirp.handle \cup {n}
  <2>1. CASE dirp' = dirp
    BY <1>0, <2>1 DEF Passing
  <2>2. CASE dirp' # dirp
    BY <1>2, <2>2
  <2> QED BY <2>1, <2>2
<1>4. IsFiniteSet(entries') /\ IsFiniteSet(entries)
  BY <1>0, <1>1, FS_AddElement DEF Passing
<1>5. dirp.stat > 0 => /\ dirp'.handle \subseteq Dots \cup File
                       /\ dirp'.handle \subseteq entries' \cup removed
                       /\ IsFiniteSet(dirp'.handle)
  <2> SUFFICES ASSUME dirp.stat > 0
               PROVE  /\ dirp'.handle \subseteq Dots \cup File
                      /\ dirp'.handle \subseteq entries' \cup removed
                      /\ IsFiniteSet(dirp'.handle)
    OBVIOUS
  <2>1. /\ IsFiniteSet(dirp.handle) /\ dirp.handle \subseteq Dots \cup File
        /\ dirp.handle \subseteq entries \cup removed
    BY <1>0 DEF Passing
  <2>2. IsFiniteSet(dirp.handle \cup {n})
    BY <2>1, FS_AddElement
  <2> QED BY <1>1, <1>3, <2>1, <2>2
<1>6. Passing'
  <2>1. entries' \subseteq Dots \cup File /\ Range(files) \subseteq entries' \cup removed
    BY <1>0, <1>1 DEF Passing
  <2>2. pcN = "open" => dirp' = OpenDir
    BY <1>0, <1>2 DEF Passing, OpenDir
  <2>3. dirp.stat <= 0 => dirp'.handle = NoHandle
    BY <1>0, <1>3 DEF Passing
  <2>4. pcN \in {"listed", "failed"} => dirp'.handle = NoHandle
    <3>1. dirp.stat > 0 => dirp.handle # NoHandle
      <4>1. -1 \in NoHandle /\ -1 \notin Dots \cup File
        BY NamesAssumption DEF NoHandle
      <4> QED BY <1>0, <4>1 DEF Passing
    <3> QED BY <1>0, <1>3, <3>1 DEF Passing
  <2> QED BY <1>0, <1>1, <1>3, <1>4, <1>5, <2>1, <2>2, <2>3, <2>4 DEF Passing
<1>7. RoomForAll' /\ NamesPassed'
  BY <1>1 DEF RoomForAll, NamesPassed
<1>8. FileForEach'
  <2>1. Passed \subseteq Passed' /\ Listing \subseteq Listing' /\ Ahead \subseteq Ahead'
    BY <1>1, <1>3 DEF Passed, Listing, Ahead
  <2>2. IsFiniteSet(Passed') /\ IsFiniteSet(Listing')
    <3>1. Passed' \subseteq entries' /\ Listing' \subseteq entries'
      BY DEF Passed, Listing
    <3> QED BY <1>4, <3>1, Smaller
  <2>3. dirp.stat > 0 => IsFiniteSet(Ahead')
    <3>1. Ahead' \subseteq dirp'.handle
      BY DEF Ahead
    <3> QED BY <1>5, <3>1, Smaller
  <2>4. /\ Cardinality(Passed) \in Nat /\ Cardinality(Passed') \in Nat
        /\ Cardinality(Passed) <= Cardinality(Passed')
        /\ Cardinality(Listing) \in Nat /\ Cardinality(Listing') \in Nat
        /\ Cardinality(Listing) <= Cardinality(Listing')
    BY <2>1, <2>2, Smaller
  <2>5. dirp.stat > 0 => /\ Cardinality(Ahead) \in Nat /\ Cardinality(Ahead') \in Nat
                         /\ Cardinality(Ahead) <= Cardinality(Ahead')
    BY <2>1, <2>3, Smaller
  <2> QED BY <1>0, <1>1, <1>3, <2>4, <2>5 DEF FileForEach
<1> QED BY <1>6, <1>7, <1>8 DEF NamesInv

LEMMA DeleteKeepsNames ==
    ASSUME NamesInv, NEW n \in File, Delete(n)
    PROVE  NamesInv'
<1>0. /\ Passing /\ RoomForAll /\ dirp.stat \in Int /\ count \in Nat
      /\ files \in Seq(File) /\ Len(files) \in Nat
  BY DEF NamesInv, Passing
<1>1. /\ UNCHANGED <<pcN, count, files, missed, added>>
      /\ Range(files)' = Range(files)
      /\ n \in entries /\ entries' = entries \ {n}
      /\ removed' = removed \cup {n} /\ changes' \in Nat /\ changes' # 0
      /\ dirp' \in Noticing(dirp, n, FALSE)
  <2>1. /\ UNCHANGED <<pcN, count, files, missed, added>>
        /\ changes' = changes + 1
        /\ dirp' \in Noticing(dirp, n, FALSE)
    BY DEF Delete
  <2>2. changes' \in Nat /\ changes' # 0
    BY <1>0, <2>1 DEF Passing
  <2>3. Range(files)' = Range(files)
    BY <2>1
  <2> QED BY <2>1, <2>2, <2>3 DEF Delete
<1>2. \/ dirp' = dirp
      \/ dirp.stat > 0 /\ dirp' = [stat |-> dirp.stat, handle |-> dirp.handle \ {n}]
  BY <1>0, <1>1, Notices
<1>3. /\ dirp' = [stat |-> dirp'.stat, handle |-> dirp'.handle]
      /\ dirp'.stat = dirp.stat
      /\ \/ dirp'.handle = dirp.handle
         \/ dirp.stat > 0 /\ dirp'.handle = dirp.handle \ {n}
  <2>1. CASE dirp' = dirp
    BY <1>0, <2>1 DEF Passing
  <2>2. CASE dirp' # dirp
    BY <1>2, <2>2
  <2> QED BY <2>1, <2>2
<1>4. IsFiniteSet(entries') /\ IsFiniteSet(entries)
  BY <1>0, <1>1, Smaller DEF Passing
<1>5. dirp.stat > 0 => /\ dirp'.handle \subseteq Dots \cup File
                       /\ dirp'.handle \subseteq entries' \cup removed'
                       /\ IsFiniteSet(dirp'.handle) /\ IsFiniteSet(dirp.handle)
  <2>1. dirp.stat > 0 => IsFiniteSet(dirp.handle) /\ dirp'.handle \subseteq dirp.handle
    BY <1>0, <1>3 DEF Passing
  <2>2. dirp.stat > 0 => IsFiniteSet(dirp'.handle)
    BY <2>1, Smaller
  <2> QED BY <1>0, <1>1, <2>1, <2>2 DEF Passing
<1>6. Passing'
  <2>1. entries' \subseteq Dots \cup File /\ Range(files) \subseteq entries' \cup removed'
    BY <1>0, <1>1 DEF Passing
  <2>2. pcN = "open" => dirp' = OpenDir
    BY <1>0, <1>2 DEF Passing, OpenDir
  <2>3. dirp.stat <= 0 => dirp'.handle = NoHandle
    BY <1>0, <1>3 DEF Passing
  <2>4. pcN \in {"listed", "failed"} => dirp'.handle = NoHandle
    <3>1. dirp.stat > 0 => dirp.handle # NoHandle
      <4>1. -1 \in NoHandle /\ -1 \notin Dots \cup File
        BY NamesAssumption DEF NoHandle
      <4> QED BY <1>0, <4>1 DEF Passing
    <3> QED BY <1>0, <1>3, <3>1 DEF Passing
  <2> QED BY <1>0, <1>1, <1>3, <1>4, <1>5, <2>1, <2>2, <2>3, <2>4 DEF Passing
<1>7. FileForEach' /\ NamesPassed'
  <2>1. removed' # {}
    BY <1>1
  <2> QED BY <1>1, <2>1 DEF FileForEach, NamesPassed
<1>8. RoomForAll'
  <2>1. Passed' \subseteq Passed /\ Listing' \subseteq Listing /\ Ahead' \subseteq Ahead
    BY <1>1, <1>3 DEF Passed, Listing, Ahead
  <2>2. IsFiniteSet(Passed) /\ IsFiniteSet(Listing)
    <3>1. Passed \subseteq entries /\ Listing \subseteq entries
      BY DEF Passed, Listing
    <3> QED BY <1>4, <3>1, Smaller
  <2>3. dirp.stat > 0 => IsFiniteSet(Ahead)
    <3>1. Ahead \subseteq dirp.handle
      BY DEF Ahead
    <3> QED BY <1>5, <3>1, Smaller
  <2>4. /\ Cardinality(Passed) \in Nat /\ Cardinality(Passed') \in Nat
        /\ Cardinality(Passed') <= Cardinality(Passed)
        /\ Cardinality(Listing) \in Nat /\ Cardinality(Listing') \in Nat
        /\ Cardinality(Listing') <= Cardinality(Listing)
    BY <2>1, <2>2, Smaller
  <2>5. dirp.stat > 0 => /\ Cardinality(Ahead) \in Nat /\ Cardinality(Ahead') \in Nat
                         /\ Cardinality(Ahead') <= Cardinality(Ahead)
    BY <2>1, <2>3, Smaller
  <2> QED BY <1>0, <1>1, <1>3, <2>4, <2>5 DEF RoomForAll
<1> QED BY <1>6, <1>7, <1>8 DEF NamesInv

LEMMA NamesStepKeeps ==
    ASSUME NamesInv, [DirectoryStep \/ Environment]_directoryVars
    PROVE  NamesInv'
<1>1. CASE UNCHANGED directoryVars \/ Call \/ CallOnUnset \/ Threads
  <2>1. UNCHANGED namesVars
    BY <1>1 DEF directoryVars, Call, CallOnUnset, Threads
  <2> QED BY <2>1, NamesUnchanged
<1>2. CASE Names
  BY <1>2, BetweenPasses, CountedKeepsNames, ListedKeepsNames, EndKeepsNames
     DEF Names, NamesStep
<1>3. CASE Environment
  BY <1>3, AddKeepsNames, DeleteKeepsNames DEF Environment, Others
<1> QED BY <1>1, <1>2, <1>3 DEF DirectoryStep

\* ph_readfilenames over dirent.c: while nobody changes the directory and no
\* readdir fails, the names are those of its files, each once, and count is
\* their number; a name is written behind the array only after a file was added
\* or the first pass broke off, and one is left unwritten only after a file was
\* removed; and no find handle stays open.
THEOREM DirectoryIsListed == DirectorySpec => []ListsDirectory
<1>1. NamesInv => ListsDirectory
  <2> SUFFICES ASSUME NamesInv PROVE ListsDirectory
    OBVIOUS
  <2>1. Passing /\ RoomForAll /\ FileForEach /\ NamesPassed
    BY DEF NamesInv
  <2>2. pcN = "listed" /\ changes = 0 /\ ~missed =>
            count = Len(files) /\ Range(files) = Listing /\ Cardinality(Listing) = count
    <3> SUFFICES ASSUME pcN = "listed", changes = 0, ~missed
                 PROVE  count = Len(files) /\ Range(files) = Listing /\ Cardinality(Listing) = count
      OBVIOUS
    <3>1. added = {} /\ removed = {} /\ Len(files) <= count /\ count \in Nat
          /\ Len(files) \in Nat /\ IsFiniteSet(entries)
      BY <2>1 DEF Passing
    <3>2. Cardinality(Listing) \in Nat
      <4>1. Listing \subseteq entries
        BY DEF Listing
      <4> QED BY <3>1, <4>1, Smaller
    <3>3. Cardinality(Listing) <= count
      BY <2>1, <3>1 DEF RoomForAll
    <3>4. count <= Cardinality(Listing) /\ count <= Len(files)
      BY <2>1, <3>1 DEF FileForEach
    <3>5. Range(files) = Listing
      BY <2>1 DEF NamesPassed
    <3> QED BY <3>1, <3>2, <3>3, <3>4, <3>5
  <2>3. pcN = "undefined" => added # {} \/ missed
    BY <2>1 DEF RoomForAll
  <2>4. pcN = "listed" /\ Len(files) < count => removed # {}
    BY <2>1 DEF FileForEach, Passing
  <2>5. pcN \in {"failed", "listed"} => dirp.handle = NoHandle
    BY <2>1 DEF Passing
  <2> QED BY <2>2, <2>3, <2>4, <2>5 DEF ListsDirectory
<1> QED BY InitNames, NamesStepKeeps, <1>1, PTL DEF DirectorySpec

-----------------------------------------------------------------------------
(* What the threads make.                                                  *)

LEMMA BeforeGrows ==
    ASSUME NEW cnt \in Nat, NEW t \in Nat \ {0}, NEW m \in Nat, NEW n \in Nat, m <= n
    PROVE  Before(cnt, t, m) <= Before(cnt, t, n)
<1> DEFINE q == cnt \div t
           r == Rem(cnt, t)
           a == IF m < r THEN m ELSE r
           b == IF n < r THEN n ELSE r
<1>1. q \in Nat /\ r \in 0..(t - 1)
  BY Division
<1> HIDE DEF q, r
<1>2. a \in Nat /\ b \in Nat /\ a <= b /\ t - r \in Nat
  BY <1>1
<1>3. Before(cnt, t, m) = m * q + a * (t - r) /\ Before(cnt, t, n) = n * q + b * (t - r)
  BY DEF Before, q, r
<1> HIDE DEF a, b
<1>4. m * q \in Nat /\ n * q \in Nat /\ m * q <= n * q
  BY <1>1, ProductMonotonic
<1>5. a * (t - r) \in Nat /\ b * (t - r) \in Nat /\ a * (t - r) <= b * (t - r)
  BY <1>2, ProductMonotonic
<1> QED BY <1>3, <1>4, <1>5

LEMMA BeforeEnds ==
    ASSUME NEW cnt \in Nat, NEW t \in Nat \ {0}
    PROVE  /\ Before(cnt, t, 0) = 0
           /\ Fits(cnt, t) => Before(cnt, t, t) = cnt
<1> DEFINE q == cnt \div t
           r == Rem(cnt, t)
<1>1. q \in Nat /\ r \in 0..(t - 1) /\ cnt = t * q + r
  BY Division
<1>2. Fits(cnt, t) => r = 0 \/ t - r = 1
  BY <1>1 DEF Fits
<1> HIDE DEF q, r
<1>3. 0 * q = 0 /\ 0 * (t - r) = 0 /\ t * q \in Nat
  BY <1>1
<1>4. Before(cnt, t, 0) = 0
  BY <1>1, <1>3 DEF Before, q, r
<1>5. Before(cnt, t, t) = t * q + r * (t - r)
  BY <1>1 DEF Before, q, r
<1>6. r = 0 \/ t - r = 1 => r * (t - r) = r
  BY <1>1
<1> QED BY <1>1, <1>2, <1>3, <1>4, <1>5, <1>6

\* If the slices fit, each name is in one of them.
LEMMA SlicesCover ==
    ASSUME NEW cnt \in Nat, NEW t \in Nat \ {0}, Fits(cnt, t), NEW k \in 0..(cnt - 1)
    PROVE  \E n \in 0..(t - 1) :
              Before(cnt, t, n) <= k /\ k < Before(cnt, t, n) + Off(cnt, t, n)
<1> DEFINE T == {n \in Nat : k < Before(cnt, t, n)}
<1>1. t \in T
  BY BeforeEnds
<1>2. PICK n \in T : \A m \in T : n <= m
  BY <1>1, Least
<1>3. n # 0
  BY BeforeEnds
<1>4. n - 1 \in Nat /\ n - 1 \notin T /\ n <= t /\ (n - 1) + 1 = n
  BY <1>1, <1>2, <1>3
<1>5. /\ Before(cnt, t, n) = Before(cnt, t, n - 1) + Off(cnt, t, n - 1)
      /\ Before(cnt, t, n - 1) \in Nat
  BY <1>4, BeforeNext
<1>6. n - 1 \in 0..(t - 1)
  BY <1>2, <1>4
<1> QED BY <1>2, <1>4, <1>5, <1>6

LEMMA SlicesApart ==
    ASSUME Sliced, NEW m \in 0..(made - 1), NEW n \in 0..(made - 1), m # n
    PROVE  Made(m) \cap Made(n) = {}
<1>1. ASSUME NEW i \in 0..(made - 1), NEW j \in 0..(made - 1), i < j
      PROVE  Made(i) \cap Made(j) = {}
  <2>1. /\ size \in Nat /\ threads \in Nat \ {0} /\ made \in Nat
        /\ i \in Nat /\ j \in Nat /\ i + 1 <= j
        /\ start[i] = Before(size, threads, i) /\ start[j] = Before(size, threads, j)
        /\ progress[i] <= Off(size, threads, i)
        /\ progress[i] \in Nat /\ progress[j] \in Nat
    BY <1>1 DEF Sliced
  <2>2. /\ start[i] \in Nat /\ start[j] \in Nat /\ Off(size, threads, i) \in Nat
        /\ Before(size, threads, i + 1) = start[i] + Off(size, threads, i)
    <3>1. Before(size, threads, i) \in Nat /\ Before(size, threads, j) \in Nat
      BY <2>1, BeforeNext
    <3>2. Before(size, threads, i + 1)
            = Before(size, threads, i) + Off(size, threads, i)
      BY <2>1, BeforeNext
    <3>3. Off(size, threads, i) \in Nat
      BY <2>1, OffIsNat
    <3> QED BY <2>1, <3>1, <3>2, <3>3
  <2>3. start[i] + Off(size, threads, i) <= start[j]
    BY <2>1, <2>2, BeforeGrows
  <2>4. start[i] + progress[i] <= start[j]
    BY <2>1, <2>2, <2>3
  <2> QED BY <2>1, <2>2, <2>4 DEF Made
<1>2. m < n \/ n < m
  BY DEF Sliced
<1> QED BY <1>1, <1>2

\* What is in hashes[k]: made of the picture beside it, or of nothing.
AsListed(k) ==
    /\ k \in 0..(size - 1)
    /\ \/ hashes[k] = files[k + 1] /\ files[k + 1] \in Picture
       \/ hashes[k] = Garbage /\ files[k + 1] \notin Picture \ (removed \cup Locked)

HashesInv ==
    /\ pcH = "idle" => hashes = <<>>
    /\ pcH \in {"create", "hashed"} =>
          /\ Sliced
          /\ size = count /\ Len(files) = count
          /\ DOMAIN hashes = UNION {Made(n) : n \in 0..(made - 1)}
          /\ \A k \in DOMAIN hashes : AsListed(k)
    /\ pcH = "hashed" => made = threads /\ \A n \in 0..(made - 1) : Finished(n)

\* When others change the directory what was listed stays so.
LEMMA HashesUndisturbed ==
    ASSUME HashesInv, UNCHANGED <<threadVars, count, files>>, removed \subseteq removed'
    PROVE  HashesInv'
<1>1. UNCHANGED <<pcH, size, threads, made, start, progress, hashes, count, files>>
  BY DEF threadVars
<1>2. (Sliced => Sliced') /\ (\A n : Made(n)' = Made(n)) /\ (\A n : Finished(n)' = Finished(n))
  BY <1>1 DEF Sliced, Made, Finished
<1>3. UNION {Made(n) : n \in 0..(made - 1)}' = UNION {Made(n) : n \in 0..(made - 1)}
  BY <1>1, <1>2
<1>4. \A k : AsListed(k) => AsListed(k)'
  BY <1>1 DEF AsListed
<1>5. pcH \in {"create", "hashed"} => \A k \in DOMAIN hashes' : AsListed(k)'
  BY <1>1, <1>4 DEF HashesInv
<1> QED BY <1>1, <1>2, <1>3, <1>5 DEF HashesInv

LEMMA CreateKeepsHashes ==
    ASSUME SlicesInv, HashesInv, Create, UNCHANGED namesVars
    PROVE  HashesInv'
<1>0. Sliced /\ Sliced' /\ pcH = "create" /\ pcH' = "create"
  <2>1. SlicesInv'
    BY CreateKeepsSlices
  <2>2. pcH = "create" /\ pcH' = "create"
    BY DEF Create
  <2> QED BY <2>1, <2>2 DEF SlicesInv
<1> PICK m \in Nat : m = made
  BY <1>0 DEF Sliced
<1>1. /\ size' = size /\ threads' = threads /\ hashes' = hashes /\ count' = count
      /\ files' = files /\ removed' = removed /\ made' = m + 1
  BY DEF Create, namesVars, names, others
<1>2. ASSUME NEW n \in 0..(m - 1) PROVE Made(n)' = Made(n)
  <2>1. n \in 0..m /\ n # m
    OBVIOUS
  <2>2. start'[n] = start[n] /\ progress'[n] = progress[n]
    BY <2>1 DEF Create
  <2> QED BY <2>2 DEF Made
<1>3. Made(m)' = {}
  <2>1. m \in 0..(made' - 1)
    BY <1>1
  <2>2. start'[m] = Before(size, threads, m) /\ size \in Nat /\ threads \in Nat \ {0}
    BY <1>0, <1>1, <2>1 DEF Sliced
  <2>3. start'[m] \in Nat
    BY <2>2, BeforeNext
  <2>4. progress'[m] = 0
    BY DEF Create
  <2> QED BY <2>3, <2>4 DEF Made
<1>4. UNION {Made(n) : n \in 0..(made - 1)}' = UNION {Made(n) : n \in 0..(made - 1)}
  <2>1. ASSUME NEW k PROVE (\E n \in 0..m : k \in Made(n)') <=> \E n \in 0..(m - 1) : k \in Made(n)
    <3>1. \A n \in 0..m : n = m \/ n \in 0..(m - 1)
      OBVIOUS
    <3>2. \A n \in 0..(m - 1) : n \in 0..m
      OBVIOUS
    <3> QED BY <1>2, <1>3, <3>1, <3>2
  <2>2. UNION {Made(n)' : n \in 0..m} = UNION {Made(n) : n \in 0..(m - 1)}
    BY <2>1
  <2>3. made' - 1 = m
    BY <1>1
  <2> QED BY <2>2, <2>3
<1>5. ASSUME NEW k \in DOMAIN hashes' PROVE AsListed(k)'
  BY <1>0, <1>1 DEF HashesInv, AsListed
<1> QED BY <1>0, <1>1, <1>4, <1>5 DEF HashesInv

LEMMA JoinedKeepsHashes ==
    ASSUME HashesInv, Joined, UNCHANGED namesVars
    PROVE  HashesInv'
<1>1. /\ UNCHANGED <<size, threads, made, start, progress, hashes, count, files, removed>>
      /\ pcH = "create" /\ pcH' = "hashed" /\ made = threads
      /\ \A n \in 0..(made - 1) : Finished(n)
  BY DEF Joined, namesVars, names, others
<1>2. (Sliced => Sliced') /\ (\A n : Made(n)' = Made(n)) /\ (\A n : Finished(n)' = Finished(n))
  BY <1>1 DEF Sliced, Made, Finished
<1>3. UNION {Made(n) : n \in 0..(made - 1)}' = UNION {Made(n) : n \in 0..(made - 1)}
  BY <1>1, <1>2
<1>4. \A k \in DOMAIN hashes' : AsListed(k)'
  BY <1>1 DEF HashesInv, AsListed
<1> QED BY <1>1, <1>2, <1>3, <1>4 DEF HashesInv

\* A picture that is listed and does not load was removed, or is locked.
LEMMA HashKeepsHashes ==
    ASSUME Passing, SlicesInv, HashesInv, UNCHANGED namesVars, pcH = "create",
           NEW n \in 0..(made - 1), NEW name,
           name = (IF start[n] + progress[n] < Len(files)
                   THEN files[start[n] + progress[n] + 1] ELSE Garbage),
           NEW loaded \in Loads(name), Turn(n, IF loaded THEN name ELSE Garbage)
    PROVE  HashesInv'
<1> DEFINE i == start[n] + progress[n]
           value == IF loaded THEN name ELSE Garbage
<1>1. UNCHANGED <<size, threads, made, start, count, files, removed, entries>>
  BY DEF Turn, namesVars, names, others
<1>2. Sliced /\ size = count /\ Len(files) = count
  BY DEF HashesInv
<1>3. /\ n \in Nat /\ start[n] \in Nat /\ progress[n] \in Nat /\ i \in Nat /\ size \in Nat
      /\ files \in Seq(File)
  <2>1. n \in Nat /\ progress[n] \in Nat /\ size \in Nat /\ threads \in Nat \ {0}
        /\ start[n] = Before(size, threads, n)
    BY <1>2 DEF Sliced
  <2>2. start[n] \in Nat
    BY <2>1, BeforeNext
  <2> QED BY <2>1, <2>2 DEF Passing
<1>4. CASE i < size
  <2>1. /\ pcH' = pcH
        /\ hashes' = [k \in DOMAIN hashes \cup {i} |-> IF k = i THEN value ELSE hashes[k]]
        /\ progress' = [progress EXCEPT ![n] = @ + 1]
    BY <1>4 DEF Turn
  <2> HIDE DEF value
  <2>2. Sliced'
    <3> DEFINE given == IF loaded THEN name ELSE Garbage
    <3>1. Turn(n, given)
      OBVIOUS
    <3> HIDE DEF given
    <3>2. SlicesInv'
      BY <3>1, HashKeepsSlices
    <3> QED BY <2>1, <3>2 DEF SlicesInv
  <2>3. progress'[n] = progress[n] + 1 /\ \A m \in 0..(made - 1) : m # n => progress'[m] = progress[m]
    BY <1>2, <2>1 DEF Sliced
  <2>4. Made(n)' = Made(n) \cup {i}
    <3>1. start'[n] = start[n] /\ progress'[n] = progress[n] + 1
      BY <1>1, <2>3
    <3> QED BY <1>3, <3>1 DEF Made
  <2>5. \A m \in 0..(made - 1) : m # n => Made(m)' = Made(m)
    BY <1>1, <2>3 DEF Made
  <2>6. DOMAIN hashes' = UNION {Made(m) : m \in 0..(made - 1)}'
    <3>1. DOMAIN hashes' = DOMAIN hashes \cup {i}
      BY <2>1
    <3>2. DOMAIN hashes = UNION {Made(m) : m \in 0..(made - 1)}
      BY DEF HashesInv
    <3> DEFINE was == UNION {Made(m) : m \in 0..(made - 1)}
               is == UNION {Made(m)' : m \in 0..(made - 1)}
    <3>3. is = was \cup {i}
      <4>1. ASSUME NEW k PROVE k \in is <=> k \in was \/ k = i
        <5>1. k \in is <=> \E m \in 0..(made - 1) : k \in Made(m)'
          OBVIOUS
        <5>2. k \in was <=> \E m \in 0..(made - 1) : k \in Made(m)
          OBVIOUS
        <5> HIDE DEF is, was
        <5>3. ASSUME NEW m \in 0..(made - 1)
              PROVE  k \in Made(m)' <=> k \in Made(m) \/ (m = n /\ k = i)
          BY <2>4, <2>5
        <5> QED BY <5>1, <5>2, <5>3
      <4> HIDE DEF is, was
      <4> QED BY <4>1
    <3>4. UNION {Made(m) : m \in 0..(made - 1)}' = is
      BY <1>1
    <3> QED BY <3>1, <3>2, <3>3, <3>4
  <2>7. ASSUME NEW k \in DOMAIN hashes' PROVE AsListed(k)'
    <3>1. CASE k = i
      <4>1. i \in 0..(size - 1) /\ i < Len(files) /\ i + 1 \in 1..Len(files)
        BY <1>2, <1>3, <1>4
      <4>2. name = files[i + 1]
        BY <4>1
      <4>3. files[i + 1] \in entries \cup removed
        BY <1>3, <4>1 DEF Passing, Range
      <4>4. hashes'[i] = value
        BY <2>1
      <4>5. \/ hashes'[i] = files[i + 1] /\ files[i + 1] \in Picture
            \/ hashes'[i] = Garbage /\ files[i + 1] \notin Picture \ (removed \cup Locked)
        <5>1. CASE loaded
          <6>1. name \in Picture
            BY <5>1 DEF Loads
          <6> QED BY <4>2, <4>4, <5>1, <6>1 DEF value
        <5>2. CASE ~loaded
          <6>1. name \notin entries \cap Picture \/ name \in Locked
            BY <5>2 DEF Loads
          <6> QED BY <4>2, <4>3, <4>4, <5>2, <6>1 DEF value
        <5> QED BY <5>1, <5>2
      <4> QED BY <1>1, <3>1, <4>1, <4>5 DEF AsListed
    <3>2. CASE k # i
      <4>1. k \in DOMAIN hashes /\ hashes'[k] = hashes[k]
        BY <2>1, <3>2
      <4>2. AsListed(k)
        BY <4>1 DEF HashesInv
      <4> QED BY <1>1, <4>1, <4>2 DEF AsListed
    <3> QED BY <3>1, <3>2
  <2> QED BY <1>1, <1>2, <2>1, <2>2, <2>6, <2>7 DEF HashesInv
<1>5. CASE ~(i < size)
  BY <1>5 DEF Turn, HashesInv
<1> QED BY <1>4, <1>5

LEMMA StepKeepsHashes ==
    ASSUME Passing, SlicesInv, HashesInv, [DirectoryStep \/ Environment]_directoryVars
    PROVE  HashesInv'
<1>1. CASE Environment \/ UNCHANGED directoryVars
  <2>1. UNCHANGED <<threadVars, count, files>> /\ removed \subseteq removed'
    BY <1>1 DEF Environment, Others, Add, Delete, directoryVars, namesVars, names, others
  <2> QED BY <2>1, HashesUndisturbed
<1>2. CASE Names
  <2>1. UNCHANGED <<pcH, hashes>> /\ pcN # "listed"
    BY <1>2 DEF Names, NamesStep, Opened, NotFound, Counted, Alloc, NoMemory,
                ListedName, ListEnds, threadVars
  <2>2. pcH = "idle"
    BY <2>1 DEF SlicesInv
  <2> QED BY <2>1, <2>2 DEF HashesInv
<1>3. CASE CallOnUnset
  BY <1>3 DEF CallOnUnset, HashesInv
<1>4. CASE Call
  <2>1. PICK asked \in ThreadChoices : CallHashes(count, asked)
    BY <1>4 DEF Call
  <2>2. /\ pcH = "idle" /\ hashes = <<>> /\ made = 0 /\ count' = count /\ files' = files
        /\ Len(files) = count
    BY <1>4, <2>1 DEF Call, CallHashes, HashesInv, SlicesInv, namesVars, names
  <2>3. CASE pcH' = "none"
    BY <2>3 DEF HashesInv
  <2>4. CASE pcH' = "create"
    <3>1. SlicesInv'
      BY <1>4, CallKeepsSlices
    <3>2. Sliced'
      BY <2>4, <3>1 DEF SlicesInv
    <3>3. size' = count /\ made' = 0 /\ hashes' = <<>>
      BY <2>1, <2>2 DEF CallHashes
    <3>4. DOMAIN hashes' = {} /\ 0..(made' - 1) = {}
      BY <3>3
    <3>5. UNION {Made(n) : n \in 0..(made - 1)}' = {}
      BY <3>4
    <3> QED BY <2>2, <2>4, <3>2, <3>3, <3>4, <3>5 DEF HashesInv
  <2> QED BY <2>1, <2>3, <2>4 DEF CallHashes
<1>5. CASE Threads
  <2>1. UNCHANGED namesVars
    BY <1>5 DEF Threads
  <2>2. CASE Create
    BY <2>1, <2>2, CreateKeepsHashes
  <2>3. CASE Joined
    BY <2>1, <2>3, JoinedKeepsHashes
  <2>4. ASSUME NEW n \in 0..(made - 1), NEW name,
               name = (IF start[n] + progress[n] < Len(files)
                       THEN files[start[n] + progress[n] + 1] ELSE Garbage),
               NEW loaded \in Loads(name), Hash(n, name, loaded)
        PROVE  HashesInv'
    BY <2>1, <2>4, HashKeepsHashes DEF Hash
  <2> QED BY <1>5, <2>2, <2>3, <2>4 DEF Threads
<1> QED BY <1>1, <1>2, <1>3, <1>4, <1>5 DEF DirectoryStep

\* ph_dct_image_hashes over a listing that others make stale: no two threads
\* ever hash the same name, and when the call returns there is a hash beside
\* each name, made of that file, a picture, or of what was on the stack if the
\* file is no picture, or was removed or can be locked, for any number of names
\* and threads.
THEOREM HashesAreAsListed == DirectorySpec => []HashesAsListed
<1> DEFINE Inv == NamesInv /\ SlicesInv /\ HashesInv
<1>1. DirectoryBegin => Inv
  <2>1. DirectoryBegin => HashesInv
    BY DEF DirectoryBegin, HashThreadsIdle, HashesInv
  <2> QED BY <2>1, InitNames, InitSlices
<1>2. Inv /\ [DirectoryStep \/ Environment]_directoryVars => Inv'
  BY NamesStepKeeps, StepKeepsSlices, StepKeepsHashes DEF NamesInv
<1>3. Inv => HashesAsListed
  <2> SUFFICES ASSUME SlicesInv, HashesInv PROVE HashesAsListed
    OBVIOUS
  <2>1. ASSUME pcH \in {"create", "hashed"}
        PROVE  /\ DOMAIN hashes = UNION {Made(n) : n \in 0..(made - 1)}
               /\ \A m, n \in 0..(made - 1) : m # n => Made(m) \cap Made(n) = {}
    BY <2>1, SlicesApart DEF HashesInv
  <2>2. ASSUME pcH = "hashed"
        PROVE  /\ DOMAIN hashes = 0..(count - 1)
               /\ \A i \in 0..(count - 1) :
                    \/ hashes[i] = files[i + 1] /\ files[i + 1] \in Picture
                    \/ /\ hashes[i] = Garbage
                       /\ files[i + 1] \notin Picture \ (removed \cup Locked)
    <3>1. /\ Sliced /\ size = count /\ made = threads /\ Fits(size, threads)
          /\ size \in Nat /\ threads \in Nat \ {0}
          /\ \A n \in 0..(made - 1) : Finished(n)
          /\ \A k \in DOMAIN hashes : AsListed(k)
      BY <2>2 DEF HashesInv, SlicesInv, Sliced
    <3>2. ASSUME NEW k \in 0..(count - 1) PROVE k \in DOMAIN hashes
      <4>1. PICK n \in 0..(threads - 1) :
                Before(size, threads, n) <= k
                /\ k < Before(size, threads, n) + Off(size, threads, n)
        BY <3>1, SlicesCover
      <4>2. n \in 0..(made - 1) /\ start[n] = Before(size, threads, n)
            /\ progress[n] = Off(size, threads, n)
        BY <3>1 DEF Sliced, Finished
      <4>3. Before(size, threads, n) \in Nat /\ Off(size, threads, n) \in Nat
        <5>1. n \in Nat
          BY <4>1
        <5> QED BY <3>1, <5>1, BeforeNext, OffIsNat
      <4>4. k \in Made(n)
        BY <4>1, <4>2, <4>3 DEF Made
      <4> QED BY <2>1, <2>2, <4>2, <4>4
    <3>3. \A k \in DOMAIN hashes : k \in 0..(count - 1)
      BY <3>1 DEF AsListed
    <3> QED BY <3>1, <3>2, <3>3 DEF AsListed
  <2> QED BY <2>1, <2>2 DEF HashesAsListed
<1> QED BY <1>1, <1>2, <1>3, PTL DEF DirectorySpec

=============================================================================
