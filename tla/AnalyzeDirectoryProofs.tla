----------------------- MODULE AnalyzeDirectoryProofs -----------------------
(***************************************************************************)
(* Theorems about AnalyzeDirectory: for every disk, every number of runs,  *)
(* of changes by the user and of crashes, what the list file may bring     *)
(* into a list of images.                                                  *)
(***************************************************************************)
EXTENDS AnalyzeDirectory, ListLemmas, ImageFileProofs, TLAPS

StoredRecord == [name : Name, img : Image, whole : BOOLEAN]
Entry == [name : Name, img : Image]

-----------------------------------------------------------------------------
(* The list file.                                                          *)

LEMMA NoneIsNoImage == None \notin Image
  BY DEF None, Image

\* What SaveList leaves: k whole records, and perhaps a part of the next.
LEMMA SavedIs ==
    ASSUME NEW list \in Seq(Entry), NEW k \in 0..Len(list), NEW torn \in BOOLEAN
    PROVE  /\ Saved(list, k, torn) \in Seq(StoredRecord)
           /\ Len(Saved(list, k, torn)) \in {k, k + 1}
           /\ \A i \in 1..Len(Saved(list, k, torn)) :
                 /\ i \in 1..Len(list)
                 /\ Saved(list, k, torn)[i] = IF i <= k THEN Record(list[i]) ELSE Torn(list[i])
<1> DEFINE a == [i \in 1..k |-> Record(list[i])]
           b == IF torn /\ k < Len(list) THEN <<Torn(list[k + 1])>> ELSE <<>>
<1>0. Len(list) \in Nat /\ k \in Nat /\ \A i \in 1..Len(list) : list[i] \in Entry
  OBVIOUS
<1>1. ASSUME NEW e \in Entry PROVE Record(e) \in StoredRecord /\ Torn(e) \in StoredRecord
  <2>1. 0 \in Hash
    BY HashAssumption
  <2>2. [i \in Turn |-> 0] \in [Turn -> Hash]
    BY <2>1
  <2>3. e.name \in Name /\ e.img \in Image
    BY DEF Entry
  <2>4. [e.img EXCEPT !.iHash = Blank.iHash] \in Image
    BY <2>2, <2>3 DEF Image, Blank
  <2> QED BY <2>3, <2>4 DEF Record, Torn, StoredRecord
<1>2. Saved(list, k, torn) = a \o b
  BY DEF Saved
<1>3. a \in Seq(StoredRecord) /\ Len(a) = k /\ \A i \in 1..k : a[i] = Record(list[i])
  <2>1. \A i \in 1..k : Record(list[i]) \in StoredRecord
    BY <1>0, <1>1
  <2> QED BY <1>0, <2>1
<1>4. /\ b \in Seq(StoredRecord)
      /\ \/ Len(b) = 0
         \/ Len(b) = 1 /\ k + 1 \in 1..Len(list) /\ b[1] = Torn(list[k + 1])
  <2>1. CASE torn /\ k < Len(list)
    <3>1. b = <<Torn(list[k + 1])>> /\ k + 1 \in 1..Len(list)
      BY <1>0, <2>1
    <3>2. Torn(list[k + 1]) \in StoredRecord
      BY <1>0, <1>1, <3>1
    <3> HIDE DEF b
    <3> QED BY <3>1, <3>2
  <2>2. CASE ~(torn /\ k < Len(list))
    BY <2>2
  <2> QED BY <2>1, <2>2
<1> HIDE DEF a, b
<1>c. PICK aa \in Seq(StoredRecord) : aa = a
  BY <1>3
<1>d. PICK bb \in Seq(StoredRecord) : bb = b
  BY <1>4
<1>5. /\ aa \o bb \in Seq(StoredRecord)
      /\ Len(aa \o bb) = Len(aa) + Len(bb)
      /\ \A i \in 1..(Len(aa) + Len(bb)) :
            (aa \o bb)[i] = IF i <= Len(aa) THEN aa[i] ELSE bb[i - Len(aa)]
  OBVIOUS
<1>7. PICK n \in {0, 1} : Len(bb) = n /\ (n = 1 => k + 1 \in 1..Len(list) /\ bb[1] = Torn(list[k + 1]))
  BY <1>4, <1>d
<1>8. Len(aa) = k /\ \A i \in 1..k : aa[i] = Record(list[i])
  BY <1>3, <1>c
<1>6. ASSUME NEW i \in 1..(k + n)
      PROVE  /\ i \in 1..Len(list)
             /\ (aa \o bb)[i] = IF i <= k THEN Record(list[i]) ELSE Torn(list[i])
  <2>1. CASE i <= k
    BY <1>0, <1>5, <1>7, <1>8, <2>1
  <2>2. CASE ~(i <= k)
    <3>1. n = 1 /\ i = k + 1 /\ i - k = 1
      BY <1>0, <2>2
    <3> QED BY <1>0, <1>5, <1>7, <1>8, <2>2, <3>1
  <2> QED BY <2>1, <2>2
<1>9. Saved(list, k, torn) = aa \o bb
  BY <1>2, <1>c, <1>d
<1>10. Len(aa \o bb) = k + n /\ k + n \in {k, k + 1}
  BY <1>0, <1>5, <1>7, <1>8
<1> QED BY <1>5, <1>6, <1>9, <1>10

LEMMA FromRecordIs ==
    ASSUME NEW r \in StoredRecord
    PROVE  /\ FromRecord(r) \in Image
           /\ FromRecord(r).iHash = r.img.iHash
           /\ FromRecord(r).fSize = r.img.fSize
           /\ FromRecord(r).fDate = r.img.fDate
           /\ FromRecord(r).ImageCanBeRotated = HasTurns(r.img)
<1>1. r.img \in Image
  BY DEF StoredRecord
<1>2. HasTurns(r.img) \in BOOLEAN
  BY DEF HasTurns
<1>3. PICK b \in BOOLEAN : b = HasTurns(r.img)
  BY <1>2
<1>4. FromRecord(r) = [r.img EXCEPT !.ImageCanBeRotated = b]
  BY <1>3 DEF FromRecord
<1> QED BY <1>1, <1>3, <1>4 DEF Image

\* What ReadList makes of a file: each entry of the map is one of its records,
\* and a whole one.
LEMMA ReadListIs ==
    ASSUME NEW recs \in Seq(StoredRecord)
    PROVE  /\ DOMAIN ReadList(recs) \subseteq Name
           /\ ReadList(recs) \in [DOMAIN ReadList(recs) -> Image]
           /\ \A n \in DOMAIN ReadList(recs) :
                 \E i \in DOMAIN recs :
                    recs[i].whole /\ recs[i].name = n /\ ReadList(recs)[n] = FromRecord(recs[i])
<1> DEFINE R == Readable(recs)
           D == {recs[i].name : i \in R}
           at(n) == CHOOSE i \in R : recs[i].name = n
<1>1. DOMAIN recs = 1..Len(recs) /\ \A i \in DOMAIN recs : recs[i] \in StoredRecord
  OBVIOUS
<1>2. \A i \in R : i \in DOMAIN recs /\ recs[i].whole
  BY <1>1 DEF Readable
<1>3. ReadList(recs) = [n \in D |-> FromRecord(recs[at(n)])]
  BY DEF ReadList
<1>4. ASSUME NEW n \in D PROVE at(n) \in R /\ recs[at(n)].name = n
  BY <1>4
<1> HIDE DEF at, R
<1>5. ASSUME NEW n \in D
      PROVE  /\ n \in Name
             /\ FromRecord(recs[at(n)]) \in Image
             /\ at(n) \in DOMAIN recs
             /\ recs[at(n)].whole /\ recs[at(n)].name = n
  <2>1. at(n) \in DOMAIN recs /\ recs[at(n)].whole /\ recs[at(n)].name = n
    BY <1>2, <1>4
  <2>2. recs[at(n)] \in StoredRecord
    BY <1>1, <2>1
  <2>3. recs[at(n)].name \in Name
    BY <2>2 DEF StoredRecord
  <2> QED BY <2>1, <2>2, <2>3, FromRecordIs
<1> HIDE DEF D
<1> QED BY <1>3, <1>5

-----------------------------------------------------------------------------
(* Types.                                                                  *)

Typed ==
    /\ TypeOK
    /\ DOMAIN disk \subseteq Dir \X Name
    /\ listFile \in Seq(StoredRecord)
    /\ cache \in [DOMAIN cache -> Image]
    /\ seen \in [DOMAIN seen -> Content \cup {NoFile}]
    /\ \A p \in DOMAIN disk : disk[p] \in had[p[2]]
    /\ ListedNames \subseteq DOMAIN seen
    /\ cur # None => pc = "scan" /\ m_fv # <<>>
    /\ pc = "scan" => \A n \in Range(m_fv) : <<dir, n>> \in DOMAIN disk

\* What the list file may be after a call of SaveList, or in the middle of one.
Stored(recs) ==
    \/ recs = listFile
    \/ \E k \in 0..Len(imageList), torn \in BOOLEAN : recs = Saved(imageList, k, torn)

LEMMA CutShortIsStored ==
    ASSUME NEW recs \in CutShort \cup {listFile}
    PROVE  Stored(recs)
  BY DEF CutShort, Stored

LEMMA SaveForms ==
    ASSUME Typed, Save \/ SaveFails
    PROVE  SaveList(listFile') /\ Stored(listFile')
<1>1. CASE Save
  <2>1. Len(imageList) \in 0..Len(imageList) /\ FALSE \in BOOLEAN
    BY DEF Typed, TypeOK
  <2>2. listFile' = Saved(imageList, Len(imageList), FALSE)
    BY <1>1 DEF Save, SaveList
  <2> QED BY <1>1, <2>1, <2>2 DEF Save, Stored
<1>2. CASE SaveFails
  <2>1. PICK recs \in CutShort \cup {listFile} : SaveList(recs)
    BY <1>2 DEF SaveFails
  <2>2. listFile' = recs
    BY <2>1 DEF SaveList
  <2> QED BY <2>1, <2>2, CutShortIsStored
<1> QED BY <1>1, <1>2

LEMMA StoredIs ==
    ASSUME Typed, NEW recs, Stored(recs)
    PROVE  /\ recs \in Seq(StoredRecord)
           /\ \/ recs = listFile
              \/ \A i \in 1..Len(recs) :
                    /\ i \in 1..Len(imageList)
                    /\ \/ recs[i] = Record(imageList[i])
                       \/ recs[i] = Torn(imageList[i]) /\ i = Len(recs)
<1>1. CASE recs = listFile
  BY <1>1 DEF Typed
<1>2. ASSUME NEW k \in 0..Len(imageList), NEW torn \in BOOLEAN, recs = Saved(imageList, k, torn)
      PROVE  /\ recs \in Seq(StoredRecord)
             /\ \A i \in 1..Len(recs) :
                    /\ i \in 1..Len(imageList)
                    /\ \/ recs[i] = Record(imageList[i])
                       \/ recs[i] = Torn(imageList[i]) /\ i = Len(recs)
  <2>1. imageList \in Seq(Entry) /\ Len(imageList) \in Nat
    BY DEF Typed, TypeOK, Entry
  <2>2. /\ recs \in Seq(StoredRecord)
        /\ Len(recs) \in {k, k + 1}
        /\ \A i \in 1..Len(recs) :
              /\ i \in 1..Len(imageList)
              /\ recs[i] = IF i <= k THEN Record(imageList[i]) ELSE Torn(imageList[i])
    BY <1>2, <2>1, SavedIs
  <2>3. ASSUME NEW i \in 1..Len(recs), ~(i <= k) PROVE i = Len(recs)
    BY <2>2, <2>3
  <2> QED BY <2>2, <2>3
<1> QED BY <1>1, <1>2 DEF Stored

\* The file about to be analysed.
LEMMA CurrentFile ==
    ASSUME Typed, m_fv # <<>>, pc = "scan"
    PROVE  /\ Name0 \in Name /\ Path0 \in DOMAIN disk
           /\ disk[Path0] \in Content \cup {NoFile}
           /\ disk[Path0] \in had[Name0]
           /\ Front(m_fv) \in Seq(Name)
           /\ Range(m_fv) = Range(Front(m_fv)) \cup {Name0}
           /\ opt.rot \in BOOLEAN
<1>1. m_fv \in Seq(Name)
  BY DEF Typed, TypeOK
<1>2. Front(m_fv) \in Seq(Name) /\ Range(m_fv) = Range(Front(m_fv)) \cup {Name0} /\ Name0 \in Name
  BY <1>1, FrontRange DEF Name0
<1>3. Path0 \in DOMAIN disk
  BY <1>2 DEF Typed, Path0
<1>4. opt \in world.options /\ world \in Worlds
  BY DEF Typed, TypeOK
<1>5. opt \in [rot : BOOLEAN, useLists : BOOLEAN]
  BY <1>4, ScanAssumption
<1>6. Path0[2] = Name0
  BY DEF Path0
<1> QED BY <1>2, <1>3, <1>5, <1>6 DEF Typed, TypeOK

\* An entry is listed.
LEMMA Append0Typed ==
    ASSUME Typed, m_fv # <<>>, pc = "scan", NEW i \in Image, Append0(i)
    PROVE  /\ imageList' \in Seq(Entry)
           /\ Range(imageList') = Range(imageList) \cup {[name |-> Name0, img |-> i]}
           /\ m_fv' = Front(m_fv)
           /\ DOMAIN seen' = DOMAIN seen \cup {Name0}
           /\ seen' \in [DOMAIN seen' -> Content \cup {NoFile}]
           /\ seen'[Name0] = disk[Path0]
           /\ \A n \in DOMAIN seen \ {Name0} : seen'[n] = seen[n]
           /\ ListedNames' = ListedNames \cup {Name0}
           /\ ListedNames' \subseteq DOMAIN seen'
<1> DEFINE e == [name |-> Name0, img |-> i]
<1>1. Name0 \in Name /\ disk[Path0] \in Content \cup {NoFile}
  BY CurrentFile
<1>2. e \in Entry
  BY <1>1 DEF Entry
<1>3. imageList \in Seq(Entry)
  BY DEF Typed, TypeOK, Entry
<1>4. imageList' = Append(imageList, e) /\ seen' = Put(seen, Name0, disk[Path0]) /\ m_fv' = Front(m_fv)
  BY DEF Append0
<1>5. imageList' \in Seq(Entry) /\ Range(imageList') = Range(imageList) \cup {e}
  <2> HIDE DEF e
  <2> QED BY <1>2, <1>3, <1>4, AppendRange
<1>6. seen \in [DOMAIN seen -> Content \cup {NoFile}]
  BY DEF Typed
<1>7. /\ seen' \in [DOMAIN seen \cup {Name0} -> Content \cup {NoFile}]
      /\ DOMAIN seen' = DOMAIN seen \cup {Name0}
      /\ seen'[Name0] = disk[Path0]
      /\ \A n \in DOMAIN seen \ {Name0} : seen'[n] = seen[n]
  <2> DEFINE V == Content \cup {NoFile}
             S == DOMAIN seen
             v == disk[Path0]
             p == Put(seen, Name0, v)
  <2>1. seen \in [S -> V] /\ v \in V
    BY <1>1, <1>6
  <2> HIDE DEF V, S, v
  <2>2. /\ p \in [S \cup {Name0} -> V]
        /\ DOMAIN p = S \cup {Name0}
        /\ p[Name0] = v
        /\ \A n \in S \ {Name0} : p[n] = seen[n]
    BY <2>1 DEF Put
  <2>3. seen' = p
    BY <1>4 DEF v
  <2> QED BY <2>2, <2>3 DEF V, S, v
<1>8. ListedNames' = ListedNames \cup {Name0}
  <2>1. e.name = Name0
    OBVIOUS
  <2> HIDE DEF e
  <2>2. ListedNames' = {x.name : x \in Range(imageList) \cup {e}}
    BY <1>5 DEF ListedNames, Listed
  <2> QED BY <2>1, <2>2 DEF ListedNames, Listed
<1> QED BY <1>4, <1>5, <1>7, <1>8 DEF Typed

LEMMA InitTyped == Init => Typed
<1> SUFFICES ASSUME Init PROVE Typed
  OBVIOUS
<1>1. world \in Worlds /\ disk \in world.start /\ opt \in world.options /\ dir \in Dir
  BY DEF Init
<1>2. disk \in [DOMAIN disk -> Content \cup {NoFile}] /\ {MaxRuns, MaxEdits} \subseteq Nat
  BY <1>1, ScanAssumption
<1>a. DOMAIN disk \subseteq Dir \X Name
  BY <1>1, ScanAssumption DEF Dir
<1>3. /\ listFile = <<>> /\ m_fv = <<>> /\ cache = <<>> /\ imageList = <<>> /\ seen = <<>>
      /\ pc = "idle" /\ cur = None /\ faults = {} /\ runs = 0 /\ edits = 0
  BY DEF Init
<1>b. /\ had \in [Name -> SUBSET (Content \cup {NoFile})]
      /\ \A p \in DOMAIN disk : disk[p] \in had[p[2]]
  <2>1. had = [n \in Name |-> {disk[p] : p \in {q \in DOMAIN disk : q[2] = n}}]
    BY DEF Init
  <2>2. \A p \in DOMAIN disk : p[2] \in Name
    BY <1>a
  <2> QED BY <1>2, <2>1, <2>2
<1>4. /\ listFile \in Seq(StoredRecord) /\ m_fv \in Seq(Name)
      /\ imageList \in Seq([name : Name, img : Image])
      /\ DOMAIN listFile = {}
  BY <1>3
<1>5. DOMAIN cache = {} /\ DOMAIN seen = {} /\ Range(cache) = {} /\ ListedNames = {}
  BY <1>3 DEF Range, ListedNames, Listed
<1>6. cache \in [DOMAIN cache -> Image] /\ seen \in [DOMAIN seen -> Content \cup {NoFile}]
  BY <1>3
<1>7. TypeOK
  BY <1>1, <1>2, <1>3, <1>4, <1>5, <1>b DEF TypeOK
<1> QED BY <1>a, <1>b, <1>3, <1>4, <1>5, <1>6, <1>7 DEF Typed

\* The parts of Typed again, after the step, for the conjuncts it changes.
LEMMA TypedFrom ==
    ASSUME world' \in Worlds,
           (disk \in [DOMAIN disk -> Content \cup {NoFile}])',
           (DOMAIN disk \subseteq Dir \X Name)',
           (listFile \in Seq(StoredRecord))',
           pc' \in {"idle", "scan", "save"}, (dir \in Dir)', (opt \in world.options)',
           m_fv' \in Seq(Name),
           DOMAIN cache' \subseteq Name, (cache \in [DOMAIN cache -> Image])',
           cur' \in Image \cup {None},
           imageList' \in Seq(Entry),
           DOMAIN seen' \subseteq Name, (seen \in [DOMAIN seen -> Content \cup {NoFile}])',
           (ListedNames \subseteq DOMAIN seen)',
           (had \in [Name -> SUBSET (Content \cup {NoFile})])',
           (\A p \in DOMAIN disk : disk[p] \in had[p[2]])',
           faults' \in SUBSET {"blind", "failed", "raced"}, runs' \in 0..MaxRuns, edits' \in 0..MaxEdits,
           (cur # None => pc = "scan" /\ m_fv # <<>>)',
           (pc = "scan" => \A n \in Range(m_fv) : <<dir, n>> \in DOMAIN disk)'
    PROVE  Typed'
<1>a. listFile' \in Seq(StoredRecord)
  OBVIOUS
<1>b. \A i \in DOMAIN listFile' : listFile'[i] \in StoredRecord
  BY <1>a
<1>1. \A i \in DOMAIN listFile' : listFile'[i] \in [name : Name, img : Image, whole : BOOLEAN]
  BY <1>b DEF StoredRecord
<1>2. Range(cache)' \subseteq Image
  BY DEF Range
<1> QED BY <1>1, <1>2 DEF Typed, TypeOK, Entry

LEMMA BeginTyped ==
    ASSUME Typed, NEW d \in Dir, NEW o \in world.options, Begin(d, o)
    PROVE  Typed'
<1> USE DEF Begin
<1> DEFINE W == {n \in Name : <<d, n>> \in DOMAIN disk /\ disk[<<d, n>>] # NoFile}
<1>1. m_fv' \in Seq(Name) /\ Range(m_fv') \subseteq W
  <2>1. Order \in Seq(Name) /\ IsInjective(Order)
    BY ScanAssumption
  <2>2. m_fv' = Keep(Order, W)
    BY DEF SearchFiles
  <2> HIDE DEF W
  <2> QED BY <2>1, <2>2, KeepIsListing
<1>2. DOMAIN cache' \subseteq Name /\ cache' \in [DOMAIN cache' -> Image]
  <2>1. CASE o.useLists
    BY <2>1, ReadListIs DEF Typed
  <2>2. CASE ~o.useLists
    BY <2>2
  <2> QED BY <2>1, <2>2
<1>3. imageList' \in Seq(Entry) /\ ListedNames' = {}
  BY DEF ListedNames, Listed, Range
<1>4. runs' \in 0..MaxRuns
  BY ScanAssumption DEF Typed, TypeOK
<1>5. seen' \in [DOMAIN seen' -> Content \cup {NoFile}] /\ DOMAIN seen' = {}
  OBVIOUS
<1>6. dir' \in Dir' /\ opt' \in world'.options /\ Dir' = Dir
  BY DEF Dir
<1> QED BY <1>1, <1>2, <1>3, <1>4, <1>5, <1>6, TypedFrom DEF Typed, TypeOK

LEMMA OpensAreReadings ==
    ASSUME Typed, NEW got \in world.opens
    PROVE  got \in Reading
  BY ScanAssumption DEF Typed, TypeOK

LEMMA OpenTyped ==
    ASSUME Typed, NEW got \in world.opens, Open(got)
    PROVE  Typed'
<1> DEFINE fresh == Initialize(disk[Path0], opt.rot, got)
<1>0. pc = "scan" /\ m_fv # <<>> /\ cur = None
  BY DEF Open
<1>a. got \in Reading
  BY OpensAreReadings
<1>b. faults' \in SUBSET {"blind", "failed", "raced"}
  BY DEF Open, Typed, TypeOK
<1>1. /\ Name0 \in Name /\ Front(m_fv) \in Seq(Name)
      /\ Range(m_fv) = Range(Front(m_fv)) \cup {Name0}
      /\ fresh \in Image
  BY <1>0, <1>a, CurrentFile, InitializeIsImage
<1> HIDE DEF fresh
<1>2. /\ DOMAIN cache' \subseteq Name /\ (cache \in [DOMAIN cache -> Image])'
  BY DEF Open, Restrict, Typed, TypeOK
<1>3. UNCHANGED <<world, disk, listFile, pc, dir, opt, had, runs, edits>>
  BY DEF Open
<1>4. Dir' = Dir
  BY <1>3 DEF Dir
<1>5. CASE Name0 \in DOMAIN cache /\ Append0(cache[Name0]) /\ UNCHANGED cur
  <2>1. cache[Name0] \in Image
    BY <1>5 DEF Typed
  <2>2. /\ imageList' \in Seq(Entry)
        /\ m_fv' = Front(m_fv)
        /\ DOMAIN seen' = DOMAIN seen \cup {Name0}
        /\ seen' \in [DOMAIN seen' -> Content \cup {NoFile}]
        /\ ListedNames' \subseteq DOMAIN seen'
    BY <1>0, <1>5, <2>1, Append0Typed
  <2>3. DOMAIN seen' \subseteq Name
    BY <1>1, <2>2 DEF Typed, TypeOK
  <2>4. cur' = None
    BY <1>0, <1>5
  <2> QED BY <1>0, <1>1, <1>2, <1>3, <1>4, <1>b, <2>2, <2>3, <2>4, TypedFrom
          DEF Typed, TypeOK
<1>6. CASE cur' = fresh /\ UNCHANGED <<imageList, seen, m_fv>>
  <2>1. ListedNames' = ListedNames
    BY <1>6 DEF ListedNames, Listed
  <2>2. imageList' \in Seq(Entry)
    BY <1>6 DEF Typed, TypeOK, Entry
  <2> QED BY <1>0, <1>1, <1>2, <1>3, <1>4, <1>6, <1>b, <2>1, <2>2, TypedFrom
          DEF Typed, TypeOK
<1> QED BY <1>5, <1>6 DEF Open, fresh

LEMMA Hash0Typed ==
    ASSUME Typed, NEW calls \in world.calls, Hash0(calls)
    PROVE  /\ Typed'
           /\ calls \in 0..4
           /\ cur \in Image /\ m_fv # <<>> /\ pc = "scan"
           /\ CalculateHash(cur, disk[Path0], calls) \in Image
<1>0. pc = "scan" /\ m_fv # <<>> /\ cur # None /\ cur \in Image /\ calls \in 0..4
  <2>1. world \in Worlds
    BY DEF Typed, TypeOK
  <2>2. calls \in 0..4
    BY <2>1, ScanAssumption
  <2> QED BY <2>2 DEF Hash0, Typed, TypeOK
<1>1. /\ Name0 \in Name /\ Front(m_fv) \in Seq(Name)
      /\ Range(m_fv) = Range(Front(m_fv)) \cup {Name0}
      /\ CalculateHash(cur, disk[Path0], calls) \in Image
  BY <1>0, CurrentFile, CalculateHashIsImage
<1>2. /\ imageList' \in Seq(Entry)
      /\ m_fv' = Front(m_fv)
      /\ DOMAIN seen' = DOMAIN seen \cup {Name0}
      /\ seen' \in [DOMAIN seen' -> Content \cup {NoFile}]
      /\ ListedNames' \subseteq DOMAIN seen'
  <2>1. Append0(CalculateHash(cur, disk[Path0], calls))
    BY DEF Hash0
  <2> QED BY <1>0, <1>1, <2>1, Append0Typed
<1>3. DOMAIN seen' \subseteq Name
  BY <1>1, <1>2 DEF Typed, TypeOK
<1>4. faults' \in SUBSET {"blind", "failed", "raced"}
  BY DEF Hash0, Typed, TypeOK
<1>5. UNCHANGED <<world, disk, listFile, pc, dir, opt, cache, had, runs, edits>> /\ cur' = None
  BY DEF Hash0
<1>6. Dir' = Dir
  BY <1>5 DEF Dir
<1>7. Typed'
  BY <1>0, <1>1, <1>2, <1>3, <1>4, <1>5, <1>6, TypedFrom DEF Typed, TypeOK
<1> QED BY <1>0, <1>1, <1>7

LEMMA ParseErrorTyped ==
    ASSUME Typed, ParseError
    PROVE  Typed'
<1>0. pc = "scan" /\ m_fv # <<>>
  BY DEF ParseError
<1>1. /\ Front(m_fv) \in Seq(Name)
      /\ Range(m_fv) = Range(Front(m_fv)) \cup {Name0}
  BY <1>0, CurrentFile
<1>2. /\ m_fv' = Front(m_fv) /\ cur' = None
      /\ UNCHANGED <<world, disk, listFile, pc, dir, opt, cache, imageList, seen, had,
                     faults, runs, edits>>
  BY DEF ParseError
<1>3. Dir' = Dir /\ ListedNames' = ListedNames
  BY <1>2 DEF Dir, ListedNames, Listed
<1> QED BY <1>0, <1>1, <1>2, <1>3, TypedFrom DEF Typed, TypeOK, Entry

LEMMA EndOfScanTyped ==
    ASSUME Typed, EndOfScan
    PROVE  Typed'
<1>1. /\ pc' \in {"save", "idle"} /\ cur = None
      /\ UNCHANGED <<world, disk, listFile, dir, opt, m_fv, cache, cur, imageList,
                     seen, had, faults, runs, edits>>
  BY DEF EndOfScan, Typed
<1>2. Dir' = Dir /\ ListedNames' = ListedNames
  BY <1>1 DEF Dir, ListedNames, Listed
<1> QED BY <1>1, <1>2, TypedFrom DEF Typed, TypeOK, Entry

LEMMA SaveListTyped ==
    ASSUME Typed, Save \/ SaveFails
    PROVE  Typed'
<1>1. SaveList(listFile') /\ Stored(listFile')
  BY SaveForms
<1>2. listFile' \in Seq(StoredRecord)
  BY <1>1, StoredIs
<1>3. /\ pc' = "idle" /\ cur = None
      /\ UNCHANGED <<world, disk, dir, opt, m_fv, cache, cur, imageList, seen, had,
                     faults, runs, edits>>
  BY <1>1 DEF SaveList, Typed
<1>4. Dir' = Dir /\ ListedNames' = ListedNames
  BY <1>3 DEF Dir, ListedNames, Listed
<1> QED BY <1>2, <1>3, <1>4, TypedFrom DEF Typed, TypeOK, Entry

LEMMA CrashForms ==
    ASSUME Crash
    PROVE  /\ Stored(listFile')
           /\ pc' = "idle" /\ m_fv' = <<>> /\ cache' = <<>> /\ cur' = None
           /\ imageList' = <<>> /\ seen' = <<>>
           /\ UNCHANGED <<world, disk, dir, opt, had, faults, runs, edits>>
<1>1. Stored(listFile')
  <2>1. CASE pc = "save"
    BY <2>1, CutShortIsStored DEF Crash
  <2>2. CASE pc # "save"
    BY <2>2 DEF Crash, Stored
  <2> QED BY <2>1, <2>2
<1> QED BY <1>1 DEF Crash

LEMMA CrashTyped ==
    ASSUME Typed, Crash
    PROVE  Typed'
<1>1. /\ pc' = "idle" /\ m_fv' = <<>> /\ cache' = <<>> /\ cur' = None
      /\ imageList' = <<>> /\ seen' = <<>>
      /\ UNCHANGED <<world, disk, dir, opt, had, faults, runs, edits>>
      /\ listFile' \in Seq(StoredRecord)
  BY CrashForms, StoredIs
<1>2. Dir' = Dir /\ ListedNames' = {}
  BY <1>1 DEF Dir, ListedNames, Listed, Range
<1>3. /\ DOMAIN cache' = {} /\ DOMAIN seen' = {}
      /\ cache' \in [DOMAIN cache' -> Image]
      /\ seen' \in [DOMAIN seen' -> Content \cup {NoFile}]
      /\ imageList' \in Seq(Entry) /\ m_fv' \in Seq(Name)
  BY <1>1
<1> QED BY <1>1, <1>2, <1>3, TypedFrom DEF Typed, TypeOK

\* A change by the user gives a file of the directories a content, or none.
LEMMA UserForms ==
    ASSUME Typed, User
    PROVE  \E d : \E n \in Name, c \in Content \cup {NoFile} : Change(d, n, c)
<1>1. PICK p \in DOMAIN disk :
          \/ \E c \in world.photos : Edit(p[1], p[2], c)
          \/ Delete(p[1], p[2])
          \/ \E e \in Dir : Copy(p[1], e, p[2])
  BY DEF User
<1>a. p[2] \in Name
  BY DEF Typed
<1>2. ASSUME NEW c \in world.photos, Edit(p[1], p[2], c)
      PROVE  c \in Content /\ Change(p[1], p[2], c)
  BY <1>2, ScanAssumption DEF Edit, Typed, TypeOK
<1>3. ASSUME NEW e \in Dir, Copy(p[1], e, p[2])
      PROVE  \E b \in Content \cup {NoFile} : Change(e, p[2], b)
  <2>1. disk[<<p[1], p[2]>>] # NoFile /\ Change(e, p[2], disk[<<p[1], p[2]>>])
    BY <1>3 DEF Copy
  <2>2. <<p[1], p[2]>> = p
    BY DEF Typed
  <2>3. disk[p] \in Content \cup {NoFile}
    BY DEF Typed, TypeOK
  <2> QED BY <2>1, <2>2, <2>3
<1> QED BY <1>1, <1>2, <1>3, <1>a DEF Delete

\* What a change leaves on the disk.
LEMMA ChangeIs ==
    ASSUME Typed, NEW d, NEW n \in Name, NEW c \in Content \cup {NoFile}, Change(d, n, c)
    PROVE  /\ Typed'
           /\ DOMAIN disk' = DOMAIN disk
           /\ \A p \in DOMAIN disk : disk'[p] = IF p = <<d, n>> THEN c ELSE disk[p]
           /\ \A m \in Name : had[m] \subseteq had'[m]
           /\ UNCHANGED <<listFile, run, runs>>
           /\ faults \subseteq faults'
           /\ cur # None /\ Path0 = <<d, n>> => "raced" \in faults'
<1>1. /\ edits < MaxEdits /\ edits' = edits + 1
      /\ disk' = [disk EXCEPT ![<<d, n>>] = c]
      /\ had' = [had EXCEPT ![n] = @ \cup {c}]
      /\ UNCHANGED <<listFile, run, runs>>
      /\ faults' = IF cur # None /\ d = dir /\ n = Name0 THEN faults \cup {"raced"} ELSE faults
  BY DEF Change
<1>2. /\ disk' \in [DOMAIN disk' -> Content \cup {NoFile}]
      /\ DOMAIN disk' = DOMAIN disk
      /\ \A p \in DOMAIN disk : disk'[p] = IF p = <<d, n>> THEN c ELSE disk[p]
  BY <1>1 DEF Typed, TypeOK
<1>3. edits' \in 0..MaxEdits
  BY <1>1, ScanAssumption DEF Typed, TypeOK
<1>4. faults' \in SUBSET {"blind", "failed", "raced"} /\ faults \subseteq faults'
  BY <1>1 DEF Typed, TypeOK
<1>5. Dir' = Dir /\ ListedNames' = ListedNames
  BY <1>1, <1>2 DEF Dir, ListedNames, Listed, run
<1>8. /\ had' \in [Name -> SUBSET (Content \cup {NoFile})]
      /\ \A m \in Name : had[m] \subseteq had'[m]
      /\ c \in had'[n]
  BY <1>1 DEF Typed, TypeOK
<1>9. ASSUME NEW p \in DOMAIN disk PROVE disk'[p] \in had'[p[2]]
  <2>1. p[2] \in Name /\ disk[p] \in had[p[2]]
    BY DEF Typed
  <2>2. CASE p = <<d, n>>
    BY <1>2, <1>8, <2>2
  <2>3. CASE p # <<d, n>>
    BY <1>2, <1>8, <2>1, <2>3
  <2> QED BY <2>2, <2>3
<1>6. Typed'
  BY <1>1, <1>2, <1>3, <1>4, <1>5, <1>8, <1>9, TypedFrom DEF Typed, TypeOK, Entry, run
<1>7. Path0 = <<d, n>> => d = dir /\ n = Name0
  BY DEF Path0
<1> QED BY <1>1, <1>2, <1>4, <1>6, <1>7, <1>8

LEMMA UserTyped ==
    ASSUME Typed, User
    PROVE  Typed'
  BY UserForms, ChangeIs

LEMMA NextTyped == Typed /\ [Next]_vars => Typed'
<1> SUFFICES ASSUME Typed, [Next]_vars PROVE Typed'
  OBVIOUS
<1>1. CASE UNCHANGED vars
  BY <1>1 DEF vars, run, Typed, TypeOK, Dir, ListedNames, Listed
<1>2. ASSUME NEW d \in Dir, NEW o \in world.options, Begin(d, o) PROVE Typed'
  BY <1>2, BeginTyped
<1>3. CASE Work
  <2>1. ASSUME NEW calls \in world.calls, Hash0(calls) PROVE Typed'
    BY <2>1, Hash0Typed
  <2>2. ASSUME NEW got \in world.opens, Open(got) PROVE Typed'
    BY <2>2, OpenTyped
  <2> QED BY <1>3, <2>1, <2>2, ParseErrorTyped, EndOfScanTyped, SaveListTyped DEF Work
<1> QED BY <1>1, <1>2, <1>3, CrashTyped, UserTyped DEF Next

LEMMA TypedHolds == Spec => []Typed
<1> QED BY InitTyped, NextTyped, PTL DEF Spec

\* Every variable keeps its type, whatever the list file held, was torn to or
\* was mistaken for.
THEOREM ScanTypeCorrect == Spec => []TypeOK
<1>1. Typed => TypeOK
  BY DEF Typed
<1> QED BY <1>1, TypedHolds, PTL

-----------------------------------------------------------------------------
(* No file comes twice.                                                    *)

OnceStored(recs) ==
    /\ \A i, j \in DOMAIN recs : recs[i].name = recs[j].name => i = j
    /\ \A i \in DOMAIN recs : ~recs[i].whole => i = Len(recs)

LEMMA RecordIs ==
    ASSUME NEW e \in Entry
    PROVE  /\ Record(e).name = e.name /\ Record(e).whole = TRUE /\ Record(e).img = e.img
           /\ Torn(e).name = e.name /\ Torn(e).whole = FALSE
  BY DEF Record, Torn

LEMMA StoredOnce ==
    ASSUME Typed, ListedOnce, NEW recs, Stored(recs)
    PROVE  OnceStored(recs)
<1>1. CASE recs = listFile
  BY <1>1 DEF ListedOnce, OnceStored
<1>2. CASE \A i \in 1..Len(recs) :
              /\ i \in 1..Len(imageList)
              /\ \/ recs[i] = Record(imageList[i])
                 \/ recs[i] = Torn(imageList[i]) /\ i = Len(recs)
  <2>1. DOMAIN recs = 1..Len(recs)
    BY StoredIs
  <2>2. /\ \A i \in 1..Len(imageList) : imageList[i] \in Entry
        /\ DOMAIN imageList = 1..Len(imageList)
    <3>1. imageList \in Seq(Entry)
      BY DEF Typed, TypeOK, Entry
    <3> QED BY <3>1
  <2>3. ASSUME NEW i \in 1..Len(recs)
        PROVE  /\ i \in DOMAIN imageList
               /\ recs[i].name = imageList[i].name
               /\ ~recs[i].whole => i = Len(recs)
    <3>1. i \in 1..Len(imageList) /\ imageList[i] \in Entry
      BY <1>2, <2>2
    <3>2. CASE recs[i] = Record(imageList[i])
      BY <2>2, <3>1, <3>2, RecordIs
    <3>3. CASE recs[i] = Torn(imageList[i]) /\ i = Len(recs)
      BY <2>2, <3>1, <3>3, RecordIs
    <3> QED BY <1>2, <3>2, <3>3
  <2>4. \A i, j \in DOMAIN imageList : imageList[i].name = imageList[j].name => i = j
    BY DEF ListedOnce
  <2> QED BY <2>1, <2>3, <2>4 DEF OnceStored
<1> QED BY <1>1, <1>2, StoredIs

LEMMA OnceFrom ==
    ASSUME (\A i, j \in DOMAIN imageList : imageList[i].name = imageList[j].name => i = j)',
           IsInjective(m_fv'), ListedNames' \cap Range(m_fv') = {},
           OnceStored(listFile')
    PROVE  ListedOnce'
  BY DEF ListedOnce, OnceStored, Range

LEMMA Append0Once ==
    ASSUME Typed, ListedOnce, m_fv # <<>>, pc = "scan", NEW i \in Image, Append0(i),
           UNCHANGED listFile
    PROVE  ListedOnce'
<1> DEFINE e == [name |-> Name0, img |-> i]
<1>1. m_fv \in Seq(Name) /\ imageList \in Seq(Entry)
  BY DEF Typed, TypeOK, Entry
<1>2. /\ Range(m_fv) = Range(Front(m_fv)) \cup {Name0} /\ Name0 \in Name
      /\ IsInjective(Front(m_fv)) /\ Name0 \notin Range(Front(m_fv))
  BY <1>1, FrontRange DEF Name0, ListedOnce
<1>3. m_fv' = Front(m_fv) /\ ListedNames' = ListedNames \cup {Name0}
  BY Append0Typed
<1>4. ListedNames' \cap Range(m_fv') = {}
  BY <1>2, <1>3 DEF ListedOnce
<1>5. e \in Entry /\ e.name = Name0
  BY <1>2 DEF Entry
<1>6. imageList' = Append(imageList, e)
  BY DEF Append0
<1> HIDE DEF e
<1>7. /\ imageList' \in Seq(Entry) /\ Len(imageList') = Len(imageList) + 1
      /\ \A j \in 1..Len(imageList) : imageList'[j] = imageList[j]
      /\ imageList'[Len(imageList) + 1] = e
  BY <1>1, <1>5, <1>6, AppendRange
<1>8. /\ DOMAIN imageList = 1..Len(imageList) /\ Len(imageList) \in Nat
      /\ DOMAIN imageList' = 1..(Len(imageList) + 1)
  BY <1>1, <1>7
<1>9. \A j \in 1..Len(imageList) : imageList[j].name # Name0
  <2>1. Name0 \notin ListedNames
    BY <1>2 DEF ListedOnce
  <2> QED BY <1>8, <2>1 DEF ListedNames, Listed, Range
<1>10. \A j, k \in DOMAIN imageList' : imageList'[j].name = imageList'[k].name => j = k
  BY <1>5, <1>7, <1>8, <1>9 DEF ListedOnce
<1>11. OnceStored(listFile')
  BY DEF OnceStored, ListedOnce
<1> QED BY <1>2, <1>3, <1>4, <1>10, <1>11, OnceFrom

LEMMA NextListedOnce == Typed /\ ListedOnce /\ [Next]_vars => ListedOnce'
<1> SUFFICES ASSUME Typed, ListedOnce, [Next]_vars PROVE ListedOnce'
  OBVIOUS
<1>0. OnceStored(listFile)
  BY DEF ListedOnce, OnceStored
<1>a. ASSUME UNCHANGED <<imageList, m_fv>>, OnceStored(listFile')
      PROVE  ListedOnce'
  BY <1>a, OnceFrom DEF ListedOnce, ListedNames, Listed
<1>b. ASSUME imageList' = <<>>, IsInjective(m_fv'), OnceStored(listFile')
      PROVE  ListedOnce'
  <2>1. ListedNames' = {} /\ DOMAIN imageList' = {}
    BY <1>b DEF ListedNames, Listed, Range
  <2> QED BY <1>b, <2>1, OnceFrom
<1>1. CASE UNCHANGED vars
  BY <1>0, <1>1, <1>a DEF vars, run
<1>2. ASSUME NEW d \in Dir, NEW o \in world.options, Begin(d, o) PROVE ListedOnce'
  <2>1. Order \in Seq(Name) /\ IsInjective(Order)
    BY ScanAssumption
  <2>2. IsInjective(SearchFiles(d))
    BY <2>1, KeepIsListing DEF SearchFiles
  <2> QED BY <1>0, <1>2, <1>b, <2>2 DEF Begin
<1>3. ASSUME NEW got \in world.opens, Open(got) PROVE ListedOnce'
  <2>1. pc = "scan" /\ m_fv # <<>> /\ UNCHANGED listFile
    BY <1>3 DEF Open
  <2>2. CASE Name0 \in DOMAIN cache /\ Append0(cache[Name0])
    <3>1. cache[Name0] \in Image
      BY <2>2 DEF Typed
    <3> QED BY <2>1, <2>2, <3>1, Append0Once
  <2>3. CASE UNCHANGED <<imageList, seen, m_fv>>
    BY <1>0, <1>a, <2>1, <2>3
  <2> QED BY <1>3, <2>2, <2>3 DEF Open
<1>4. ASSUME NEW calls \in world.calls, Hash0(calls) PROVE ListedOnce'
  <2>1. CalculateHash(cur, disk[Path0], calls) \in Image /\ m_fv # <<>> /\ pc = "scan"
    BY <1>4, Hash0Typed
  <2> QED BY <1>4, <2>1, Append0Once DEF Hash0
<1>5. CASE ParseError
  <2>1. m_fv # <<>> /\ m_fv \in Seq(Name) /\ m_fv' = Front(m_fv)
        /\ UNCHANGED <<imageList, listFile>>
    BY <1>5 DEF ParseError, Typed, TypeOK
  <2>2. IsInjective(m_fv') /\ Range(m_fv') \subseteq Range(m_fv)
    BY <2>1, FrontRange DEF ListedOnce
  <2>3. ListedNames' = ListedNames
    BY <2>1 DEF ListedNames, Listed
  <2> QED BY <1>0, <2>1, <2>2, <2>3, OnceFrom DEF ListedOnce
<1>6. CASE EndOfScan
  BY <1>0, <1>6, <1>a DEF EndOfScan
<1>7. CASE Save \/ SaveFails
  <2>1. SaveList(listFile') /\ Stored(listFile')
    BY <1>7, SaveForms
  <2> QED BY <1>a, <2>1, StoredOnce DEF SaveList
<1>8. CASE Crash
  <2>1. IsInjective(<<>>)
    BY DEF IsInjective
  <2> QED BY <1>8, <1>b, <2>1, CrashForms, StoredOnce
<1>9. CASE User
  <2>1. PICK d, n, c : Change(d, n, c)
    BY <1>9, UserForms
  <2> QED BY <1>0, <1>a, <2>1 DEF Change, run
<1> QED BY <1>1, <1>2, <1>3, <1>4, <1>5, <1>6, <1>7, <1>8, <1>9 DEF Next, Work

\* However runs are interrupted and the user changes files, no file is listed
\* or stored twice, and what a torn SaveList leaves is torn at its end only.
THEOREM FilesListedOnce == Spec => []ListedOnce
<1>1. Init => ListedOnce
  BY DEF Init, ListedOnce, ListedNames, Listed, Range, IsInjective
<1> QED BY <1>1, InitTyped, NextTyped, NextListedOnce, PTL DEF Spec

\* What ReadList makes of a file SaveList left: the first k entries.
LEMMA SavedReadBack ==
    ASSUME Typed, ListedOnce, NEW k \in 0..Len(imageList), NEW torn \in BOOLEAN
    PROVE  ReadList(Saved(imageList, k, torn)) =
               [n \in {imageList[i].name : i \in 1..k} |->
                   FromRecord(Record(CHOOSE e \in Listed : e.name = n))]
<1> DEFINE recs == Saved(imageList, k, torn)
           names == {imageList[i].name : i \in 1..k}
           at(n) == CHOOSE i \in Readable(recs) : recs[i].name = n
           of(n) == CHOOSE e \in Listed : e.name = n
<1>1. imageList \in Seq(Entry)
  BY DEF Typed, TypeOK, Entry
<1>2. /\ DOMAIN imageList = 1..Len(imageList) /\ Len(imageList) \in Nat
      /\ \A i \in 1..Len(imageList) : imageList[i] \in Entry
  BY <1>1
<1>3. /\ recs \in Seq(StoredRecord)
      /\ Len(recs) \in {k, k + 1}
      /\ \A i \in 1..Len(recs) :
            /\ i \in 1..Len(imageList)
            /\ recs[i] = IF i <= k THEN Record(imageList[i]) ELSE Torn(imageList[i])
  BY <1>1, SavedIs
<1> HIDE DEF recs
<1>4. DOMAIN recs = 1..Len(recs)
  BY <1>3
<1>5. ASSUME NEW i \in 1..k
      PROVE  /\ i \in DOMAIN recs /\ i \in 1..Len(imageList)
             /\ recs[i] = Record(imageList[i])
             /\ recs[i].whole
             /\ recs[i].name = imageList[i].name
  <2>1. i \in 1..Len(recs) /\ i <= k
    BY <1>2, <1>3
  <2>2. i \in 1..Len(imageList) /\ recs[i] = Record(imageList[i])
    BY <1>3, <2>1
  <2>3. imageList[i] \in Entry
    BY <1>2, <2>2
  <2> QED BY <1>4, <2>1, <2>2, <2>3, RecordIs
<1>6. ASSUME NEW i \in DOMAIN recs, i > k PROVE ~recs[i].whole
  <2>1. i \in 1..Len(recs) /\ ~(i <= k)
    <3>1. i \in 1..Len(recs)
      BY <1>4
    <3>2. k \in Nat /\ Len(recs) \in Nat
      BY <1>2, <1>3
    <3> QED BY <1>6, <3>1, <3>2
  <2>2. i \in 1..Len(imageList) /\ recs[i] = Torn(imageList[i])
    BY <1>3, <2>1
  <2>3. imageList[i] \in Entry
    BY <1>2, <2>2
  <2> QED BY <2>2, <2>3, RecordIs
<1>7. Readable(recs) = 1..k
  <2>1. ASSUME NEW i \in Readable(recs) PROVE i \in 1..k
    <3>1. i \in DOMAIN recs /\ recs[i].whole
      BY <1>4 DEF Readable
    <3> QED BY <1>4, <1>6, <3>1
  <2>2. ASSUME NEW i \in 1..k PROVE i \in Readable(recs)
    BY <1>5, <2>2 DEF Readable
  <2> QED BY <2>1, <2>2
<1>8. {recs[i].name : i \in Readable(recs)} = names
  BY <1>5, <1>7
<1>9. ASSUME NEW n \in names PROVE FromRecord(recs[at(n)]) = FromRecord(Record(of(n)))
  <2>1. PICK i \in 1..k : imageList[i].name = n
    OBVIOUS
  <2>2. at(n) \in 1..k /\ recs[at(n)].name = n
    BY <1>5, <1>7, <2>1
  <2>3. imageList[i] \in Listed
    BY <1>2, <1>5 DEF Listed, Range
  <2>4. of(n) \in Listed /\ of(n).name = n
    BY <2>1, <2>3
  <2> HIDE DEF at, of
  <2>5. PICK j \in 1..Len(imageList) : of(n) = imageList[j]
    BY <1>2, <2>4 DEF Listed, Range
  <2>6. j = at(n)
    <3>1. imageList[at(n)].name = n /\ imageList[j].name = n /\ at(n) \in DOMAIN imageList
      BY <1>2, <1>5, <2>2, <2>4, <2>5
    <3> QED BY <1>2, <3>1 DEF ListedOnce
  <2> QED BY <1>5, <2>2, <2>5, <2>6
<1>10. ReadList(recs) = [n \in {recs[i].name : i \in Readable(recs)} |-> FromRecord(recs[at(n)])]
  BY DEF ReadList
<1> HIDE DEF at, of
<1> QED BY <1>8, <1>9, <1>10 DEF recs, of

\* An interrupted run costs entries, never the list file.
THEOREM ListFileReadBack == Spec => ReadBack
<1> DEFINE Good == \E k \in 0..Len(imageList) :
               ReadList(listFile') =
                   [n \in {imageList[i].name : i \in 1..k} |->
                       FromRecord(Record(CHOOSE e \in Listed : e.name = n))]
<1>1. ASSUME Typed, ListedOnce, [Next]_vars, listFile' # listFile PROVE Good
  <2>1. Stored(listFile')
    <3>1. CASE Work
      <4>1. Save \/ SaveFails
        BY <1>1, <3>1 DEF Work, Open, Hash0, ParseError, EndOfScan
      <4> QED BY <1>1, <4>1, SaveForms
    <3>2. CASE Crash
      BY <3>2, CrashForms
    <3>3. CASE User
      <4>1. PICK d, n, c : Change(d, n, c)
        BY <1>1, <3>3, UserForms
      <4> QED BY <1>1, <4>1 DEF Change
    <3> QED BY <1>1, <3>1, <3>2, <3>3 DEF Next, Begin, vars
  <2>2. PICK k \in 0..Len(imageList), torn \in BOOLEAN : listFile' = Saved(imageList, k, torn)
    BY <1>1, <2>1 DEF Stored
  <2> QED BY <1>1, <2>2, SavedReadBack
<1>2. Typed /\ ListedOnce /\ [Next]_vars => [listFile' # listFile => Good]_vars
  BY <1>1
<1> QED BY <1>2, TypedHolds, FilesListedOnce, PTL DEF Spec, ReadBack

-----------------------------------------------------------------------------
(* Where the records of a state come from.                                 *)

\* The entries a run may still list or store.
Known ==
    {[name |-> listFile[i].name, img |-> listFile[i].img] :
        i \in {j \in DOMAIN listFile : listFile[j].whole}}
    \cup {[name |-> n, img |-> cache[n]] : n \in DOMAIN cache}
    \cup Listed

\* What an entry keeps of q through the list file.
Kept(e, q) ==
    /\ e.name = q.name
    /\ e.img.iHash = q.img.iHash /\ e.img.fSize = q.img.fSize /\ e.img.fDate = q.img.fDate
    /\ e.img.ImageCanBeRotated \in {q.img.ImageCanBeRotated, HasTurns(q.img)}

\* The entry of the file just hashed.
Hashed(e) ==
    \E calls \in world.calls :
        /\ Hash0(calls)
        /\ e.name = Name0
        /\ e.img = CalculateHash(cur, disk[Path0], calls)

LEMMA KnownIsEntry ==
    ASSUME Typed, NEW e \in Known
    PROVE  e \in Entry
<1>1. CASE e \in {[name |-> listFile[i].name, img |-> listFile[i].img] :
                     i \in {j \in DOMAIN listFile : listFile[j].whole}}
  <2>1. PICK i \in DOMAIN listFile : e = [name |-> listFile[i].name, img |-> listFile[i].img]
    BY <1>1
  <2>2. listFile[i].name \in Name /\ listFile[i].img \in Image
    BY DEF Typed, TypeOK
  <2> QED BY <2>1, <2>2 DEF Entry
<1>2. CASE e \in {[name |-> n, img |-> cache[n]] : n \in DOMAIN cache}
  BY <1>2 DEF Entry, Typed, TypeOK
<1>3. CASE e \in Listed
  <2>1. imageList \in Seq(Entry)
    BY DEF Typed, TypeOK, Entry
  <2> QED BY <1>3, <2>1 DEF Listed, Range
<1> QED BY <1>1, <1>2, <1>3 DEF Known

LEMMA StoredKnown ==
    ASSUME Typed, NEW recs, Stored(recs), NEW i \in DOMAIN recs, recs[i].whole
    PROVE  [name |-> recs[i].name, img |-> recs[i].img] \in Known
<1>1. CASE recs = listFile
  BY <1>1 DEF Known
<1>2. CASE \A j \in 1..Len(recs) :
              /\ j \in 1..Len(imageList)
              /\ \/ recs[j] = Record(imageList[j])
                 \/ recs[j] = Torn(imageList[j]) /\ j = Len(recs)
  <2>1. i \in 1..Len(recs)
    BY StoredIs
  <2>2. imageList \in Seq(Entry)
    BY DEF Typed, TypeOK, Entry
  <2>3. i \in DOMAIN imageList /\ imageList[i] \in Entry
    BY <1>2, <2>1, <2>2
  <2>4. recs[i] = Record(imageList[i])
    BY <1>2, <2>1, <2>3, RecordIs
  <2>5. recs[i].img = imageList[i].img /\ recs[i].name = imageList[i].name
    BY <2>3, <2>4, RecordIs
  <2>6. [name |-> imageList[i].name, img |-> imageList[i].img] = imageList[i]
    BY <2>3 DEF Entry
  <2>7. imageList[i] \in Listed
    BY <2>3 DEF Listed, Range
  <2> QED BY <2>5, <2>6, <2>7 DEF Known
<1> QED BY <1>1, <1>2, StoredIs

LEMMA KnownStep ==
    ASSUME Typed, [Next]_vars, NEW e \in Known'
    PROVE  (\E q \in Known : Kept(e, q)) \/ Hashed(e)
<1>a. ASSUME e \in Known PROVE \E q \in Known : Kept(e, q)
  BY <1>a DEF Kept
<1>1. CASE UNCHANGED <<listFile, cache, imageList>>
  BY <1>1, <1>a DEF Known, Listed
<1> DEFINE InCache(c) == {[name |-> n, img |-> c[n]] : n \in DOMAIN c}
           InFile(f) == {[name |-> f[i].name, img |-> f[i].img] :
                            i \in {j \in DOMAIN f : f[j].whole}}
<1>k. /\ Known = InFile(listFile) \cup InCache(cache) \cup Listed
      /\ Known' = InFile(listFile') \cup InCache(cache') \cup Listed'
  BY DEF Known
<1>2. ASSUME NEW d \in Dir, NEW o \in world.options, Begin(d, o)
      PROVE  \E q \in Known : Kept(e, q)
  <2>1. /\ listFile' = listFile /\ imageList' = <<>>
        /\ cache' = IF o.useLists THEN ReadList(listFile) ELSE <<>>
    BY <1>2 DEF Begin
  <2>2. Listed' = {}
    BY <2>1 DEF Listed, Range
  <2>3. CASE e \in InCache(cache')
    <3>1. o.useLists
      BY <2>1, <2>3
    <3>2. PICK n \in DOMAIN ReadList(listFile) : e = [name |-> n, img |-> ReadList(listFile)[n]]
      BY <2>1, <2>3, <3>1
    <3>3. PICK i \in DOMAIN listFile :
              /\ listFile[i].whole /\ listFile[i].name = n
              /\ e.img = FromRecord(listFile[i])
      BY <3>2, ReadListIs DEF Typed
    <3> DEFINE q == [name |-> listFile[i].name, img |-> listFile[i].img]
    <3>4. listFile[i] \in StoredRecord /\ q \in Known
      BY <3>3 DEF Typed, TypeOK, StoredRecord, Known
    <3>5. e.name = listFile[i].name
      BY <3>2, <3>3
    <3>6. /\ e.img.iHash = listFile[i].img.iHash
          /\ e.img.fSize = listFile[i].img.fSize
          /\ e.img.fDate = listFile[i].img.fDate
          /\ e.img.ImageCanBeRotated = HasTurns(listFile[i].img)
      BY <3>3, <3>4, FromRecordIs
    <3>7. Kept(e, q)
      BY <3>5, <3>6 DEF Kept
    <3> QED BY <3>4, <3>7
  <2>4. CASE e \notin InCache(cache')
    BY <1>a, <1>k, <2>1, <2>2, <2>4
  <2> QED BY <2>3, <2>4
<1>b. ASSUME NEW i \in Image, Append0(i), m_fv # <<>>, pc = "scan",
             InCache(cache') \subseteq InCache(cache), UNCHANGED listFile
      PROVE  e \in Known \/ (e.name = Name0 /\ e.img = i)
  <2>1. Listed' = Listed \cup {[name |-> Name0, img |-> i]}
    BY <1>b, Append0Typed DEF Listed
  <2> QED BY <1>b, <1>k, <2>1
<1>c. ASSUME cache' = Restrict(cache, DOMAIN cache \ {Name0})
      PROVE  InCache(cache') \subseteq InCache(cache)
  BY <1>c DEF Restrict
<1> HIDE DEF InCache
<1>3. ASSUME NEW got \in world.opens, Open(got) PROVE \E q \in Known : Kept(e, q)
  <2>1. /\ pc = "scan" /\ m_fv # <<>> /\ UNCHANGED listFile
        /\ InCache(cache') \subseteq InCache(cache)
    BY <1>3, <1>c DEF Open
  <2>2. CASE Name0 \in DOMAIN cache /\ Append0(cache[Name0])
    <3>1. cache[Name0] \in Image
      BY <2>2 DEF Typed
    <3>2. [name |-> Name0, img |-> cache[Name0]] \in Known
      BY <2>2 DEF Known
    <3>3. e.name = Name0 /\ e.img = cache[Name0] => Kept(e, [name |-> Name0, img |-> cache[Name0]])
      BY DEF Kept
    <3> QED BY <1>a, <1>b, <2>1, <2>2, <3>1, <3>2, <3>3
  <2>3. CASE UNCHANGED <<imageList, seen, m_fv>>
    <3>1. Listed' = Listed
      BY <2>3 DEF Listed
    <3> QED BY <1>a, <1>k, <2>1, <3>1
  <2> QED BY <1>3, <2>2, <2>3 DEF Open
<1>4. ASSUME NEW calls \in world.calls, Hash0(calls)
      PROVE  e \in Known \/ Hashed(e)
  <2>1. CalculateHash(cur, disk[Path0], calls) \in Image /\ m_fv # <<>> /\ pc = "scan"
    BY <1>4, Hash0Typed
  <2>2. Append0(CalculateHash(cur, disk[Path0], calls)) /\ UNCHANGED <<cache, listFile>>
    BY <1>4 DEF Hash0
  <2>3. InCache(cache') \subseteq InCache(cache)
    BY <2>2
  <2>4. e \in Known \/ (e.name = Name0 /\ e.img = CalculateHash(cur, disk[Path0], calls))
    BY <1>b, <2>1, <2>2, <2>3
  <2> QED BY <1>4, <2>4 DEF Hashed
<1>d. ASSUME Stored(listFile'), InCache(cache') \subseteq InCache(cache),
             Listed' \subseteq Listed
      PROVE  e \in Known
  <2>1. CASE e \in InFile(listFile')
    BY <1>d, <2>1, StoredKnown
  <2>2. CASE e \notin InFile(listFile')
    BY <1>d, <1>k, <2>2
  <2> QED BY <2>1, <2>2
<1>5. CASE Save \/ SaveFails
  <2>1. Stored(listFile') /\ UNCHANGED <<cache, imageList>>
    BY <1>5, SaveForms DEF SaveList
  <2>2. InCache(cache') \subseteq InCache(cache) /\ Listed' \subseteq Listed
    BY <2>1 DEF Listed
  <2> QED BY <1>a, <1>d, <2>1, <2>2
<1>6. CASE Crash
  <2>1. cache' = <<>> /\ Listed' = {} /\ Stored(listFile')
    BY <1>6, CrashForms DEF Listed, Range
  <2>2. InCache(cache') = {}
    BY <2>1 DEF InCache
  <2> QED BY <1>a, <1>d, <2>1, <2>2
<1>7. CASE User
  <2>1. PICK d, n, c : Change(d, n, c)
    BY <1>7, UserForms
  <2> QED BY <1>1, <2>1 DEF Change, run
<1>8. CASE ParseError \/ EndOfScan \/ UNCHANGED vars
  BY <1>1, <1>8 DEF ParseError, EndOfScan, vars, run
<1> QED BY <1>a, <1>2, <1>3, <1>4, <1>5, <1>6, <1>7, <1>8 DEF Next, Work

\* What a step keeps.
LEMMA HistoryStep ==
    ASSUME Typed, [Next]_vars
    PROVE  /\ world' = world /\ faults \subseteq faults'
           /\ \A n \in Name : had[n] \subseteq had'[n]
<1>1. ASSUME NEW d \in Dir, NEW o \in world.options, Begin(d, o)
      PROVE  UNCHANGED <<world, had, faults>>
  BY <1>1 DEF Begin
<1>2. CASE Work
  <2>1. ASSUME NEW calls \in world.calls, Hash0(calls)
        PROVE  UNCHANGED <<world, had>> /\ faults \subseteq faults'
    BY <2>1 DEF Hash0
  <2>2. ASSUME NEW got \in world.opens, Open(got)
        PROVE  UNCHANGED <<world, had>> /\ faults \subseteq faults'
    BY <2>2 DEF Open
  <2> QED BY <1>2, <2>1, <2>2 DEF Work, ParseError, EndOfScan, Save, SaveFails, SaveList
<1>3. CASE User
  <2>1. PICK d : \E n \in Name, c \in Content \cup {NoFile} : Change(d, n, c)
    BY <1>3, UserForms
  <2> QED BY <2>1, ChangeIs DEF run
<1> QED BY <1>1, <1>2, <1>3, CrashForms DEF Next, vars, run

\* The record being filled is the one Initialize made of the file, unless the
\* file was changed since.
ReadAs(c, got) ==
    faults = {} => c = NoFile \/ (got.size /\ got.date)

Fresh ==
    "raced" \notin faults /\ cur # None =>
        \E got \in Reading :
            cur = Initialize(disk[Path0], opt.rot, got) /\ ReadAs(disk[Path0], got)

LEMMA CurStep ==
    ASSUME Typed, [Next]_vars, cur' # None
    PROVE  /\ UNCHANGED <<m_fv, dir, opt>>
           /\ m_fv # <<>> /\ pc = "scan"
           /\ \/ /\ UNCHANGED disk
                 /\ \E got \in Reading :
                       /\ cur' = Initialize(disk[Path0], opt.rot, got)
                       /\ faults' = {} => disk[Path0] = NoFile \/ (got.size /\ got.date)
              \/ cur' = cur /\ ("raced" \notin faults' => disk'[Path0] = disk[Path0])
<1>1. CASE UNCHANGED <<cur, m_fv, dir, opt, disk>>
  BY <1>1 DEF Typed
<1>2. CASE Work
  <2>1. ASSUME NEW got \in world.opens, Open(got)
        PROVE  /\ UNCHANGED <<m_fv, dir, opt, disk>>
               /\ m_fv # <<>> /\ pc = "scan"
               /\ got \in Reading
               /\ cur' = Initialize(disk[Path0], opt.rot, got)
               /\ faults' = {} => disk[Path0] = NoFile \/ (got.size /\ got.date)
    <3>1. got \in Reading
      BY OpensAreReadings
    <3>2. cur = None
      BY <2>1 DEF Open
    <3> QED BY <2>1, <3>1, <3>2 DEF Open
  <2>2. ASSUME NEW calls \in world.calls PROVE ~Hash0(calls)
    BY DEF Hash0
  <2>3. CASE Save \/ SaveFails
    BY <1>1, <2>3, SaveForms DEF SaveList
  <2>4. CASE ParseError \/ EndOfScan
    BY <1>1, <2>4 DEF ParseError, EndOfScan
  <2> QED BY <1>2, <2>1, <2>2, <2>3, <2>4 DEF Work
<1>3. CASE User
  <2>1. PICK d : \E n \in Name, c \in Content \cup {NoFile} : Change(d, n, c)
    BY <1>3, UserForms
  <2>2. PICK n \in Name, c \in Content \cup {NoFile} : Change(d, n, c)
    BY <2>1
  <2>3. /\ \A p \in DOMAIN disk : disk'[p] = IF p = <<d, n>> THEN c ELSE disk[p]
        /\ UNCHANGED run
        /\ cur # None /\ Path0 = <<d, n>> => "raced" \in faults'
    BY <2>2, ChangeIs
  <2>4. m_fv # <<>> /\ pc = "scan" /\ cur # None
    BY <2>3 DEF run, Typed
  <2>5. Path0 \in DOMAIN disk
    BY <2>4, CurrentFile
  <2> QED BY <2>3, <2>4, <2>5 DEF run
<1>4. CASE UNCHANGED vars
  BY <1>1, <1>4 DEF vars, run
<1> QED BY <1>2, <1>3, <1>4, CrashForms DEF Next, Begin

LEMMA NextFresh == Typed /\ Fresh /\ [Next]_vars => Fresh'
<1> SUFFICES ASSUME Typed, Fresh, [Next]_vars, "raced" \notin faults', cur' # None
             PROVE  \E got \in Reading :
                        /\ cur' = Initialize(disk'[Path0'], opt'.rot, got)
                        /\ faults' = {} => disk'[Path0'] = NoFile \/ (got.size /\ got.date)
  BY DEF Fresh, ReadAs
<1>1. faults \subseteq faults' /\ "raced" \notin faults
  BY HistoryStep
<1>2. Path0' = Path0 /\ opt' = opt
  BY CurStep DEF Path0, Name0
<1>3. CASE UNCHANGED disk /\ \E got \in Reading :
                       /\ cur' = Initialize(disk[Path0], opt.rot, got)
                       /\ faults' = {} => disk[Path0] = NoFile \/ (got.size /\ got.date)
  BY <1>2, <1>3
<1>4. CASE cur' = cur /\ disk'[Path0] = disk[Path0]
  <2>1. PICK got \in Reading :
            cur = Initialize(disk[Path0], opt.rot, got) /\ ReadAs(disk[Path0], got)
    BY <1>1, <1>4 DEF Fresh
  <2>2. faults' = {} => faults = {}
    BY <1>1
  <2> QED BY <1>2, <1>4, <2>1, <2>2 DEF ReadAs
<1> QED BY <1>3, <1>4, CurStep

-----------------------------------------------------------------------------
(* A record fits a content.                                                *)

\* Nothing failed, and every run has the same -r.
Trusted == SameRotation /\ faults = {}

\* Size and date are the content's, where they were read; all of them were, if
\* nothing failed.
Stamped(r, c) == r.fSize = Size(c) /\ r.fDate = Date(c)
Told(r, c) == StampOf(r, c) /\ (Trusted => Stamped(r, c))

\* Each hash is the content's own or was never computed.
Owns(r, c) == \A i \in Turn : r.iHash[i] \in {0, FreshHash(c, TRUE)[i]}

\* The record is the one a run without lists makes of the content.
Exact(r, c, rot) ==
    /\ r.iHash = FreshHash(c, rot)
    /\ r.ImageCanBeRotated \in {rot, HasTurns(r)}

Fits(r, c) == Told(r, c) /\ Owns(r, c) /\ (Trusted => Exact(r, c, opt.rot))

\* Every entry a run may still use fits a content its name has had, and every
\* listed one has the stamp of the content it was listed for.
Faithful ==
    "raced" \notin faults =>
        /\ \A e \in Known : \E c \in had[e.name] : Fits(e.img, c)
        /\ \A e \in Listed : Told(e.img, seen[e.name])

LEMMA TrustedStep ==
    ASSUME Typed, [Next]_vars
    PROVE  /\ Trusted' => Trusted
           /\ Trusted' => opt'.rot = opt.rot
<1>1. opt \in world.options /\ opt' \in world.options /\ world' = world
  BY NextTyped, HistoryStep DEF Typed, TypeOK
<1> QED BY <1>1, HistoryStep DEF Trusted, SameRotation

LEMMA FitsKept ==
    ASSUME Typed, [Next]_vars, NEW e, NEW q, NEW c, Kept(e, q), Fits(q.img, c)
    PROVE  Fits(e.img, c)'
<1> DEFINE r == e.img
           s == q.img
<1>1. /\ r.iHash = s.iHash /\ HasTurns(r) = HasTurns(s)
      /\ r.fSize = s.fSize /\ r.fDate = s.fDate
      /\ r.ImageCanBeRotated \in {s.ImageCanBeRotated, HasTurns(s)}
  BY DEF Kept, HasTurns
<1>2. Told(s, c) /\ Owns(s, c) /\ (Trusted => Exact(s, c, opt.rot))
  BY DEF Fits
<1> HIDE DEF r, s
<1>3. Told(r, c)'
  BY <1>1, <1>2, TrustedStep DEF Told, StampOf, Stamped
<1>4. Owns(r, c)'
  BY <1>1, <1>2 DEF Owns
<1>5. Trusted' => Exact(r, c, opt.rot)'
  BY <1>1, <1>2, TrustedStep DEF Exact
<1>6. Fits(r, c)'
  BY <1>3, <1>4, <1>5 DEF Fits
<1> QED BY <1>6 DEF r

LEMMA ToldKept ==
    ASSUME Typed, [Next]_vars, NEW r, NEW c, Told(r, c)
    PROVE  Told(r, c)'
  BY TrustedStep DEF Told, StampOf, Stamped

\* What Initialize reads are the size and date of the content.
LEMMA InitializeTells ==
    ASSUME NEW c \in Content \cup {NoFile}, NEW rot \in BOOLEAN, NEW got \in Reading
    PROVE  /\ StampOf(Initialize(c, rot, got), c)
           /\ c = NoFile \/ (got.size /\ got.date) => Stamped(Initialize(c, rot, got), c)
<1>1. c = NoFile => Size(c) = 0 /\ Date(c) = 0
  BY DEF Size, Date
<1> QED BY <1>1, InitializeIsImage DEF StampOf, Stamped

\* The record of the file just hashed fits what the file holds.
LEMMA FitsHashed ==
    ASSUME Typed, Fresh, [Next]_vars, "raced" \notin faults', NEW e, Hashed(e),
           NEW c, c = disk[Path0]
    PROVE  /\ Fits(e.img, c)'
           /\ e.name = Name0 /\ Name0 \in Name /\ c \in had[Name0]
<1>1. PICK calls \in world.calls :
          Hash0(calls) /\ e.name = Name0 /\ e.img = CalculateHash(cur, c, calls)
  BY DEF Hashed
<1>2. calls \in 0..4 /\ cur \in Image /\ cur # None /\ m_fv # <<>> /\ pc = "scan"
  BY <1>1, Hash0Typed, NoneIsNoImage
<1>3. c \in Content \cup {NoFile} /\ opt.rot \in BOOLEAN /\ Name0 \in Name /\ c \in had[Name0]
  BY <1>2, CurrentFile
<1>4. faults' = IF calls = 4 /\ c # NoFile THEN faults ELSE faults \cup {"failed"}
  BY <1>1 DEF Hash0
<1>5. PICK got \in Reading : cur = Initialize(c, opt.rot, got) /\ ReadAs(c, got)
  BY <1>2, <1>4 DEF Fresh
<1>6. PICK r : r = e.img
  OBVIOUS
<1>7. /\ r.ImageCanBeRotated = opt.rot
      /\ r.fSize = cur.fSize /\ r.fDate = cur.fDate
  BY <1>1, <1>2, <1>3, <1>5, <1>6, InitializeIsImage, CalculateHashIsImage
<1>8. Told(r, c)'
  <2>1. StampOf(cur, c)
    BY <1>3, <1>5, InitializeTells
  <2>2. Trusted' => Stamped(cur, c)
    BY <1>3, <1>5, InitializeTells, TrustedStep DEF Trusted, ReadAs
  <2> QED BY <1>7, <2>1, <2>2 DEF Told, StampOf, Stamped
<1>9. Owns(r, c)'
  <2>1. ASSUME NEW i \in Turn PROVE r.iHash[i] \in {0, FreshHash(c, TRUE)[i]}
    <3>1. r.iHash[i] = IF c.decodable /\ i < calls /\ (i = 0 \/ opt.rot)
                       THEN CallHash(c, i) ELSE 0
      BY <1>1, <1>2, <1>3, <1>5, <1>6, HashOfReading
    <3>2. FreshHash(c, TRUE)[i] = IF c.decodable THEN CallHash(c, i) ELSE 0
      <4> DEFINE b == TRUE
      <4>1. b \in BOOLEAN
        OBVIOUS
      <4> HIDE DEF b
      <4>2. FreshHash(c, b)[i] = IF c.decodable /\ (i = 0 \/ b) THEN CallHash(c, i) ELSE 0
        BY <1>3, <4>1, AnalysisHash
      <4> QED BY <4>2 DEF b
    <3> QED BY <3>1, <3>2
  <2> QED BY <2>1 DEF Owns
<1>10. Trusted' => Exact(r, c, opt.rot)'
  <2>1. ASSUME Trusted' PROVE calls = 4 /\ opt'.rot = opt.rot
    BY <1>4, <2>1, TrustedStep DEF Trusted
  <2>2. calls = 4 => r.iHash = FreshHash(c, opt.rot)
    BY <1>1, <1>3, <1>5, <1>6, CompleteHash
  <2> QED BY <1>7, <2>1, <2>2 DEF Exact
<1>11. Fits(r, c)'
  BY <1>8, <1>9, <1>10 DEF Fits
<1> QED BY <1>1, <1>3, <1>6, <1>11

\* Where an entry of the list comes from.
LEMMA ListedStep ==
    ASSUME Typed, ListedOnce, [Next]_vars, NEW e \in Listed'
    PROVE  \/ e \in Listed /\ seen'[e.name] = seen[e.name]
           \/ Told(e.img, seen[e.name])'
           \/ seen'[e.name] = disk[Path0] /\ Hashed(e)
<1>1. CASE UNCHANGED <<imageList, seen>>
  BY <1>1 DEF Listed
<1>2. CASE imageList' = <<>>
  BY <1>2 DEF Listed, Range
<1>3. ASSUME NEW i \in Image, Append0(i), m_fv # <<>>, pc = "scan", e \notin Listed
      PROVE  e.name = Name0 /\ e.img = i /\ seen'[e.name] = disk[Path0]
  <2>1. Listed' = Listed \cup {[name |-> Name0, img |-> i]} /\ seen'[Name0] = disk[Path0]
    BY <1>3, Append0Typed DEF Listed
  <2>2. [name |-> Name0, img |-> i].img = i /\ [name |-> Name0, img |-> i].name = Name0
    OBVIOUS
  <2> QED BY <1>3, <2>1, <2>2
<1>4. ASSUME NEW i \in Image, Append0(i), m_fv # <<>>, pc = "scan", e \in Listed
      PROVE  seen'[e.name] = seen[e.name]
  <2>1. Name0 \in Range(m_fv)
    BY <1>4, CurrentFile
  <2>2. e.name \in ListedNames /\ Name0 \notin ListedNames
    BY <1>4, <2>1 DEF ListedNames, ListedOnce
  <2>3. e.name \in DOMAIN seen \ {Name0}
    BY <2>2 DEF Typed
  <2> QED BY <1>4, <2>3, Append0Typed
<1>5. ASSUME NEW got \in world.opens, Open(got)
      PROVE  \/ e \in Listed /\ seen'[e.name] = seen[e.name]
             \/ Told(e.img, seen[e.name])'
  <2>1. pc = "scan" /\ m_fv # <<>> /\ got \in Reading
    BY <1>5, OpensAreReadings DEF Open
  <2>2. CASE /\ Name0 \in DOMAIN cache /\ Append0(cache[Name0])
             /\ SameFile(Initialize(disk[Path0], opt.rot, got), cache[Name0])
             /\ e \notin Listed
    <3>1. cache[Name0] \in Image
      BY <2>2 DEF Typed
    <3>2. PICK c \in Content \cup {NoFile} : c = disk[Path0]
      BY <2>1, CurrentFile
    <3>3. opt.rot \in BOOLEAN
      BY <2>1, CurrentFile
    <3>4. e.img = cache[Name0] /\ seen'[e.name] = c
      BY <1>3, <2>1, <2>2, <3>1, <3>2
    <3>5. PICK f : f = Initialize(c, opt.rot, got)
      OBVIOUS
    <3>6. e.img.fSize = f.fSize /\ e.img.fDate = f.fDate
      BY <2>2, <3>2, <3>4, <3>5 DEF SameFile
    <3>7. faults' = {} => c = NoFile \/ (got.size /\ got.date)
      BY <1>5, <3>2 DEF Open
    <3>8. StampOf(f, c) /\ (faults' = {} => Stamped(f, c))
      BY <2>1, <3>3, <3>5, <3>7, InitializeTells
    <3> QED BY <3>4, <3>6, <3>8 DEF Told, Trusted, StampOf, Stamped
  <2>3. CASE Name0 \in DOMAIN cache /\ Append0(cache[Name0]) /\ e \in Listed
    <3>1. cache[Name0] \in Image
      BY <2>3 DEF Typed
    <3> QED BY <1>4, <2>1, <2>3, <3>1
  <2>4. CASE UNCHANGED <<imageList, seen>>
    BY <2>4 DEF Listed
  <2> QED BY <1>5, <2>2, <2>3, <2>4 DEF Open
<1>6. ASSUME NEW calls \in world.calls, Hash0(calls)
      PROVE  \/ e \in Listed /\ seen'[e.name] = seen[e.name]
             \/ seen'[e.name] = disk[Path0] /\ Hashed(e)
  <2>1. CalculateHash(cur, disk[Path0], calls) \in Image /\ m_fv # <<>> /\ pc = "scan"
    BY <1>6, Hash0Typed
  <2>2. Append0(CalculateHash(cur, disk[Path0], calls))
    BY <1>6 DEF Hash0
  <2> QED BY <1>3, <1>4, <1>6, <2>1, <2>2 DEF Hashed
<1>7. CASE Save \/ SaveFails
  BY <1>1, <1>7, SaveForms DEF SaveList
<1>8. CASE User
  <2>1. PICK d, n, c : Change(d, n, c)
    BY <1>8, UserForms
  <2> QED BY <1>1, <2>1 DEF Change, run
<1>9. CASE ParseError \/ EndOfScan \/ UNCHANGED vars
  BY <1>1, <1>9 DEF ParseError, EndOfScan, vars, run
<1> QED BY <1>2, <1>5, <1>6, <1>7, <1>8, <1>9, CrashForms DEF Next, Work, Begin

\* The inductive invariant behind the two theorems below.
Provenance == Typed /\ ListedOnce /\ Fresh /\ Faithful

LEMMA NextFaithful == Provenance /\ [Next]_vars => Faithful'
<1> SUFFICES ASSUME Provenance, [Next]_vars, "raced" \notin faults'
             PROVE  /\ \A e \in Known' : \E c \in had'[e.name] : Fits(e.img, c)'
                    /\ \A e \in Listed' : Told(e.img, seen[e.name])'
  BY DEF Faithful
<1>0. Typed /\ ListedOnce /\ Fresh /\ Faithful
  BY DEF Provenance
<1>a. "raced" \notin faults /\ \A n \in Name : had[n] \subseteq had'[n]
  BY <1>0, HistoryStep
<1>1. ASSUME NEW e \in Known' PROVE \E c \in had'[e.name] : Fits(e.img, c)'
  <2>1. CASE \E q \in Known : Kept(e, q)
    <3>1. PICK q \in Known : Kept(e, q)
      BY <2>1
    <3>2. PICK c \in had[q.name] : Fits(q.img, c)
      BY <1>0, <1>a DEF Faithful
    <3>3. Fits(e.img, c)'
      BY <1>0, <3>1, <3>2, FitsKept
    <3>4. q.name \in Name /\ e.name = q.name
      BY <1>0, <3>1, KnownIsEntry DEF Entry, Kept
    <3> QED BY <1>a, <3>3, <3>4
  <2>2. CASE Hashed(e)
    <3>1. PICK c : c = disk[Path0]
      OBVIOUS
    <3>2. Fits(e.img, c)' /\ e.name \in Name /\ c \in had[e.name]
      BY <1>0, <2>2, <3>1, FitsHashed
    <3> QED BY <1>a, <3>2
  <2> QED BY <1>0, <2>1, <2>2, KnownStep
<1>2. ASSUME NEW e \in Listed' PROVE Told(e.img, seen[e.name])'
  <2>1. CASE e \in Listed /\ seen'[e.name] = seen[e.name]
    <3>1. PICK c : c = seen[e.name]
      OBVIOUS
    <3>2. Told(e.img, c)
      BY <1>0, <1>a, <2>1, <3>1 DEF Faithful
    <3>3. Told(e.img, c)'
      BY <1>0, <3>2, ToldKept
    <3> QED BY <2>1, <3>1, <3>3
  <2>2. CASE seen'[e.name] = disk[Path0] /\ Hashed(e)
    <3>1. PICK c : c = disk[Path0]
      OBVIOUS
    <3>2. Told(e.img, c)'
      BY <1>0, <2>2, <3>1, FitsHashed DEF Fits
    <3> QED BY <2>2, <3>1, <3>2
  <2> QED BY <1>0, <2>1, <2>2, ListedStep
<1> QED BY <1>1, <1>2

LEMMA InitProvenance == Init => Provenance
<1> SUFFICES ASSUME Init PROVE Provenance
  OBVIOUS
<1>1. listFile = <<>> /\ imageList = <<>> /\ cache = <<>> /\ cur = None
  BY DEF Init
<1>2. Known = {} /\ Listed = {}
  BY <1>1 DEF Known, Listed, Range
<1>3. ListedOnce
  BY DEF Init, ListedOnce, ListedNames, Listed, Range, IsInjective
<1> QED BY <1>1, <1>2, <1>3, InitTyped DEF Provenance, Fresh, Faithful

LEMMA ProvenanceHolds == Spec => []Provenance
<1>1. Provenance /\ [Next]_vars => Provenance'
  BY NextTyped, NextListedOnce, NextFresh, NextFaithful DEF Provenance
<1> QED BY <1>1, InitProvenance, PTL DEF Spec

\* Whatever is edited, deleted, copied, interrupted or torn, each hash listed
\* for a file was never computed, or is that of a content a file of this name
\* had, with the size of the file listed, written in the same second, unless a
\* file was changed while it was analysed.
THEOREM NoForeignHash == Spec => []NeverForeign
<1>1. Provenance => NeverForeign
  <2>1. \A e \in Listed : e \in Known
    BY DEF Known
  <2> QED BY <2>1 DEF Provenance, Faithful, Fits, Told, Owns, NeverForeign
<1> QED BY <1>1, ProvenanceHolds, PTL

\* With one -r for all runs, no passing failure and no race, the list file is a
\* cache, as far as size and second tell contents apart: what is listed from it
\* is what a run without it lists of the file, or of a content its name had of
\* the same size and second.
THEOREM ListFileIsCache == Spec => []CacheTransparent
<1>1. Provenance => CacheTransparent
  <2> SUFFICES ASSUME Provenance, SameRotation, faults = {}, NEW e \in Listed
               PROVE  /\ \E c \in had[e.name] :
                            /\ Size(c) = Size(seen[e.name])
                            /\ Date(c) = Date(seen[e.name])
                            /\ e.img.iHash = FreshHash(c, opt.rot)
                      /\ e.img.ImageCanBeRotated \in {opt.rot, HasTurns(e.img)}
    BY DEF CacheTransparent
  <2>1. e \in Known /\ Trusted
    BY DEF Known, Trusted
  <2>2. Told(e.img, seen[e.name])
    BY DEF Provenance, Faithful
  <2>3. PICK c \in had[e.name] : Fits(e.img, c)
    BY <2>1 DEF Provenance, Faithful
  <2> QED BY <2>1, <2>2, <2>3 DEF Fits, Told, Stamped, Exact
<1> QED BY <1>1, ProvenanceHolds, PTL

=============================================================================
