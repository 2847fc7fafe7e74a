----------------------- MODULE ImageComparerCmdProofs -----------------------
(***************************************************************************)
(* Theorems about ImageComparerCmd: for every disk, every layout of the    *)
(* directories, every outcome of a move or of the analysis of a file,      *)
(* whatever records the list files hold, and any number of runs, crashes   *)
(* and changes by the user.                                                *)
(***************************************************************************)
EXTENDS ImageComparerCmd, ListLemmas, ImageFileProofs, FiniteSetTheorems, TLAPS

Searchable == {p \in Path : p.place \in Under1 \cup Under2}

-----------------------------------------------------------------------------
(* Types.                                                                  *)

Typed ==
    /\ TypeOK
    /\ img \in [DOMAIN img -> Image] /\ imgBad \in [DOMAIN imgBad -> Image]
    /\ Range(m_fv) \cup Range(list) \cup Range(lBad) \subseteq Searchable

\* The file at l is erased for the one at w, neither before the iterator.
Erase(l, w, moved) ==
    /\ phase = "single"
    /\ l # w /\ iFile <= l
    /\ \/ IsSimiliar(img[list[l]], img[list[w]])
       \/ IsSimiliar(img[list[w]], img[list[l]])
    /\ FileMove(list[l], moved)
    /\ list' = RemoveAt(list, l)
    /\ beaten' = beaten \cup {<<list[l], list[w]>>}
    /\ dup' = IF moved THEN dup \cup {list[l]} ELSE dup
    /\ cDUP' = IF moved THEN cDUP + 1 ELSE cDUP
    /\ cERROR' = IF moved THEN cERROR ELSE cERROR + 1
    /\ iFile <= Len(list)
    /\ UNCHANGED <<phase, opt, m_fv, img, MoveSmaller, iFile, bad, past, faults, quiet, settled, edits>>

Passes ==
    /\ phase = "single"
    /\ iFile <= Len(list)
    /\ \A q \in (iFile + 1)..Len(list) : ~IsSimiliar(img[list[q]], img[list[iFile]])
    /\ iFile' = iFile + 1
    /\ UNCHANGED <<disk, phase, opt, m_fv, list, img, MoveSmaller, cDUP, cERROR, dup, beaten,
                   bad, past, faults, quiet, settled, edits>>

\* The pass takes its operators from its own copies of these modules.
LEMMA SameOperators ==
    /\ \A x, y : Pass!IsSimiliar(x, y) <=> IsSimiliar(x, y)
    /\ \A s, k : Pass!RemoveAt(s, k) = RemoveAt(s, k)
  BY DEF Pass!IsSimiliar, IsSimiliar, Pass!Turn, Turn, Pass!RemoveAt, RemoveAt

LEMMA FindNextIs ==
    ASSUME Typed, iFile <= Len(list), NEW j \in 1..Len(list), Pass!FindNext(iFile, j)
    PROVE  iFile \in 1..Len(list) /\ iFile < j /\ IsSimiliar(img[list[j]], img[list[iFile]])
<1>0. list \in Seq(Path) /\ iFile \in 1..(Len(list) + 1)
  BY DEF Typed, TypeOK
<1>1. j \in (iFile + 1)..Len(list) /\ Pass!IsSimiliar(img[list[j]], img[list[iFile]])
  BY DEF Pass!FindNext, Pass!SimilarAfter
<1>2. iFile < j /\ iFile \in 1..Len(list)
  BY <1>0, <1>1
<1> QED BY <1>1, <1>2, SameOperators

LEMMA SingleForms ==
    ASSUME Typed, Single
    PROVE  Passes \/ \E l, w \in 1..Len(list), moved \in BOOLEAN : Erase(l, w, moved)
<1>1. CASE Pass!Advance /\ UNCHANGED disk
  <2>1. Pass!SimilarAfter(iFile) = {} /\ iFile <= Len(list)
    BY <1>1 DEF Pass!Advance
  <2>2. \A q \in (iFile + 1)..Len(list) : ~IsSimiliar(img[list[q]], img[list[iFile]])
    BY <2>1, SameOperators DEF Pass!SimilarAfter
  <2> QED BY <1>1, <2>1, <2>2 DEF Single, Pass!Advance, Passes
<1>a. ASSUME NEW l, NEW w, NEW moved, Pass!SetAside(l, w, moved)
      PROVE  /\ list' = RemoveAt(list, l)
             /\ beaten' = beaten \cup {<<list[l], list[w]>>}
             /\ dup' = IF moved THEN dup \cup {list[l]} ELSE dup
             /\ cDUP' = IF moved THEN cDUP + 1 ELSE cDUP
             /\ cERROR' = IF moved THEN cERROR ELSE cERROR + 1
             /\ UNCHANGED <<img, MoveSmaller, iFile>>
  <2>1. list' = Pass!RemoveAt(list, l)
    BY <1>a DEF Pass!SetAside
  <2>2. list' = RemoveAt(list, l)
    BY <2>1, SameOperators
  <2> QED BY <1>a, <2>2 DEF Pass!SetAside
<1>b. /\ phase = "single"
      /\ UNCHANGED <<phase, opt, m_fv, bad, past, faults, quiet, settled, edits>>
  BY DEF Single
<1>2. ASSUME NEW j \in 1..Len(list), NEW moved \in BOOLEAN,
             Pass!FileIsWorse(j, moved), FileMove(list[iFile], moved)
      PROVE  Erase(iFile, j, moved) /\ iFile \in 1..Len(list)
  <2>1. iFile <= Len(list) /\ Pass!FindNext(iFile, j) /\ Pass!SetAside(iFile, j, moved)
    BY <1>2 DEF Pass!FileIsWorse
  <2>2. iFile \in 1..Len(list) /\ iFile < j /\ IsSimiliar(img[list[j]], img[list[iFile]])
    BY <2>1, FindNextIs
  <2> QED BY <1>2, <1>a, <1>b, <2>1, <2>2 DEF Erase
<1>3. ASSUME NEW j \in 1..Len(list), NEW moved \in BOOLEAN,
             Pass!FindIsWorse(j, moved), FileMove(list[j], moved)
      PROVE  Erase(j, iFile, moved) /\ iFile \in 1..Len(list)
  <2>1. iFile <= Len(list) /\ Pass!FindNext(iFile, j) /\ Pass!SetAside(j, iFile, moved)
    BY <1>3 DEF Pass!FindIsWorse
  <2>2. iFile \in 1..Len(list) /\ iFile < j /\ IsSimiliar(img[list[j]], img[list[iFile]])
    BY <2>1, FindNextIs
  <2> QED BY <1>3, <1>a, <1>b, <2>1, <2>2 DEF Erase
<1> QED BY <1>1, <1>2, <1>3 DEF Single

\* What a move does to the disk.
LEMMA MoveIs ==
    ASSUME disk \in [Path -> Content \cup {NoFile}], NEW p \in Searchable, NEW moved \in BOOLEAN,
           FileMove(p, moved)
    PROVE  /\ disk' \in [Path -> Content \cup {NoFile}]
           /\ ~moved => disk' = disk
           /\ moved => /\ disk[p] # NoFile
                       /\ Destination(p) \in Path /\ Destination(p) # p
                       /\ disk[Destination(p)] = NoFile
                       /\ disk'[p] = NoFile
                       /\ disk'[Destination(p)] = disk[p]
                       /\ \A r \in Path \ {p, Destination(p)} : disk'[r] = disk[r]
<1>1. p \in Path /\ Destination(p) \in Path
  BY PathAssumption DEF Searchable, Destination
<1>2. CASE moved
  <2>1. /\ disk[p] # NoFile /\ disk[Destination(p)] = NoFile
        /\ disk' = [disk EXCEPT ![p] = NoFile, ![Destination(p)] = disk[p]]
    BY <1>2 DEF FileMove, CanMove
  <2>2. PICK d \in Path : d = Destination(p)
    BY <1>1
  <2>3. d # p
    BY <2>1, <2>2
  <2> QED BY <1>1, <1>2, <2>1, <2>2, <2>3
<1>3. CASE ~moved
  BY <1>3 DEF FileMove
<1> QED BY <1>2, <1>3

LEMMA TypedFrom ==
    ASSUME (disk \in [Path -> Content \cup {NoFile}])',
           phase' \in {"idle", "scan", "scan2", "single", "template"}, opt' \in Options,
           m_fv' \in Seq(Path), list' \in Seq(Path), lBad' \in Seq(Path),
           Range(m_fv') \subseteq Searchable, Range(list') \subseteq Searchable,
           Range(lBad') \subseteq Searchable,
           Range(list') \subseteq DOMAIN img', (img \in [DOMAIN img -> Image])',
           Range(lBad') \subseteq DOMAIN imgBad', (imgBad \in [DOMAIN imgBad -> Image])',
           iFile' \in 1..(Len(list') + 1), cDUP' \in Nat, cERROR' \in Nat,
           dup' \subseteq Path, beaten' \subseteq Path \X Path,
           start' \in [Path -> Content \cup {NoFile}],
           quiet' \in BOOLEAN, again' \in BOOLEAN, settled' \subseteq Options,
           faults' \subseteq {"left", "misread"},
           runs' \in 0..MaxRuns, edits' \in 0..MaxEdits
    PROVE  Typed'
<1>1. Range(img)' \subseteq Image /\ Range(imgBad)' \subseteq Image
  BY DEF Range
<1>2. /\ Range(list)' = Range(list') /\ Range(m_fv)' = Range(m_fv')
      /\ Range(lBad)' = Range(lBad')
  BY DEF Range
<1> QED BY <1>1, <1>2 DEF Typed, TypeOK

LEMMA InitTyped == Init => Typed
<1> SUFFICES ASSUME Init PROVE Typed
  OBVIOUS
<1>1. disk \in [Path -> Content \cup {NoFile}] /\ start = disk
  BY PathAssumption DEF Init
<1>2. /\ m_fv = <<>> /\ list = <<>> /\ img = <<>> /\ lBad = <<>> /\ imgBad = <<>>
      /\ iFile = 1
  BY DEF Init
<1>3. Range(<<>>) = {} /\ <<>> \in Seq(Path) /\ <<>> \in [DOMAIN <<>> -> Image] /\ Len(<<>>) = 0
  BY DEF Range
<1>4. /\ img \in [DOMAIN img -> Image] /\ imgBad \in [DOMAIN imgBad -> Image]
      /\ Range(img) = {} /\ Range(imgBad) = {} /\ DOMAIN img = {} /\ DOMAIN imgBad = {}
  BY <1>2, <1>3
<1>5. /\ m_fv \in Seq(Path) /\ list \in Seq(Path) /\ lBad \in Seq(Path)
      /\ Range(m_fv) = {} /\ Range(list) = {} /\ Range(lBad) = {}
      /\ iFile \in 1..(Len(list) + 1)
  BY <1>2, <1>3
<1>6. /\ phase = "idle" /\ opt \in Options /\ cDUP = 0 /\ cERROR = 0 /\ dup = {} /\ beaten = {}
      /\ quiet = TRUE /\ settled = {} /\ again = FALSE /\ faults = {}
  BY DEF Init
<1>8. start \in [Path -> Content \cup {NoFile}]
  BY <1>1
<1>9. {cDUP, cERROR} \subseteq Nat /\ dup \subseteq Path /\ beaten \subseteq Path \X Path
  BY <1>6
<1>10. {quiet, again} \subseteq BOOLEAN /\ settled \subseteq Options /\ faults \subseteq {"left", "misread"}
  BY <1>6
<1>11. /\ Range(list) \subseteq DOMAIN img /\ Range(img) \subseteq Image
       /\ Range(lBad) \subseteq DOMAIN imgBad /\ Range(imgBad) \subseteq Image
       /\ {m_fv, list, lBad} \subseteq Seq(Path)
  BY <1>4, <1>5
<1>7. TypeOK
  <2>1. runs \in 0..MaxRuns /\ edits \in 0..MaxEdits
    BY PathAssumption DEF Init
  <2> QED BY <1>1, <1>5, <1>6, <1>8, <1>9, <1>10, <1>11, <2>1 DEF TypeOK
<1> QED BY <1>4, <1>5, <1>7 DEF Typed

LEMMA SearchIs ==
    ASSUME NEW places
    PROVE  /\ SearchFiles(places) \in Seq(Path)
           /\ IsInjective(SearchFiles(places))
           /\ Range(SearchFiles(places)) = {p \in Path : p.place \in places /\ disk[p] # NoFile}
<1> DEFINE W == {p \in Path : p.place \in places /\ disk[p] # NoFile}
<1>1. Order \in Seq(Path) /\ IsInjective(Order) /\ Range(Order) = Path
  BY PathAssumption DEF Path
<1>2. SearchFiles(places) = Keep(Order, W)
  BY DEF SearchFiles
<1>3. Path \cap W = W
  OBVIOUS
<1> HIDE DEF W
<1>4. /\ Keep(Order, W) \in Seq(Path) /\ IsInjective(Keep(Order, W))
      /\ Range(Keep(Order, W)) = Range(Order) \cap W
  BY <1>1, KeepIsListing
<1> QED BY <1>1, <1>2, <1>3, <1>4 DEF W

\* The record of a file of content c if it is read without a fault.
RecordOf(c, rot) == CalculateHash(Initialize(c, rot, All), c, 4)

LEMMA RecordIsImage ==
    ASSUME NEW c \in Content \cup {NoFile}, NEW rot \in BOOLEAN
    PROVE  /\ RecordOf(c, rot) \in Image
           /\ RecordOf(c, rot).iHash = FreshHash(c, rot)
           /\ RecordOf(c, rot).ImageCanBeRotated = rot
           /\ \A i \in Turn : RecordOf(c, rot).iHash[i] =
                  IF c.decodable /\ (i = 0 \/ rot) THEN CallHash(c, i) ELSE 0
<1>1. /\ Initialize(c, rot, All) \in Image /\ Initialize(c, rot, All).ImageCanBeRotated = rot
      /\ 4 \in 0..4
  BY InitializeIsImage, AllIsReading
<1>2. /\ RecordOf(c, rot) \in Image
      /\ RecordOf(c, rot).ImageCanBeRotated = rot
  BY <1>1, CalculateHashIsImage DEF RecordOf
<1>3. RecordOf(c, rot).iHash = FreshHash(c, rot)
  BY DEF RecordOf, FreshHash
<1> QED BY <1>2, <1>3, AnalysisHash

\* A record that has the hashes of a file of content c.
Reads(r, c, rot) == r.iHash = FreshHash(c, rot) /\ r.ImageCanBeRotated = rot

\* Nothing else of a record plays a part in what it is similar to.
LEMMA SimilarReads ==
    ASSUME NEW c \in Content \cup {NoFile}, NEW d \in Content \cup {NoFile}, NEW rot \in BOOLEAN,
           NEW r, NEW s, Reads(r, c, rot), Reads(s, d, rot)
    PROVE  IsSimiliar(r, s) <=> IsSimiliar(RecordOf(c, rot), RecordOf(d, rot))
  BY RecordIsImage DEF Reads, IsSimiliar

LEMMA OptIs ==
    ASSUME Typed
    PROVE  opt.rot \in BOOLEAN /\ opt.two \in BOOLEAN /\ opt.moveSmaller \in BOOLEAN
<1>1. opt \in [rot : BOOLEAN, moveSmaller : BOOLEAN, two : BOOLEAN, useLists : BOOLEAN]
  BY PathAssumption DEF Typed, TypeOK
<1> QED BY <1>1

LEMMA RecordsAreImages ==
    ASSUME Typed, NEW p \in Path, NEW r \in Records(p)
    PROVE  r \in Image
<1>0. disk[p] \in Content \cup {NoFile} /\ opt.rot \in BOOLEAN
  BY OptIs DEF Typed, TypeOK
<1>1. CASE r \in Stored
  BY <1>1, PathAssumption
<1>2. CASE r \notin Stored
  <2>1. PICK got \in Openings, calls \in Calls :
            r = CalculateHash(Initialize(disk[p], opt.rot, got), disk[p], calls)
    BY <1>2 DEF Records
  <2>2. got \in Reading /\ calls \in 0..4
    BY PathAssumption
  <2>3. Initialize(disk[p], opt.rot, got) \in Image
    BY <1>0, <2>2, InitializeIsImage
  <2> QED BY <1>0, <2>1, <2>2, <2>3, CalculateHashIsImage
<1> QED BY <1>1, <1>2

LEMMA ScanForms ==
    ASSUME Typed, ScanFile
    PROVE  \E p \in Path, r \in Image :
              /\ p = Last(m_fv) /\ p \in Searchable
              /\ m_fv \in Seq(Path) /\ m_fv # <<>>
              /\ m_fv' = Front(m_fv) /\ m_fv' \in Seq(Path)
              /\ Range(m_fv) = Range(m_fv') \cup {p}
              /\ disk[p] \in Content \cup {NoFile}
              /\ \/ Reads(r, disk[p], opt.rot) /\ faults' = faults
                 \/ faults' = faults \cup {"misread"}
              /\ \/ /\ phase = "scan"
                    /\ list' = Append(list, p)
                    /\ list' \in Seq(Path) /\ Len(list') = Len(list) + 1
                    /\ Range(list') = Range(list) \cup {p}
                    /\ DOMAIN img' = DOMAIN img \cup {p}
                    /\ img' \in [DOMAIN img' -> Image]
                    /\ img'[p] = r
                    /\ \A q \in DOMAIN img \ {p} : img'[q] = img[q]
                    /\ UNCHANGED bad
                 \/ /\ phase = "scan2"
                    /\ lBad' = Append(lBad, p)
                    /\ lBad' \in Seq(Path) /\ Len(lBad') = Len(lBad) + 1
                    /\ Range(lBad') = Range(lBad) \cup {p}
                    /\ DOMAIN imgBad' = DOMAIN imgBad \cup {p}
                    /\ imgBad' \in [DOMAIN imgBad' -> Image]
                    /\ imgBad'[p] = r
                    /\ \A q \in DOMAIN imgBad \ {p} : imgBad'[q] = imgBad[q]
                    /\ UNCHANGED <<list, img>>
<1> DEFINE p == Last(m_fv)
<1>1. m_fv \in Seq(Path) /\ list \in Seq(Path) /\ lBad \in Seq(Path) /\ m_fv # <<>>
  BY DEF Typed, TypeOK, ScanFile
<1>2. /\ p \in Path /\ Front(m_fv) \in Seq(Path)
      /\ Range(m_fv) = Range(Front(m_fv)) \cup {p}
  BY <1>1, FrontRange
<1>3. p \in Searchable /\ disk[p] \in Content \cup {NoFile}
  BY <1>2 DEF Typed, TypeOK
<1>4. PICK r \in Records(p) :
          /\ IF phase = "scan"
             THEN list' = Append(list, p) /\ img' = Put(img, p, r) /\ UNCHANGED bad
             ELSE /\ lBad' = Append(lBad, p) /\ imgBad' = Put(imgBad, p, r)
                  /\ UNCHANGED <<list, img>>
          /\ faults' = IF ReadRight(p, r) THEN faults ELSE faults \cup {"misread"}
  BY DEF ScanFile
<1>5. r \in Image
  BY <1>2, RecordsAreImages
<1>6. \/ Reads(r, disk[p], opt.rot) /\ faults' = faults
      \/ faults' = faults \cup {"misread"}
  BY <1>4 DEF ReadRight, Reads
<1>7. /\ phase \in {"scan", "scan2"} /\ m_fv' = Front(m_fv)
      /\ img \in [DOMAIN img -> Image] /\ imgBad \in [DOMAIN imgBad -> Image]
  BY DEF ScanFile, Typed
<1> HIDE DEF p
<1>8. CASE phase = "scan"
  <2>1. list' = Append(list, p) /\ img' = Put(img, p, r) /\ UNCHANGED bad
    BY <1>4, <1>8
  <2>2. /\ list' \in Seq(Path) /\ Len(list') = Len(list) + 1
        /\ Range(list') = Range(list) \cup {p}
    BY <1>1, <1>2, <2>1, AppendRange
  <2>3. /\ img' \in [DOMAIN img' -> Image]
        /\ DOMAIN img' = DOMAIN img \cup {p}
        /\ img'[p] = r
        /\ \A q \in DOMAIN img \ {p} : img'[q] = img[q]
    <3> DEFINE D == DOMAIN img
    <3>1. img \in [D -> Image] /\ img' = Put(img, p, r)
      BY <1>7, <2>1
    <3> HIDE DEF D
    <3>2. /\ img' \in [D \cup {p} -> Image]
          /\ DOMAIN img' = D \cup {p}
          /\ img'[p] = r
          /\ \A q \in D \ {p} : img'[q] = img[q]
      BY <1>5, <3>1 DEF Put
    <3> QED BY <3>2 DEF D
  <2> QED BY <1>1, <1>2, <1>3, <1>5, <1>6, <1>7, <1>8, <2>1, <2>2, <2>3 DEF p
<1>9. CASE phase = "scan2"
  <2>1. lBad' = Append(lBad, p) /\ imgBad' = Put(imgBad, p, r) /\ UNCHANGED <<list, img>>
    BY <1>4, <1>9
  <2>2. /\ lBad' \in Seq(Path) /\ Len(lBad') = Len(lBad) + 1
        /\ Range(lBad') = Range(lBad) \cup {p}
    BY <1>1, <1>2, <2>1, AppendRange
  <2>3. /\ imgBad' \in [DOMAIN imgBad' -> Image]
        /\ DOMAIN imgBad' = DOMAIN imgBad \cup {p}
        /\ imgBad'[p] = r
        /\ \A q \in DOMAIN imgBad \ {p} : imgBad'[q] = imgBad[q]
    <3> DEFINE D == DOMAIN imgBad
    <3>1. imgBad \in [D -> Image] /\ imgBad' = Put(imgBad, p, r)
      BY <1>7, <2>1
    <3> HIDE DEF D
    <3>2. /\ imgBad' \in [D \cup {p} -> Image]
          /\ DOMAIN imgBad' = D \cup {p}
          /\ imgBad'[p] = r
          /\ \A q \in D \ {p} : imgBad'[q] = imgBad[q]
      BY <1>5, <3>1 DEF Put
    <3> QED BY <3>2 DEF D
  <2> QED BY <1>1, <1>2, <1>3, <1>5, <1>6, <1>7, <1>9, <2>1, <2>2, <2>3 DEF p
<1> QED BY <1>7, <1>8, <1>9

LEMMA TypedParts ==
    ASSUME Typed
    PROVE  /\ disk \in [Path -> Content \cup {NoFile}]
           /\ m_fv \in Seq(Path) /\ list \in Seq(Path) /\ lBad \in Seq(Path)
           /\ Range(m_fv) \subseteq Searchable /\ Range(list) \subseteq Searchable
           /\ Range(lBad) \subseteq Searchable
           /\ Range(list) \subseteq DOMAIN img /\ img \in [DOMAIN img -> Image]
           /\ Range(lBad) \subseteq DOMAIN imgBad /\ imgBad \in [DOMAIN imgBad -> Image]
           /\ Len(list) \in Nat /\ iFile \in 1..(Len(list) + 1)
           /\ cDUP \in Nat /\ cERROR \in Nat
           /\ dup \subseteq Path /\ beaten \subseteq Path \X Path
           /\ start \in [Path -> Content \cup {NoFile}]
           /\ quiet \in BOOLEAN /\ again \in BOOLEAN /\ settled \subseteq Options
           /\ faults \subseteq {"left", "misread"}
           /\ opt \in Options
           /\ runs \in 0..MaxRuns /\ edits \in 0..MaxEdits
           /\ phase \in {"idle", "scan", "scan2", "single", "template"}
  BY DEF Typed, TypeOK

LEMMA BeginTyped ==
    ASSUME Typed, NEW o \in Options, Begin(o)
    PROVE  Typed'
<1>1. /\ m_fv' \in Seq(Path) /\ Range(m_fv') \subseteq Searchable
  BY SearchIs DEF Begin, Searchable
<1>2. /\ list' = <<>> /\ img' = <<>> /\ lBad' = <<>> /\ imgBad' = <<>>
      /\ iFile' = 1 /\ cDUP' = 0 /\ cERROR' = 0 /\ dup' = {} /\ beaten' = {}
  BY DEF Begin, FreshPass
<1>3. /\ list' \in Seq(Path) /\ lBad' \in Seq(Path) /\ Range(list') = {} /\ Range(lBad') = {}
      /\ img' \in [DOMAIN img' -> Image] /\ imgBad' \in [DOMAIN imgBad' -> Image]
      /\ iFile' \in 1..(Len(list') + 1)
  BY <1>2 DEF Range
<1>4. again' \in BOOLEAN /\ quiet' \in BOOLEAN /\ start' = disk /\ UNCHANGED <<disk, settled>>
      /\ phase' = "scan" /\ opt' = o /\ UNCHANGED edits /\ faults' = {}
  BY DEF Begin
<1>5. runs' \in 0..MaxRuns
  BY PathAssumption, TypedParts DEF Begin
<1> QED BY <1>1, <1>2, <1>3, <1>4, <1>5, TypedParts, TypedFrom

LEMMA ScanFileTyped ==
    ASSUME Typed, ScanFile
    PROVE  Typed'
<1>1. UNCHANGED <<disk, phase, opt, iFile, cDUP, cERROR, dup, beaten, past, quiet, settled, edits>>
  BY DEF ScanFile
<1>2. phase' \in {"scan", "scan2"}
  BY DEF ScanFile
<1>3. PICK p \in Searchable :
          /\ m_fv' \in Seq(Path)
          /\ faults' \in {faults, faults \cup {"misread"}}
          /\ Range(m_fv) = Range(m_fv') \cup {p}
          /\ \/ /\ list' \in Seq(Path) /\ Len(list') = Len(list) + 1
                /\ Range(list') = Range(list) \cup {p}
                /\ DOMAIN img' = DOMAIN img \cup {p}
                /\ img' \in [DOMAIN img' -> Image]
                /\ UNCHANGED bad
             \/ /\ lBad' \in Seq(Path)
                /\ Range(lBad') = Range(lBad) \cup {p}
                /\ DOMAIN imgBad' = DOMAIN imgBad \cup {p}
                /\ imgBad' \in [DOMAIN imgBad' -> Image]
                /\ UNCHANGED <<list, img>>
  BY ScanForms
<1>4. iFile' \in 1..(Len(list') + 1)
  BY <1>1, <1>3, TypedParts
<1> QED BY <1>1, <1>2, <1>3, <1>4, TypedParts, TypedFrom DEF past, bad

\* A file left out is one name less to analyse.
LEMMA LeftForms ==
    ASSUME Typed, ParseError
    PROVE  \E p \in Path :
              /\ m_fv \in Seq(Path) /\ m_fv # <<>>
              /\ m_fv' = Front(m_fv) /\ m_fv' \in Seq(Path)
              /\ Range(m_fv) = Range(m_fv') \cup {p}
              /\ faults' = faults \cup {"left"}
<1>1. m_fv \in Seq(Path) /\ m_fv # <<>> /\ m_fv' = Front(m_fv)
  BY DEF Typed, TypeOK, ParseError
<1>2. /\ Last(m_fv) \in Path /\ Front(m_fv) \in Seq(Path)
      /\ Range(m_fv) = Range(Front(m_fv)) \cup {Last(m_fv)}
  BY <1>1, FrontRange
<1> QED BY <1>1, <1>2 DEF ParseError

LEMMA EraseTyped ==
    ASSUME Typed, NEW l \in 1..Len(list), NEW w \in 1..Len(list), NEW moved \in BOOLEAN,
           Erase(l, w, moved)
    PROVE  /\ Typed'
           /\ list[l] \in Searchable /\ list[w] \in Searchable
           /\ list[l] \in Range(list) /\ list[w] \in Range(list)
           /\ Len(list') = Len(list) - 1
           /\ Range(list') \subseteq Range(list)
<1>1. list \in Seq(Path) /\ Range(list) \subseteq Searchable /\ DOMAIN list = 1..Len(list)
  BY TypedParts
<1>2. /\ list[l] \in Searchable /\ list[w] \in Searchable
      /\ list[l] \in Range(list) /\ list[w] \in Range(list)
  BY <1>1 DEF Range
<1>3. list' = RemoveAt(list, l)
  BY DEF Erase
<1>4. /\ list' \in Seq(Path) /\ Len(list') = Len(list) - 1
      /\ \A p \in 1..(Len(list) - 1) : list'[p] = IF p < l THEN list[p] ELSE list[p + 1]
  BY <1>1, <1>3, RemoveAtElements
<1>5. Range(list') \subseteq Range(list)
  <2>1. DOMAIN list' = 1..(Len(list) - 1) /\ Len(list) \in Nat
    BY <1>1, <1>4
  <2>2. ASSUME NEW p \in 1..(Len(list) - 1) PROVE list'[p] \in Range(list)
    <3>1. p \in DOMAIN list /\ p + 1 \in DOMAIN list
      BY <1>1, <2>1
    <3> QED BY <1>4, <3>1 DEF Range
  <2> QED BY <2>1, <2>2 DEF Range
<1>6. disk' \in [Path -> Content \cup {NoFile}]
  BY <1>2, TypedParts, MoveIs DEF Erase
<1>7. /\ iFile' \in 1..(Len(list') + 1)
  BY <1>4, TypedParts DEF Erase
<1>8. /\ dup' \subseteq Path /\ beaten' \subseteq Path \X Path /\ cDUP' \in Nat /\ cERROR' \in Nat
  <2>1. list[l] \in Path /\ list[w] \in Path
    BY <1>2 DEF Searchable
  <2>2. dup \subseteq Path /\ beaten \subseteq Path \X Path /\ cDUP \in Nat /\ cERROR \in Nat
    BY TypedParts
  <2>3. /\ beaten' = beaten \cup {<<list[l], list[w]>>}
        /\ dup' = IF moved THEN dup \cup {list[l]} ELSE dup
        /\ cDUP' = IF moved THEN cDUP + 1 ELSE cDUP
        /\ cERROR' = IF moved THEN cERROR ELSE cERROR + 1
    BY DEF Erase
  <2> QED BY <2>1, <2>2, <2>3
<1>9. UNCHANGED <<phase, opt, m_fv, img, MoveSmaller, iFile, bad, past, faults, quiet, settled, edits>>
      /\ phase = "single"
  BY DEF Erase
<1>10. Typed'
  BY <1>1, <1>4, <1>5, <1>6, <1>7, <1>8, <1>9, TypedParts, TypedFrom DEF bad, past
<1> QED BY <1>2, <1>4, <1>5, <1>10

\* One element of the second list: nothing is similar to it, or it is moved for
\* the first file that is.
Moves(q, moved) ==
    /\ IsSimiliar(img[list[q]], imgBad[Head(lBad)])
    /\ FileMove(Head(lBad), moved)
    /\ beaten' = beaten \cup {<<Head(lBad), list[q]>>}
    /\ dup' = IF moved THEN dup \cup {Head(lBad)} ELSE dup
    /\ cDUP' = IF moved THEN cDUP + 1 ELSE cDUP
    /\ cERROR' = IF moved THEN cERROR ELSE cERROR + 1

LEMMA TemplateForms ==
    ASSUME Typed, Template
    PROVE  /\ phase = "template"
           /\ UNCHANGED <<phase, opt, m_fv, list, img, imgBad, MoveSmaller, iFile, past,
                          faults, quiet, settled, edits>>
           /\ lBad' = Tail(lBad) /\ lBad' \in Seq(Path)
           /\ Range(lBad) = Range(lBad') \cup {Head(lBad)}
           /\ IsInjective(lBad) => IsInjective(lBad') /\ Head(lBad) \notin Range(lBad')
           /\ Head(lBad) \in Searchable
           /\ \/ /\ \A q \in 1..Len(list) : ~IsSimiliar(img[list[q]], imgBad[Head(lBad)])
                 /\ UNCHANGED <<disk, cDUP, cERROR, dup, beaten>>
              \/ \E q \in 1..Len(list), moved \in BOOLEAN : Moves(q, moved)
<1>1. lBad \in Seq(Path) /\ lBad # <<>> /\ lBad' = Tail(lBad)
  BY DEF Template, Typed, TypeOK
<1>2. /\ DOMAIN lBad = 1..Len(lBad) /\ Len(lBad) \in Nat \ {0} /\ Head(lBad) = lBad[1]
      /\ lBad' \in Seq(Path) /\ DOMAIN lBad' = 1..(Len(lBad) - 1)
      /\ \A p \in 1..(Len(lBad) - 1) : lBad'[p] = lBad[p + 1]
  BY <1>1
<1>3. Range(lBad) = Range(lBad') \cup {Head(lBad)}
  <2>1. ASSUME NEW p \in 1..Len(lBad)
        PROVE  lBad[p] = Head(lBad) \/ lBad[p] \in Range(lBad')
    <3>1. CASE p = 1
      BY <1>2, <3>1
    <3>2. CASE p # 1
      <4>1. p - 1 \in 1..(Len(lBad) - 1) /\ (p - 1) + 1 = p
        BY <1>2, <3>2
      <4>2. lBad'[p - 1] = lBad[p]
        BY <1>2, <4>1
      <4> QED BY <1>2, <4>1, <4>2 DEF Range
    <3> QED BY <3>1, <3>2
  <2>2. ASSUME NEW p \in 1..(Len(lBad) - 1)
        PROVE  lBad'[p] \in Range(lBad)
    <3>1. p + 1 \in 1..Len(lBad)
      BY <1>2
    <3> QED BY <1>2, <3>1 DEF Range
  <2>3. Head(lBad) \in Range(lBad)
    BY <1>2 DEF Range
  <2> QED BY <1>2, <2>1, <2>2, <2>3 DEF Range
<1>4. Head(lBad) \in Searchable
  BY <1>3, TypedParts
<1>5. IsInjective(lBad) => IsInjective(lBad') /\ Head(lBad) \notin Range(lBad')
  <2> SUFFICES ASSUME \A p, q \in 1..Len(lBad) : lBad[p] = lBad[q] => p = q
               PROVE  IsInjective(lBad') /\ Head(lBad) \notin Range(lBad')
    BY <1>2 DEF IsInjective
  <2>1. \A p \in 1..(Len(lBad) - 1) : p + 1 \in 1..Len(lBad)
    BY <1>2
  <2>2. \A p, q \in 1..(Len(lBad) - 1) : lBad'[p] = lBad'[q] => p = q
    BY <1>2, <2>1
  <2>3. \A p \in 1..(Len(lBad) - 1) : lBad'[p] # lBad[1]
    BY <1>2, <2>1
  <2> QED BY <1>2, <2>2, <2>3 DEF IsInjective, Range
<1>6. /\ phase = "template"
      /\ UNCHANGED <<phase, opt, m_fv, list, img, imgBad, MoveSmaller, iFile, past,
                     faults, quiet, settled, edits>>
  BY DEF Template
<1>7. \/ SimilarTemplates = {} /\ UNCHANGED <<disk, cDUP, cERROR, dup, beaten>>
      \/ \E q \in SimilarTemplates, moved \in BOOLEAN : Moves(q, moved)
  BY DEF Template, SimilarTemplates, Moves
<1> QED BY <1>1, <1>2, <1>3, <1>4, <1>5, <1>6, <1>7 DEF SimilarTemplates

LEMMA TemplateTyped ==
    ASSUME Typed, Template
    PROVE  Typed'
<1>1. /\ phase = "template"
      /\ UNCHANGED <<phase, opt, m_fv, list, img, imgBad, iFile, past, faults, quiet, settled, edits>>
      /\ lBad' \in Seq(Path) /\ Range(lBad') \subseteq Range(lBad)
      /\ Head(lBad) \in Searchable
  BY TemplateForms
<1>2. /\ disk' \in [Path -> Content \cup {NoFile}]
      /\ dup' \subseteq Path /\ beaten' \subseteq Path \X Path /\ cDUP' \in Nat /\ cERROR' \in Nat
  <2>1. CASE UNCHANGED <<disk, cDUP, cERROR, dup, beaten>>
    BY <2>1, TypedParts
  <2>2. ASSUME NEW q \in 1..Len(list), NEW moved \in BOOLEAN, Moves(q, moved)
        PROVE  /\ disk' \in [Path -> Content \cup {NoFile}]
               /\ dup' \subseteq Path /\ beaten' \subseteq Path \X Path
               /\ cDUP' \in Nat /\ cERROR' \in Nat
    <3>1. disk' \in [Path -> Content \cup {NoFile}]
      BY <1>1, <2>2, TypedParts, MoveIs DEF Moves
    <3>2. Head(lBad) \in Path /\ list[q] \in Path
      BY <1>1, TypedParts DEF Searchable
    <3>3. dup \subseteq Path /\ beaten \subseteq Path \X Path /\ cDUP \in Nat /\ cERROR \in Nat
      BY TypedParts
    <3> QED BY <2>2, <3>1, <3>2, <3>3 DEF Moves
  <2> QED BY <2>1, <2>2, TemplateForms
<1> QED BY <1>1, <1>2, TypedParts, TypedFrom DEF past

LEMMA NextTyped == Typed /\ [Next]_vars => Typed'
<1> SUFFICES ASSUME Typed, [Next]_vars PROVE Typed'
  OBVIOUS
<1>a. ASSUME UNCHANGED <<list, img, lBad, imgBad, iFile, cDUP, cERROR, dup, beaten, start, again,
                         opt, runs>>,
             edits' \in 0..MaxEdits,
             disk' \in [Path -> Content \cup {NoFile}],
             phase' \in {"idle", "scan", "scan2", "single", "template"},
             m_fv' \in Seq(Path), Range(m_fv') \subseteq Searchable,
             quiet' \in BOOLEAN, settled' \subseteq Options,
             faults' \subseteq {"left", "misread"}
      PROVE  Typed'
  BY <1>a, TypedParts, TypedFrom
<1>b. edits' = edits + 1 /\ edits < MaxEdits => edits' \in 0..MaxEdits
  BY PathAssumption, TypedParts
<1>1. CASE UNCHANGED vars
  BY <1>1, <1>a, TypedParts DEF vars, pass, bad, past, Typed, TypeOK
<1>2. CASE Scanned \/ Scanned2
  <2>1. m_fv' \in Seq(Path) /\ Range(m_fv') \subseteq Searchable
    BY <1>2, TypedParts, SearchIs DEF Scanned, Scanned2, Searchable
  <2> QED BY <1>2, <1>a, <2>1, TypedParts DEF Scanned, Scanned2, pass, bad, past
<1>3. CASE Finish \/ Crash
  BY <1>3, <1>a, TypedParts DEF Finish, Crash, pass, bad, past
<1>4. CASE Single
  <2>1. CASE Passes
    <3>1. iFile' \in 1..(Len(list') + 1)
      BY <2>1, TypedParts DEF Passes
    <3> QED BY <2>1, <3>1, TypedParts, TypedFrom DEF Passes, bad, past
  <2> QED BY <1>4, <2>1, SingleForms, EraseTyped
<1>5. CASE User
  <2>1. PICK p \in Path : (\E c \in Photos : Edit(p, c)) \/ Delete(p)
    BY <1>5 DEF User
  <2>2. ASSUME NEW c \in Photos, Edit(p, c) PROVE Typed'
    <3>1. c \in Content
      BY PathAssumption
    <3>2. disk' \in [Path -> Content \cup {NoFile}]
      BY <2>2, <3>1, TypedParts DEF Edit, Change
    <3> QED BY <2>2, <3>2, <1>a, <1>b, TypedParts DEF Edit, Change, pass, bad, past, Typed, TypeOK
  <2>3. CASE Delete(p)
    <3>1. disk' \in [Path -> Content \cup {NoFile}]
      BY <2>3, TypedParts DEF Delete, Change
    <3> QED BY <2>3, <3>1, <1>a, <1>b, TypedParts DEF Delete, Change, pass, bad, past, Typed, TypeOK
  <2> QED BY <2>1, <2>2, <2>3
<1>6. CASE ParseError
  <2>1. m_fv' \in Seq(Path) /\ Range(m_fv') \subseteq Range(m_fv)
    BY <1>6, LeftForms
  <2>2. faults' \subseteq {"left", "misread"}
    BY <1>6, TypedParts DEF ParseError
  <2> QED BY <1>6, <1>a, <2>1, <2>2, TypedParts DEF ParseError, pass, bad, past
<1> QED BY <1>1, <1>2, <1>3, <1>4, <1>5, <1>6, BeginTyped, ScanFileTyped, TemplateTyped DEF Next, Work

\* Each variable keeps its type, through runs, moves that fail, crashes and
\* changes by the user.
THEOREM ProgramTypeCorrect == Spec => []TypeOK
<1>1. Typed => TypeOK
  BY DEF Typed
<1> QED BY <1>1, InitTyped, NextTyped, PTL DEF Spec

LEMMA TypedHolds == Spec => []Typed
<1> QED BY InitTyped, NextTyped, PTL DEF Spec

-----------------------------------------------------------------------------
(* No picture is destroyed.                                                *)

LEMMA PathIsFinite == IsFiniteSet(Path)
<1>1. Order \in Seq(Path)
  BY PathAssumption
<1>2. DOMAIN Order = 1..Len(Order) /\ Len(Order) \in Nat
  BY <1>1
<1>3. IsFiniteSet(1..Len(Order))
  BY <1>2, FS_Interval
<1>4. Path = {Order[i] : i \in 1..Len(Order)}
  BY <1>2 DEF Path, Range
<1>5. Order \in Surjection(1..Len(Order), Path)
  BY <1>1, <1>2, <1>4 DEF Surjection
<1> QED BY <1>3, <1>5, FS_Surjection

\* The program changes the disk by moves only.
LEMMA OnlyMoves ==
    ASSUME Typed, [Next]_vars, edits' = edits
    PROVE  disk' = disk \/ \E p \in Searchable : FileMove(p, TRUE)
<1>1. CASE User
  <2>1. edits' = edits + 1 /\ edits \in Nat
    BY <1>1, PathAssumption, TypedParts DEF User, Edit, Delete, Change
  <2> QED BY <2>1
<1>2. CASE Single
  <2>1. ASSUME NEW l \in 1..Len(list), NEW w \in 1..Len(list), NEW moved \in BOOLEAN,
               Erase(l, w, moved)
        PROVE  disk' = disk \/ \E p \in Searchable : FileMove(p, TRUE)
    <3>1. list[l] \in Searchable /\ FileMove(list[l], moved)
      BY <2>1, EraseTyped DEF Erase
    <3>2. moved = TRUE \/ disk' = disk
      BY <3>1 DEF FileMove
    <3> QED BY <3>1, <3>2
  <2> QED BY <1>2, <2>1, SingleForms DEF Passes
<1>3. CASE Template
  <2>1. Head(lBad) \in Searchable
    BY <1>3, TemplateForms
  <2>2. disk' = disk \/ \E moved \in BOOLEAN : FileMove(Head(lBad), moved)
    BY <1>3, TemplateForms DEF Moves
  <2>3. ASSUME NEW moved \in BOOLEAN, FileMove(Head(lBad), moved)
        PROVE  moved = TRUE \/ disk' = disk
    BY <2>3 DEF FileMove
  <2> QED BY <2>1, <2>2, <2>3
<1> QED BY <1>1, <1>2, <1>3
        DEF Next, Work, Begin, ScanFile, ParseError, Scanned, Scanned2, Finish, Crash, vars

LEMMA MoveKeepsContents ==
    ASSUME disk \in [Path -> Content \cup {NoFile}], NEW p \in Searchable, FileMove(p, TRUE),
           NEW c \in Range(disk) \ {NoFile}
    PROVE  Cardinality({q \in Path : disk'[q] = c}) = Cardinality({q \in Path : disk[q] = c})
<1> DEFINE S == {q \in Path : disk[q] = c}
           T == {q \in Path : disk'[q] = c}
<1>1. PICK d \in Path :
          /\ d = Destination(p) /\ d # p
          /\ disk[d] = NoFile /\ disk'[p] = NoFile /\ disk'[d] = disk[p]
          /\ \A r \in Path \ {p, d} : disk'[r] = disk[r]
  BY MoveIs
<1>2. p \in Path /\ c # NoFile
  BY DEF Searchable
<1>3. CASE disk[p] = c
  <2>1. p \in S /\ d \notin S /\ T = (S \ {p}) \cup {d}
    BY <1>1, <1>2, <1>3
  <2>2. IsFiniteSet(S)
    BY PathIsFinite, FS_Subset
  <2> HIDE DEF S, T
  <2>3. IsFiniteSet(S \ {p}) /\ Cardinality(S \ {p}) = Cardinality(S) - 1
    BY <2>1, <2>2, FS_RemoveElement
  <2>4. d \notin S \ {p} /\ Cardinality(S) \in Nat
    BY <2>1, <2>2, FS_CardinalityType
  <2>5. Cardinality((S \ {p}) \cup {d}) = Cardinality(S \ {p}) + 1
    BY <2>3, <2>4, FS_AddElement
  <2>6. Cardinality(T) = Cardinality(S)
    BY <2>1, <2>3, <2>4, <2>5
  <2> QED BY <2>6 DEF S, T
<1>4. CASE disk[p] # c
  <2>1. T = S
    BY <1>1, <1>2, <1>4
  <2> QED BY <2>1
<1> QED BY <1>3, <1>4

\* Whatever the program does and wherever it is stopped, each content is on the
\* disk as often as before.
THEOREM PicturesAreKept == Spec => NothingLost
<1> DEFINE Kept == \A c \in Range(disk) \ {NoFile} :
               Cardinality({p \in Path : disk'[p] = c})
                   = Cardinality({p \in Path : disk[p] = c})
<1>1. ASSUME Typed, [Next]_vars, edits' = edits PROVE Kept
  <2>1. CASE disk' = disk
    BY <2>1
  <2>2. ASSUME NEW p \in Searchable, FileMove(p, TRUE) PROVE Kept
    BY <1>1, <2>2, TypedParts, MoveKeepsContents
  <2> QED BY <1>1, <2>1, <2>2, OnlyMoves
<1>2. Typed /\ [Next]_vars => [edits' = edits => Kept]_vars
  BY <1>1
<1> QED BY <1>2, TypedHolds, PTL DEF Spec, NothingLost

-----------------------------------------------------------------------------
(* What the records say of the files.                                      *)

LEMMA LookAlikeSymmetric ==
    ASSUME NEW c \in Content, NEW d \in Content, NEW rot \in BOOLEAN, LookAlike(c, d, rot)
    PROVE  LookAlike(d, c, rot)
<1> DEFINE T == IF rot THEN Turn ELSE {0}
<1>1. PICK s \in T, t \in T :
          <<Code[<<c.pic, (c.turn + s) % 4>>], Code[<<d.pic, (d.turn + t) % 4>>]>> \in Near
  BY DEF LookAlike
<1>2. T \subseteq 0..3
  BY DEF Turn
<1>3. ASSUME NEW b \in Content, NEW u \in T
      PROVE  Code[<<b.pic, (b.turn + u) % 4>>] \in Hash
  <2>1. b.turn \in 0..3 /\ b.pic \in Pic /\ u \in 0..3
    BY <1>2 DEF Content, Turn
  <2>2. (b.turn + u) % 4 \in Turn
    BY <2>1 DEF Turn
  <2>3. <<b.pic, (b.turn + u) % 4>> \in Pic \X Turn
    BY <2>1, <2>2
  <2> QED BY <2>3, CodeAssumption
<1>4. <<Code[<<d.pic, (d.turn + t) % 4>>], Code[<<c.pic, (c.turn + s) % 4>>]>> \in Near
  BY <1>1, <1>3, HashAssumption
<1> HIDE DEF T
<1>5. \E u, v \in T :
          <<Code[<<d.pic, (d.turn + u) % 4>>], Code[<<c.pic, (c.turn + v) % 4>>]>> \in Near
  BY <1>1, <1>4
<1> QED BY <1>5 DEF LookAlike, T

\* Similar records are of files that look alike, if the files have hashes.
LEMMA SimilarLookAlike ==
    ASSUME NEW c \in Content, NEW d \in Content, NEW rot \in BOOLEAN, Hashed(c), Hashed(d),
           IsSimiliar(RecordOf(c, rot), RecordOf(d, rot))
    PROVE  LookAlike(c, d, rot)
<1>1. ASSUME NEW b \in Content, Hashed(b), NEW i \in Turn, i = 0 \/ rot
      PROVE  RecordOf(b, rot).iHash[i] = Code[<<b.pic, (b.turn + Turned(i)) % 4>>]
  <2>1. RecordOf(b, rot).iHash[i] = CallHash(b, i)
    BY <1>1, RecordIsImage DEF Hashed
  <2> QED BY <1>1, <2>1 DEF CallHash, Hashed
<1>2. RecordOf(c, rot).ImageCanBeRotated = rot
  BY RecordIsImage
<1>3. /\ Turned(0) = 0 /\ Turned(1) = 1 /\ Turned(2) = 3 /\ Turned(3) = 2
      /\ Turn = {0, 1, 2, 3}
  BY DEF Turned, Turn
<1>4. CASE rot
  <2>1. PICK i \in Turn, j \in Turn : <<RecordOf(c, rot).iHash[i], RecordOf(d, rot).iHash[j]>> \in Near
    BY <1>2, <1>4 DEF IsSimiliar
  <2>2. Turned(i) \in Turn /\ Turned(j) \in Turn
    BY <1>3
  <2>3. <<Code[<<c.pic, (c.turn + Turned(i)) % 4>>], Code[<<d.pic, (d.turn + Turned(j)) % 4>>]>>
            \in Near
    BY <1>1, <1>4, <2>1
  <2> QED BY <1>4, <2>2, <2>3 DEF LookAlike
<1>5. CASE ~rot
  <2>1. <<RecordOf(c, rot).iHash[0], RecordOf(d, rot).iHash[0]>> \in Near
    BY <1>2, <1>5 DEF IsSimiliar
  <2>2. <<Code[<<c.pic, (c.turn + 0) % 4>>], Code[<<d.pic, (d.turn + 0) % 4>>]>> \in Near
    BY <1>1, <1>3, <2>1
  <2> QED BY <1>5, <2>2 DEF LookAlike
<1> QED BY <1>4, <1>5

\* The user leaves the files alone, and none has been misread.
Sound == quiet /\ "misread" \notin faults

\* And none has been left out.
Whole == Sound /\ "left" \notin faults

\* The record is that of the file as it was when the run began.
OfStart(p, r) == start[p] # NoFile /\ Reads(r, start[p], opt.rot)

SimilarAtStart(p, q) ==
    \/ IsSimiliar(RecordOf(start[p], opt.rot), RecordOf(start[q], opt.rot))
    \/ IsSimiliar(RecordOf(start[q], opt.rot), RecordOf(start[p], opt.rot))

AsStarted ==
    Sound =>
        /\ phase \in {"scan", "scan2"} =>
               disk = start /\ \A p \in Range(m_fv) : start[p] # NoFile
        /\ \A p \in Range(list) : OfStart(p, img[p])
        /\ \A p \in Range(lBad) : OfStart(p, imgBad[p])
        /\ \A pair \in beaten :
               /\ start[pair[1]] # NoFile /\ start[pair[2]] # NoFile
               /\ SimilarAtStart(pair[1], pair[2])

LEMMA AsStartedFrom ==
    ASSUME UNCHANGED <<start, opt>>, Sound' <=> Sound, AsStarted,
           phase' \in {"scan", "scan2"} => phase \in {"scan", "scan2"} /\ UNCHANGED disk,
           Sound => /\ \A p \in Range(m_fv') : phase' \in {"scan", "scan2"} => start[p] # NoFile
                    /\ \A p \in Range(list') : OfStart(p, img'[p])
                    /\ \A p \in Range(lBad') : OfStart(p, imgBad'[p])
                    /\ \A pair \in beaten' :
                           \/ pair \in beaten
                           \/ /\ start[pair[1]] # NoFile /\ start[pair[2]] # NoFile
                              /\ SimilarAtStart(pair[1], pair[2])
    PROVE  AsStarted'
<1>1. \A p, r : OfStart(p, r) => OfStart(p, r)'
  BY DEF OfStart
<1>2. \A p, q : SimilarAtStart(p, q) => SimilarAtStart(p, q)'
  BY DEF SimilarAtStart
<1>4. /\ Range(m_fv)' = Range(m_fv') /\ Range(list)' = Range(list') /\ Range(lBad)' = Range(lBad')
  BY DEF Range
<1> SUFFICES ASSUME Sound PROVE AsStarted'
  BY DEF AsStarted
<1>5. /\ phase' \in {"scan", "scan2"} =>
             disk' = start' /\ \A p \in Range(m_fv)' : start'[p] # NoFile
  BY <1>4 DEF AsStarted
<1>6. \A p \in Range(list)' : (OfStart(p, img[p]))'
  <2>1. ASSUME NEW p \in Range(list') PROVE OfStart(p, img[p])'
    <3>1. OfStart(p, img'[p])
      OBVIOUS
    <3> QED BY <3>1 DEF OfStart
  <2> QED BY <1>4, <2>1
<1>7. \A p \in Range(lBad)' : (OfStart(p, imgBad[p]))'
  <2>1. ASSUME NEW p \in Range(lBad') PROVE OfStart(p, imgBad[p])'
    <3>1. OfStart(p, imgBad'[p])
      OBVIOUS
    <3> QED BY <3>1 DEF OfStart
  <2> QED BY <1>4, <2>1
<1>8. \A pair \in beaten' :
               /\ start'[pair[1]] # NoFile /\ start'[pair[2]] # NoFile
               /\ SimilarAtStart(pair[1], pair[2])'
  BY <1>2 DEF AsStarted
<1> QED BY <1>5, <1>6, <1>7, <1>8 DEF AsStarted

LEMMA InitAsStarted == Init => AsStarted
<1> SUFFICES ASSUME Init PROVE AsStarted
  OBVIOUS
<1>1. /\ Range(m_fv) = {} /\ Range(list) = {} /\ Range(lBad) = {} /\ beaten = {}
      /\ phase = "idle"
  BY DEF Init, Range
<1> QED BY <1>1 DEF AsStarted

LEMMA NextAsStarted == Typed /\ AsStarted /\ [Next]_vars => AsStarted'
<1> SUFFICES ASSUME Typed, AsStarted, [Next]_vars PROVE AsStarted'
  OBVIOUS
<1>0. Sound =>
        /\ phase \in {"scan", "scan2"} =>
               disk = start /\ \A p \in Range(m_fv) : start[p] # NoFile
        /\ \A p \in Range(list) : OfStart(p, img[p])
        /\ \A p \in Range(lBad) : OfStart(p, imgBad[p])
  BY DEF AsStarted
<1>1. CASE UNCHANGED vars
  <2>1. UNCHANGED <<disk, phase, opt, m_fv, list, img, lBad, imgBad, beaten, start>>
        /\ (Sound' <=> Sound)
    BY <1>1 DEF vars, pass, bad, past, Sound
  <2>2. Range(m_fv') = Range(m_fv) /\ Range(list') = Range(list) /\ Range(lBad') = Range(lBad)
    BY <2>1
  <2> QED BY <1>0, <2>1, <2>2, AsStartedFrom
<1>2. ASSUME NEW o \in Options, Begin(o) PROVE AsStarted'
  <2>1. /\ start' = disk /\ disk' = disk /\ list' = <<>> /\ lBad' = <<>> /\ beaten' = {}
        /\ m_fv' = SearchFiles(Under1)
    BY <1>2 DEF Begin, FreshPass
  <2>2. \A p \in Range(m_fv') : start'[p] # NoFile
    BY <2>1, SearchIs
  <2>3. Range(list)' = {} /\ Range(lBad)' = {} /\ Range(m_fv)' = Range(m_fv')
    BY <2>1 DEF Range
  <2> QED BY <2>1, <2>2, <2>3 DEF AsStarted
<1>3. CASE ScanFile
  <2>0. CASE ~Sound'
    BY <2>0 DEF AsStarted
  <2>a. SUFFICES ASSUME Sound' PROVE AsStarted'
    BY <2>0
  <2>1. /\ UNCHANGED <<disk, phase, opt, beaten, start, quiet>> /\ phase \in {"scan", "scan2"}
    BY <1>3 DEF ScanFile, past
  <2>2. PICK p \in Path, r \in Image :
            /\ Range(m_fv) = Range(m_fv') \cup {p}
            /\ \/ Reads(r, disk[p], opt.rot) /\ faults' = faults
               \/ faults' = faults \cup {"misread"}
            /\ \/ /\ Range(list') = Range(list) \cup {p}
                  /\ img'[p] = r
                  /\ \A q \in DOMAIN img \ {p} : img'[q] = img[q]
                  /\ UNCHANGED bad
               \/ /\ Range(lBad') = Range(lBad) \cup {p}
                  /\ imgBad'[p] = r
                  /\ \A q \in DOMAIN imgBad \ {p} : imgBad'[q] = imgBad[q]
                  /\ UNCHANGED <<list, img>>
    BY <1>3, ScanForms
  <2>b. Sound /\ Reads(r, disk[p], opt.rot)
    BY <2>a, <2>1, <2>2 DEF Sound
  <2>3. OfStart(p, r)
    BY <1>0, <2>b, <2>1, <2>2 DEF OfStart
  <2>4. Range(list) \subseteq DOMAIN img /\ Range(lBad) \subseteq DOMAIN imgBad
    BY TypedParts
  <2>5. /\ \A q \in Range(list') : OfStart(q, img'[q])
        /\ \A q \in Range(lBad') : OfStart(q, imgBad'[q])
    <3>1. CASE /\ Range(list') = Range(list) \cup {p}
               /\ img'[p] = r
               /\ \A q \in DOMAIN img \ {p} : img'[q] = img[q]
               /\ UNCHANGED bad
      <4>1. ASSUME NEW q \in Range(list') PROVE OfStart(q, img'[q])
        <5>1. CASE q = p
          BY <2>3, <2>b, <3>1, <5>1
        <5>2. CASE q # p
          BY <1>0, <2>4, <2>b, <3>1, <5>2
        <5> QED BY <5>1, <5>2
      <4> QED BY <1>0, <2>b, <3>1, <4>1 DEF bad
    <3>2. CASE /\ Range(lBad') = Range(lBad) \cup {p}
               /\ imgBad'[p] = r
               /\ \A q \in DOMAIN imgBad \ {p} : imgBad'[q] = imgBad[q]
               /\ UNCHANGED <<list, img>>
      <4>1. ASSUME NEW q \in Range(lBad') PROVE OfStart(q, imgBad'[q])
        <5>1. CASE q = p
          BY <2>3, <2>b, <3>2, <5>1
        <5>2. CASE q # p
          BY <1>0, <2>4, <2>b, <3>2, <5>2
        <5> QED BY <5>1, <5>2
      <4> QED BY <1>0, <2>b, <3>2, <4>1
    <3> QED BY <2>2, <3>1, <3>2
  <2>6. Sound' <=> Sound
    BY <2>a, <2>b
  <2> QED BY <1>0, <2>1, <2>2, <2>5, <2>6, AsStartedFrom
<1>10. CASE ParseError
  <2>1. /\ UNCHANGED <<disk, phase, opt, list, img, bad, beaten, start, quiet>>
        /\ phase \in {"scan", "scan2"}
    BY <1>10 DEF ParseError, pass, past
  <2>2. Range(m_fv') \subseteq Range(m_fv) /\ faults' = faults \cup {"left"}
    BY <1>10, LeftForms
  <2>3. Sound' <=> Sound
    BY <2>1, <2>2 DEF Sound
  <2> QED BY <1>0, <2>1, <2>2, <2>3, AsStartedFrom DEF bad
<1>4. CASE Scanned
  <2>1. /\ UNCHANGED <<disk, opt, list, img, bad, beaten, start>> /\ (Sound' <=> Sound) /\ phase = "scan"
        /\ phase' \in {"scan", "scan2"} => m_fv' = SearchFiles(Under2)
    BY <1>4 DEF Scanned, past, pass, Sound
  <2>2. Sound => \A p \in Range(m_fv') : phase' \in {"scan", "scan2"} => start[p] # NoFile
    BY <1>0, <2>1, SearchIs
  <2> QED BY <1>0, <2>1, <2>2, AsStartedFrom DEF bad
<1>5. CASE Scanned2 \/ Finish \/ Crash
  <2>1. /\ UNCHANGED <<disk, opt, list, img, bad, beaten, start>> /\ (Sound' <=> Sound)
        /\ phase' \notin {"scan", "scan2"}
    BY <1>5 DEF Scanned2, Finish, Crash, past, pass, Sound
  <2> QED BY <1>0, <2>1, AsStartedFrom DEF bad
<1>6. CASE Passes
  <2>1. /\ UNCHANGED <<disk, opt, list, img, bad, beaten, start>> /\ (Sound' <=> Sound)
        /\ phase' \notin {"scan", "scan2"}
    BY <1>6 DEF Passes, past, Sound
  <2> QED BY <1>0, <2>1, AsStartedFrom DEF bad
<1>a. ASSUME NEW p \in Path, NEW q \in Path, NEW r, NEW s, OfStart(p, r), OfStart(q, s),
             IsSimiliar(r, s) \/ IsSimiliar(s, r)
      PROVE  start[p] # NoFile /\ start[q] # NoFile /\ SimilarAtStart(p, q)
  BY <1>a, TypedParts, OptIs, SimilarReads DEF OfStart, SimilarAtStart
<1>7. ASSUME NEW l \in 1..Len(list), NEW w \in 1..Len(list), NEW moved \in BOOLEAN,
             Erase(l, w, moved)
      PROVE  AsStarted'
  <2>1. /\ UNCHANGED <<opt, img, bad, start>> /\ (Sound' <=> Sound)
        /\ phase' \notin {"scan", "scan2"}
        /\ beaten' = beaten \cup {<<list[l], list[w]>>}
    BY <1>7 DEF Erase, past, Sound
  <2>2. /\ list[l] \in Range(list) /\ list[w] \in Range(list)
        /\ Range(list') \subseteq Range(list)
    BY <1>7, EraseTyped
  <2>3. Sound => /\ start[list[l]] # NoFile /\ start[list[w]] # NoFile
                 /\ SimilarAtStart(list[l], list[w])
    <3>1. \/ IsSimiliar(img[list[l]], img[list[w]])
          \/ IsSimiliar(img[list[w]], img[list[l]])
      BY <1>7 DEF Erase
    <3>2. list[l] \in Path /\ list[w] \in Path
      BY <2>2, TypedParts DEF Searchable
    <3> QED BY <1>0, <1>a, <2>2, <3>1, <3>2
  <2>4. \A pair \in beaten' : pair \in beaten \/ (pair[1] = list[l] /\ pair[2] = list[w])
    BY <2>1
  <2>5. Sound => \A pair \in beaten' :
                     \/ pair \in beaten
                     \/ /\ start[pair[1]] # NoFile /\ start[pair[2]] # NoFile
                        /\ SimilarAtStart(pair[1], pair[2])
    BY <2>3, <2>4
  <2> QED BY <1>0, <2>1, <2>2, <2>5, AsStartedFrom DEF bad
<1>8. CASE Template
  <2>1. /\ UNCHANGED <<phase, opt, list, img, imgBad, start>> /\ (Sound' <=> Sound)
        /\ phase' \notin {"scan", "scan2"}
        /\ Range(lBad) = Range(lBad') \cup {Head(lBad)}
    BY <1>8, TemplateForms DEF past, Sound
  <2>2. CASE beaten' = beaten
    BY <1>0, <2>1, <2>2, AsStartedFrom
  <2>3. ASSUME NEW q \in 1..Len(list), NEW moved \in BOOLEAN, Moves(q, moved) PROVE AsStarted'
    <3>1. list[q] \in Range(list) /\ Head(lBad) \in Range(lBad)
      <4>1. list \in Seq(Path)
        BY TypedParts
      <4>2. q \in DOMAIN list
        BY <4>1
      <4> QED BY <2>1, <4>2 DEF Range
    <3>2. Sound => /\ start[list[q]] # NoFile /\ start[Head(lBad)] # NoFile
                   /\ SimilarAtStart(Head(lBad), list[q])
      <4>1. IsSimiliar(img[list[q]], imgBad[Head(lBad)])
        BY <2>3 DEF Moves
      <4>2. list[q] \in Path /\ Head(lBad) \in Path
        BY <3>1, TypedParts DEF Searchable
      <4> QED BY <1>0, <1>a, <3>1, <4>1, <4>2
    <3>3. \A pair \in beaten' : pair \in beaten \/ (pair[1] = Head(lBad) /\ pair[2] = list[q])
      BY <2>3 DEF Moves
    <3>4. Sound => \A pair \in beaten' :
                     \/ pair \in beaten
                     \/ /\ start[pair[1]] # NoFile /\ start[pair[2]] # NoFile
                        /\ SimilarAtStart(pair[1], pair[2])
      BY <3>2, <3>3
    <3> QED BY <1>0, <2>1, <3>4, AsStartedFrom
  <2> QED BY <1>8, <2>2, <2>3, TemplateForms
<1>9. CASE User
  <2>1. ~Sound'
    BY <1>9 DEF User, Edit, Delete, Change, Sound
  <2> QED BY <2>1 DEF AsStarted
<1> QED BY <1>1, <1>2, <1>3, <1>4, <1>5, <1>6, <1>7, <1>8, <1>9, <1>10, SingleForms DEF Next, Work

\* Every file on the disk, now or when the run began, has hashes.
AllHashed == \A p \in Path : /\ disk[p] # NoFile => Hashed(disk[p])
                             /\ start[p] # NoFile => Hashed(start[p])

LEMMA InitAllHashed ==
    ASSUME PicturesHashed
    PROVE  Init => AllHashed
<1> SUFFICES ASSUME Init, NEW p \in Path, disk[p] # NoFile PROVE Hashed(disk[p]) /\ start = disk
  BY DEF AllHashed, Init
<1>1. disk \in Start0 /\ disk \in [Path -> Content \cup {NoFile}]
  BY PathAssumption DEF Init
<1>2. disk[p] \in Range(disk) \ {NoFile}
  BY <1>1 DEF Range
<1> QED BY <1>1, <1>2 DEF PicturesHashed, Init

LEMMA NextAllHashed ==
    ASSUME PicturesHashed
    PROVE  Typed /\ AllHashed /\ [Next]_vars => AllHashed'
<1> SUFFICES ASSUME Typed, AllHashed, [Next]_vars PROVE AllHashed'
  OBVIOUS
<1>1. start' \in {start, disk}
  BY SingleForms, TemplateForms
     DEF Next, Work, Begin, ScanFile, ParseError, Scanned, Scanned2, Erase, Passes, Finish, Crash, User,
         Edit, Delete, Change, past, vars
<1>2. ASSUME NEW p \in Path, disk'[p] # NoFile PROVE Hashed(disk'[p])
  <2>1. CASE edits' = edits
    <3>1. CASE disk' = disk
      BY <1>2, <3>1 DEF AllHashed
    <3>2. ASSUME NEW q \in Searchable, FileMove(q, TRUE) PROVE Hashed(disk'[p])
      <4>1. disk'[p] \in {NoFile, disk[q], disk[p]} /\ q \in Path
        BY <3>2, MoveIs, TypedParts DEF Searchable
      <4> QED BY <1>2, <4>1 DEF AllHashed
    <3> QED BY <2>1, <3>1, <3>2, OnlyMoves
  <2>2. CASE User
    <3>1. PICK q \in Path : (\E c \in Photos : Edit(q, c)) \/ Delete(q)
      BY <2>2 DEF User
    <3>2. CASE Delete(q)
      BY <1>2, <3>2, TypedParts DEF Delete, Change, AllHashed
    <3>3. ASSUME NEW c \in Photos, Edit(q, c) PROVE Hashed(disk'[p])
      <4>1. c \in Content /\ Hashed(c)
        BY PathAssumption DEF PicturesHashed
      <4>2. disk'[p] \in {c, disk[p]}
        BY <3>3, TypedParts DEF Edit, Change
      <4> QED BY <1>2, <4>1, <4>2 DEF AllHashed
    <3> QED BY <3>1, <3>2, <3>3
  <2>3. edits' # edits => User
    BY SingleForms, TemplateForms
       DEF Next, Work, Begin, ScanFile, ParseError, Scanned, Scanned2, Erase, Passes, Finish, Crash, vars
  <2> QED BY <2>1, <2>2, <2>3
<1> QED BY <1>1, <1>2 DEF AllHashed

\* Whatever is passed over, left out, moved or fails to be, and wherever a run is
\* stopped: with pictures that have hashes, none of them misread, a file is
\* treated as a duplicate only of one that looked like it when the run began.
THEOREM DuplicatesLookAlike ==
    ASSUME PicturesHashed
    PROVE  Spec => []MovedIsSimilar
<1>1. Typed /\ AsStarted /\ AllHashed => MovedIsSimilar
  <2> SUFFICES ASSUME Typed, AsStarted, AllHashed, Sound, NEW pair \in beaten
               PROVE  LookAlike(start[pair[1]], start[pair[2]], opt.rot)
    BY DEF MovedIsSimilar, Sound
  <2>1. pair[1] \in Path /\ pair[2] \in Path
    BY TypedParts
  <2>2. PICK c, d : c = start[pair[1]] /\ d = start[pair[2]]
    OBVIOUS
  <2>3. c # NoFile /\ d # NoFile /\ SimilarAtStart(pair[1], pair[2])
    BY <2>2 DEF AsStarted
  <2>4. c \in Content /\ d \in Content /\ Hashed(c) /\ Hashed(d) /\ opt.rot \in BOOLEAN
    BY <2>1, <2>2, <2>3, TypedParts, OptIs DEF AllHashed
  <2>5. \/ IsSimiliar(RecordOf(c, opt.rot), RecordOf(d, opt.rot))
        \/ IsSimiliar(RecordOf(d, opt.rot), RecordOf(c, opt.rot))
    BY <2>2, <2>3 DEF SimilarAtStart
  <2>6. LookAlike(c, d, opt.rot) \/ LookAlike(d, c, opt.rot)
    BY <2>4, <2>5, SimilarLookAlike
  <2> QED BY <2>2, <2>4, <2>6, LookAlikeSymmetric
<1> QED BY <1>1, InitTyped, NextTyped, InitAsStarted, NextAsStarted, InitAllHashed,
           NextAllHashed, PTL DEF Spec
-----------------------------------------------------------------------------
(* The lists of a run, and the files listed.                               *)

Lists ==
    /\ IsInjective(m_fv) /\ IsInjective(list) /\ IsInjective(lBad)
    /\ \A p \in Range(list) : p.place \in Under1
    /\ \A p \in Range(lBad) : p.place \in Under2
    /\ phase = "scan" =>
           /\ Range(m_fv) \cap Range(list) = {}
           /\ \A p \in Range(m_fv) : p.place \in Under1
    /\ phase = "scan2" =>
           /\ Range(m_fv) \cap Range(lBad) = {}
           /\ \A p \in Range(m_fv) : p.place \in Under2
    /\ phase \in {"scan", "single"} => Range(lBad) = {}
    /\ phase \in {"scan2", "template"} => opt.two
    /\ phase = "single" => ~opt.two

\* The files still listed are where they were when the run began.
Untouched ==
    Sound /\ phase # "idle" =>
        \A p \in Range(list) \cup Range(lBad) : disk[p] = start[p]

\* No file behind the iterator is similar to one after it.
Behind ==
    /\ phase = "scan" => iFile = 1
    /\ phase = "single" =>
           \A i \in 1..(iFile - 1) : \A j \in (i + 1)..Len(list) :
               ~IsSimiliar(img[list[j]], img[list[i]])

FilesIn(places) == {p \in Path : p.place \in places /\ disk[p] # NoFile}

Similar(p, q, rot) == IsSimiliar(RecordOf(disk[p], rot), RecordOf(disk[q], rot))

\* As long as no move failed and no file was left out, the files of the directories are those listed,
\* and those the pass over two lists found nothing similar to.
Covered ==
    Whole /\ phase # "idle" /\ cERROR = 0 =>
        /\ FilesIn(Under1) \subseteq
               Range(list) \cup IF phase = "scan" THEN Range(m_fv) ELSE {}
        /\ phase = "scan2" => FilesIn(Under2) \subseteq Range(m_fv) \cup Range(lBad)
        /\ phase = "template" =>
               \A p \in FilesIn(Under2) \ Range(lBad) : \A q \in Range(list) :
                   ~Similar(q, p, opt.rot)

\* A run with the command line o has no file to treat as a duplicate.
Nothing(o) ==
    IF o.two
    THEN \A p \in FilesIn(Under1), q \in FilesIn(Under2) : ~Similar(p, q, o.rot)
    ELSE \A p, q \in FilesIn(Under1) : p # q => ~Similar(p, q, o.rot)

Repeats ==
    /\ phase = "idle" => \A o \in settled : Nothing(o)
    /\ again /\ Sound => beaten = {} /\ (phase # "idle" => Nothing(opt))

\* Contents that nothing looks like but what is among them.
Closed(S) == \A c \in S, d \in Content : LookAlike(c, d, opt.rot) => d \in S

\* A class of look-alike pictures never goes from the directories searched.
ClassesStay ==
    Sound => \A S \in SUBSET Content :
        Closed(S) /\ (\E p \in Path : p.place \in Searched /\ start[p] \in S) =>
            \E q \in Path : q.place \in Searched /\ disk[q] \in S

LEMMA ListsFrom ==
    ASSUME IsInjective(m_fv'), IsInjective(list'), IsInjective(lBad'),
           \A p \in Range(list') : p.place \in Under1,
           \A p \in Range(lBad') : p.place \in Under2,
           phase' = "scan" => /\ Range(m_fv') \cap Range(list') = {}
                              /\ \A p \in Range(m_fv') : p.place \in Under1,
           phase' = "scan2" => /\ Range(m_fv') \cap Range(lBad') = {}
                               /\ \A p \in Range(m_fv') : p.place \in Under2,
           phase' \in {"scan", "single"} => Range(lBad') = {},
           phase' \in {"scan2", "template"} => opt'.two,
           phase' = "single" => ~opt'.two
    PROVE  Lists'
<1>1. /\ Range(m_fv)' = Range(m_fv') /\ Range(list)' = Range(list') /\ Range(lBad)' = Range(lBad')
  BY DEF Range
<1>2. /\ IsInjective(m_fv)' = IsInjective(m_fv') /\ IsInjective(list)' = IsInjective(list')
      /\ IsInjective(lBad)' = IsInjective(lBad')
  BY DEF IsInjective
<1> QED BY <1>1, <1>2 DEF Lists

LEMMA NoneListed == Range(<<>>) = {} /\ IsInjective(<<>>)
  BY DEF Range, IsInjective

LEMMA InitLists == Init => Lists
  BY NoneListed DEF Init, Lists

LEMMA NextLists == Typed /\ Lists /\ [Next]_vars => Lists'
<1> SUFFICES ASSUME Typed, Lists, [Next]_vars PROVE Lists'
  OBVIOUS
<1>0. /\ IsInjective(m_fv) /\ IsInjective(list) /\ IsInjective(lBad)
      /\ \A p \in Range(list) : p.place \in Under1
      /\ \A p \in Range(lBad) : p.place \in Under2
      /\ m_fv \in Seq(Path) /\ list \in Seq(Path) /\ lBad \in Seq(Path)
  BY TypedParts DEF Lists
<1>a. ASSUME UNCHANGED <<m_fv, list, lBad, opt>>, phase' \in {phase, "idle"} PROVE Lists'
  BY <1>0, <1>a, ListsFrom DEF Lists
<1>1. CASE UNCHANGED vars \/ Finish \/ Crash \/ Passes \/ User
  <2>1. UNCHANGED <<m_fv, list, lBad, opt>> /\ phase' \in {phase, "idle"}
    BY <1>1 DEF vars, pass, bad, Finish, Crash, Passes, User, Edit, Delete, Change
  <2> QED BY <1>a, <2>1
<1>2. ASSUME NEW o \in Options, Begin(o) PROVE Lists'
  <2>1. /\ list' = <<>> /\ lBad' = <<>> /\ phase' = "scan" /\ m_fv' = SearchFiles(Under1)
    BY <1>2 DEF Begin, FreshPass
  <2>2. IsInjective(m_fv') /\ \A p \in Range(m_fv') : p.place \in Under1
    BY <2>1, SearchIs
  <2> QED BY <2>1, <2>2, NoneListed, ListsFrom
<1>3. CASE ScanFile
  <2>1. UNCHANGED <<phase, opt>>
    BY <1>3 DEF ScanFile
  <2>2. PICK p \in Path :
            /\ p = Last(m_fv) /\ m_fv # <<>> /\ m_fv' = Front(m_fv)
            /\ Range(m_fv) = Range(m_fv') \cup {p}
            /\ \/ /\ phase = "scan" /\ list' = Append(list, p)
                  /\ Range(list') = Range(list) \cup {p}
                  /\ UNCHANGED bad
               \/ /\ phase = "scan2" /\ lBad' = Append(lBad, p)
                  /\ Range(lBad') = Range(lBad) \cup {p}
                  /\ UNCHANGED <<list, img>>
    BY <1>3, ScanForms
  <2>3. IsInjective(m_fv') /\ p \notin Range(m_fv')
    BY <1>0, <2>2, FrontRange
  <2>4. CASE phase = "scan"
    <3>1. p \notin Range(list) /\ p.place \in Under1
      BY <2>2, <2>4 DEF Lists
    <3>2. list' = Append(list, p)
      BY <2>2, <2>4
    <3>3. IsInjective(Append(list, p))
      BY <1>0, <3>1, AppendRange
    <3>4. IsInjective(list')
      BY <3>2, <3>3
    <3> QED BY <1>0, <2>1, <2>2, <2>3, <2>4, <3>1, <3>4, ListsFrom DEF Lists, bad
  <2>5. CASE phase = "scan2"
    <3>1. p \notin Range(lBad) /\ p.place \in Under2
      BY <2>2, <2>5 DEF Lists
    <3>2. lBad' = Append(lBad, p)
      BY <2>2, <2>5
    <3>3. IsInjective(Append(lBad, p))
      BY <1>0, <3>1, AppendRange
    <3>4. IsInjective(lBad')
      BY <3>2, <3>3
    <3> QED BY <1>0, <2>1, <2>2, <2>3, <2>5, <3>1, <3>4, ListsFrom DEF Lists
  <2> QED BY <2>2, <2>4, <2>5
<1>4. CASE Scanned
  <2>1. /\ phase = "scan" /\ UNCHANGED <<opt, list, lBad>>
        /\ \/ opt.two /\ phase' = "scan2" /\ m_fv' = SearchFiles(Under2)
           \/ ~opt.two /\ phase' = "single" /\ m_fv' = m_fv
    BY <1>4 DEF Scanned, pass, bad
  <2>2. Range(lBad) = {}
    BY <2>1 DEF Lists
  <2>3. /\ IsInjective(SearchFiles(Under2))
        /\ \A p \in Range(SearchFiles(Under2)) : p.place \in Under2
    BY SearchIs
  <2> QED BY <1>0, <2>1, <2>2, <2>3, ListsFrom
<1>5. CASE Scanned2
  <2>1. /\ phase = "scan2" /\ phase' = "template" /\ UNCHANGED <<opt, m_fv, list, lBad>>
    BY <1>5 DEF Scanned2, pass, bad
  <2>2. opt.two
    BY <2>1 DEF Lists
  <2> QED BY <1>0, <2>1, <2>2, ListsFrom
<1>6. ASSUME NEW l \in 1..Len(list), NEW w \in 1..Len(list), NEW moved \in BOOLEAN,
             Erase(l, w, moved)
      PROVE  Lists'
  <2>1. /\ phase = "single" /\ UNCHANGED <<phase, opt, m_fv, lBad>> /\ list' = RemoveAt(list, l)
    BY <1>6 DEF Erase, bad
  <2>2. IsInjective(list') /\ Range(list') \subseteq Range(list)
    BY <1>0, <2>1, RemoveAtRange
  <2>3. Range(lBad) = {} /\ ~opt.two
    BY <2>1 DEF Lists
  <2> QED BY <1>0, <2>1, <2>2, <2>3, ListsFrom
<1>7. CASE Template
  <2>1. /\ phase = "template" /\ UNCHANGED <<phase, opt, m_fv, list>>
        /\ IsInjective(lBad') /\ Range(lBad') \subseteq Range(lBad)
    BY <1>0, <1>7, TemplateForms
  <2>2. opt.two
    BY <2>1 DEF Lists
  <2> QED BY <1>0, <2>1, <2>2, ListsFrom
<1>8. CASE ParseError
  <2>1. UNCHANGED <<phase, opt, list, lBad>>
    BY <1>8 DEF ParseError, pass, bad
  <2>2. PICK p \in Path :
            /\ m_fv # <<>> /\ m_fv' = Front(m_fv)
            /\ Range(m_fv) = Range(m_fv') \cup {p}
    BY <1>8, LeftForms
  <2>3. IsInjective(m_fv')
    BY <1>0, <2>2, FrontRange
  <2> QED BY <1>0, <2>1, <2>2, <2>3, ListsFrom DEF Lists
<1> QED BY <1>1, <1>2, <1>3, <1>4, <1>5, <1>6, <1>7, <1>8, SingleForms DEF Next, Work

LEMMA MoveInPlaces ==
    ASSUME Typed, NEW p \in Searchable, NEW moved \in BOOLEAN, FileMove(p, moved)
    PROVE  /\ \A r \in Path \ {p} : disk[r] # NoFile => disk'[r] = disk[r]
           /\ DupApart => \A r \in Searchable \ {p} : disk'[r] = disk[r]
           /\ moved => disk'[p] = NoFile
           /\ ~moved => disk' = disk
<1>1. disk \in [Path -> Content \cup {NoFile}]
  BY TypedParts
<1>2. /\ ~moved => disk' = disk
      /\ moved => /\ disk[Destination(p)] = NoFile
                  /\ disk'[p] = NoFile
                  /\ \A r \in Path \ {p, Destination(p)} : disk'[r] = disk[r]
  BY <1>1, MoveIs
<1>3. DupApart => Destination(p) \notin Searchable
  <2>1. p \in Path /\ p.place \in Under1 \cup Under2
    BY DEF Searchable
  <2>2. p = [place |-> p.place, name |-> p.name]
    BY <2>1, PathAssumption
  <2>3. Destination(p).place = Dest[p.place]
    BY <2>2 DEF Destination
  <2> QED BY <2>1, <2>3 DEF DupApart, Searchable
<1> QED BY <1>1, <1>2, <1>3 DEF Searchable

LEMMA ListedSimilar ==
    ASSUME Typed, NEW p \in Path, NEW q \in Path, NEW r, NEW s,
           Reads(r, disk[p], opt.rot), Reads(s, disk[q], opt.rot)
    PROVE  IsSimiliar(r, s) <=> Similar(p, q, opt.rot)
<1>1. disk[p] \in Content \cup {NoFile} /\ disk[q] \in Content \cup {NoFile} /\ opt.rot \in BOOLEAN
  BY TypedParts, OptIs
<1> QED BY <1>1, SimilarReads DEF Similar

\* A run that has misread a file is not made good by its next steps.
LEMMA StaysSound ==
    ASSUME Typed, \/ UNCHANGED vars \/ ScanFile \/ ParseError \/ Scanned \/ Scanned2
                  \/ Passes \/ Finish \/ Crash
    PROVE  Sound' => Sound
<1>1. UNCHANGED quiet
  BY DEF vars, ScanFile, ParseError, Scanned, Scanned2, Passes, Finish, Crash
<1>2. faults \subseteq faults'
  BY ScanForms DEF vars, ParseError, Scanned, Scanned2, Passes, Finish, Crash
<1> QED BY <1>1, <1>2 DEF Sound

LEMMA UntouchedFrom ==
    ASSUME UNCHANGED <<start>>, Sound' <=> Sound, Untouched, phase' # "idle" => phase # "idle",
           Range(list') \subseteq Range(list), Range(lBad') \subseteq Range(lBad),
           Sound /\ phase' # "idle" =>
               \A p \in Range(list') \cup Range(lBad') : disk'[p] = disk[p]
    PROVE  Untouched'
<1>1. Range(list)' = Range(list') /\ Range(lBad)' = Range(lBad')
  BY DEF Range
<1> QED BY <1>1 DEF Untouched

\* What is known of a listed file while a run goes on.
LEMMA ListedFile ==
    ASSUME Typed, AsStarted, Untouched, Sound, phase # "idle"
    PROVE  /\ \A p \in Range(list) : /\ p \in Path /\ disk[p] # NoFile /\ disk[p] = start[p]
                                     /\ Reads(img[p], disk[p], opt.rot)
           /\ \A p \in Range(lBad) : /\ p \in Path /\ disk[p] # NoFile /\ disk[p] = start[p]
                                     /\ Reads(imgBad[p], disk[p], opt.rot)
<1>1. Range(list) \subseteq Path /\ Range(lBad) \subseteq Path
  BY TypedParts DEF Searchable
<1> QED BY <1>1 DEF AsStarted, OfStart, Untouched

\* The next element of the second list is not on the first one.
LEMMA HeadApart ==
    ASSUME DirectoriesApart, Typed, Lists, Template
    PROVE  Head(lBad) \notin Range(list) /\ Head(lBad) \notin Range(lBad')
<1>1. /\ phase = "template" /\ Head(lBad) \in Range(lBad)
      /\ IsInjective(lBad) => Head(lBad) \notin Range(lBad')
  BY TemplateForms
<1>2. Under1 \cap Under2 = {}
  <2>1. opt.two /\ opt \in Options
    BY <1>1, TypedParts DEF Lists
  <2> QED BY <2>1 DEF DirectoriesApart
<1> QED BY <1>1, <1>2 DEF Lists

LEMMA InitUntouched == Init => Untouched
  BY DEF Init, Untouched

LEMMA NextUntouched ==
    ASSUME DirectoriesApart
    PROVE  Typed /\ Lists /\ AsStarted /\ Untouched /\ [Next]_vars => Untouched'
<1> SUFFICES ASSUME Typed, Lists, AsStarted, Untouched, [Next]_vars PROVE Untouched'
  OBVIOUS
<1>1. CASE UNCHANGED vars \/ Scanned2 \/ Finish \/ Crash \/ Passes
  <2>1. UNCHANGED <<start, disk, list, lBad>> /\ (Sound' <=> Sound) /\ (phase' # "idle" => phase # "idle")
    BY <1>1 DEF vars, pass, bad, past, Scanned2, Finish, Crash, Passes, Sound
  <2> QED BY <2>1, UntouchedFrom
<1>2. ASSUME NEW o \in Options, Begin(o) PROVE Untouched'
  BY <1>2 DEF Begin, Untouched
<1>3. CASE ScanFile \/ ParseError \/ Scanned
  <2>1. phase \in {"scan", "scan2"} /\ UNCHANGED <<disk, start>>
    BY <1>3 DEF ScanFile, ParseError, Scanned, past
  <2>2. Sound' => Sound
    BY <1>3, StaysSound
  <2>3. Sound => disk = start
    BY <2>1 DEF AsStarted
  <2> QED BY <2>1, <2>2, <2>3 DEF Untouched
<1>4. ASSUME NEW l \in 1..Len(list), NEW w \in 1..Len(list), NEW moved \in BOOLEAN,
             Erase(l, w, moved)
      PROVE  Untouched'
  <2>1. /\ phase = "single" /\ UNCHANGED <<phase, start, lBad>> /\ (Sound' <=> Sound)
        /\ list' = RemoveAt(list, l) /\ FileMove(list[l], moved)
    BY <1>4 DEF Erase, bad, past, Sound
  <2>2. list[l] \in Searchable
    BY <1>4, EraseTyped
  <2>3. IsInjective(list) /\ Range(lBad) = {} /\ list \in Seq(Path)
    BY <2>1, TypedParts DEF Lists
  <2>4. Range(list') = Range(list) \ {list[l]}
    BY <2>1, <2>3, RemoveAtRange
  <2>5. \A r \in Path \ {list[l]} : disk[r] # NoFile => disk'[r] = disk[r]
    BY <2>1, <2>2, MoveInPlaces
  <2>6. Sound => \A p \in Range(list') : disk'[p] = disk[p]
    BY <2>1, <2>4, <2>5, ListedFile
  <2> QED BY <2>1, <2>3, <2>4, <2>6, UntouchedFrom
<1>5. CASE Template
  <2>1. /\ phase = "template" /\ UNCHANGED <<phase, start, list>> /\ (Sound' <=> Sound)
        /\ Range(lBad') \subseteq Range(lBad) /\ Head(lBad) \in Searchable
    BY <1>5, TemplateForms DEF past, Sound
  <2>2. CASE UNCHANGED disk
    BY <2>1, <2>2, UntouchedFrom
  <2>3. ASSUME NEW q \in 1..Len(list), NEW moved \in BOOLEAN, Moves(q, moved)
        PROVE  Untouched'
    <3>1. \A r \in Path \ {Head(lBad)} : disk[r] # NoFile => disk'[r] = disk[r]
      BY <2>1, <2>3, MoveInPlaces DEF Moves
    <3>2. Sound => \A p \in Range(list') \cup Range(lBad') : disk'[p] = disk[p]
      BY <1>5, <2>1, <3>1, ListedFile, HeadApart
    <3> QED BY <2>1, <3>2, UntouchedFrom
  <2> QED BY <1>5, <2>2, <2>3, TemplateForms
<1>6. CASE User
  BY <1>6 DEF User, Edit, Delete, Change, Untouched, Sound
<1> QED BY <1>1, <1>2, <1>3, <1>4, <1>5, <1>6, SingleForms DEF Next, Work

LEMMA InitBehind == Init => Behind
  BY DEF Init, Behind

LEMMA NextBehind == Typed /\ Behind /\ [Next]_vars => Behind'
<1> SUFFICES ASSUME Typed, Behind, [Next]_vars PROVE Behind'
  OBVIOUS
<1>0. list \in Seq(Path) /\ Len(list) \in Nat /\ iFile \in 1..(Len(list) + 1)
  BY TypedParts
<1>1. CASE UNCHANGED vars \/ User
  <2>1. UNCHANGED <<phase, iFile, list, img>>
    BY <1>1 DEF vars, pass, User, Edit, Delete, Change
  <2> QED BY <2>1 DEF Behind
<1>2. CASE Scanned2 \/ Finish \/ Crash \/ Template
  <2>1. phase' \notin {"scan", "single"}
    BY <1>2, TemplateForms DEF Scanned2, Finish, Crash
  <2> QED BY <2>1 DEF Behind
<1>3. ASSUME NEW o \in Options, Begin(o) PROVE Behind'
  BY <1>3 DEF Begin, FreshPass, Behind
<1>4. CASE ScanFile \/ ParseError
  <2>1. phase \in {"scan", "scan2"} /\ UNCHANGED <<phase, iFile>>
    BY <1>4 DEF ScanFile, ParseError, pass
  <2> QED BY <2>1 DEF Behind
<1>5. CASE Scanned
  <2>1. phase = "scan" /\ phase' # "scan" /\ iFile' = iFile
    BY <1>5 DEF Scanned, pass
  <2>2. iFile' = 1
    BY <2>1 DEF Behind
  <2> QED BY <2>1, <2>2 DEF Behind
<1>6. CASE Passes
  <2>1. /\ phase = "single" /\ iFile' = iFile + 1 /\ UNCHANGED <<phase, list, img>>
        /\ \A j \in (iFile + 1)..Len(list) : ~IsSimiliar(img[list[j]], img[list[iFile]])
    BY <1>6 DEF Passes
  <2>2. \A i \in 1..(iFile' - 1) : i = iFile \/ i \in 1..(iFile - 1)
    BY <1>0, <2>1
  <2>3. \A i \in 1..(iFile' - 1) : \A j \in (i + 1)..Len(list) :
            ~IsSimiliar(img[list[j]], img[list[i]])
    BY <2>1, <2>2 DEF Behind
  <2> QED BY <2>1, <2>3 DEF Behind
<1>7. ASSUME NEW l \in 1..Len(list), NEW w \in 1..Len(list), NEW moved \in BOOLEAN,
             Erase(l, w, moved)
      PROVE  Behind'
  <2>1. /\ phase = "single" /\ UNCHANGED <<phase, img, iFile>> /\ iFile <= l
        /\ list' = RemoveAt(list, l)
    BY <1>7 DEF Erase
  <2>2. /\ Len(list') = Len(list) - 1
        /\ \A p \in 1..(Len(list) - 1) : list'[p] = IF p < l THEN list[p] ELSE list[p + 1]
    BY <1>0, <2>1, RemoveAtElements
  <2>3. ASSUME NEW i \in 1..(iFile - 1), NEW j \in (i + 1)..(Len(list) - 1)
        PROVE  ~IsSimiliar(img[list'[j]], img[list'[i]])
    <3>1. i < l /\ i \in 1..(Len(list) - 1) /\ j \in 1..(Len(list) - 1)
      BY <1>0, <2>1
    <3>2. list'[i] = list[i]
      BY <2>2, <3>1
    <3>3. PICK k \in (i + 1)..Len(list) : list'[j] = list[k]
      <4>1. j \in (i + 1)..Len(list) /\ j + 1 \in (i + 1)..Len(list)
        BY <1>0, <3>1
      <4> QED BY <2>2, <3>1, <4>1
    <3>4. ~IsSimiliar(img[list[k]], img[list[i]])
      BY <2>1 DEF Behind
    <3> QED BY <3>2, <3>3, <3>4
  <2> QED BY <2>1, <2>2, <2>3 DEF Behind
<1> QED BY <1>1, <1>2, <1>3, <1>4, <1>5, <1>6, <1>7, SingleForms DEF Next, Work

LEMMA CoveredFrom ==
    ASSUME Whole' /\ phase' # "idle" /\ cERROR' = 0 =>
               /\ \A p \in Path : p.place \in Under1 /\ disk'[p] # NoFile =>
                      p \in Range(list') \/ (phase' = "scan" /\ p \in Range(m_fv'))
               /\ phase' = "scan2" =>
                      \A p \in Path : p.place \in Under2 /\ disk'[p] # NoFile =>
                          p \in Range(m_fv') \cup Range(lBad')
               /\ phase' = "template" =>
                      \A p \in Path : p.place \in Under2 /\ disk'[p] # NoFile =>
                          \/ p \in Range(lBad')
                          \/ \A q \in Range(list') :
                                 ~IsSimiliar(RecordOf(disk'[q], opt'.rot),
                                             RecordOf(disk'[p], opt'.rot))
    PROVE  Covered'
<1>1. /\ Range(m_fv)' = Range(m_fv') /\ Range(list)' = Range(list') /\ Range(lBad)' = Range(lBad')
  BY DEF Range
<1>2. /\ FilesIn(Under1)' = {p \in Path : p.place \in Under1 /\ disk'[p] # NoFile}
      /\ FilesIn(Under2)' = {p \in Path : p.place \in Under2 /\ disk'[p] # NoFile}
  BY DEF FilesIn
<1>3. \A p, q : Similar(q, p, opt.rot)'
                    <=> IsSimiliar(RecordOf(disk'[q], opt'.rot), RecordOf(disk'[p], opt'.rot))
  BY DEF Similar
<1> SUFFICES ASSUME Whole', phase' # "idle", cERROR' = 0
             PROVE  /\ FilesIn(Under1)' \subseteq
                           Range(list)' \cup IF phase' = "scan" THEN Range(m_fv)' ELSE {}
                    /\ phase' = "scan2" =>
                           FilesIn(Under2)' \subseteq Range(m_fv)' \cup Range(lBad)'
                    /\ phase' = "template" =>
                           \A p \in FilesIn(Under2)' \ Range(lBad)' : \A q \in Range(list)' :
                               ~Similar(q, p, opt.rot)'
  BY DEF Covered
<1>4. FilesIn(Under1)' \subseteq Range(list)' \cup IF phase' = "scan" THEN Range(m_fv)' ELSE {}
  BY <1>1, <1>2
<1>5. phase' = "scan2" => FilesIn(Under2)' \subseteq Range(m_fv)' \cup Range(lBad)'
  BY <1>1, <1>2
<1>6. phase' = "template" =>
          \A p \in FilesIn(Under2)' \ Range(lBad)' : \A q \in Range(list)' :
              ~Similar(q, p, opt.rot)'
  BY <1>1, <1>2, <1>3
<1> QED BY <1>4, <1>5, <1>6

LEMMA CoveredIs ==
    ASSUME Covered, Whole, phase # "idle", cERROR = 0
    PROVE  /\ \A p \in Path : p.place \in Under1 /\ disk[p] # NoFile =>
                  p \in Range(list) \/ (phase = "scan" /\ p \in Range(m_fv))
           /\ phase = "scan2" =>
                  \A p \in Path : p.place \in Under2 /\ disk[p] # NoFile =>
                      p \in Range(m_fv) \cup Range(lBad)
           /\ phase = "template" =>
                  \A p \in Path : p.place \in Under2 /\ disk[p] # NoFile =>
                      \/ p \in Range(lBad)
                      \/ \A q \in Range(list) :
                             ~IsSimiliar(RecordOf(disk[q], opt.rot), RecordOf(disk[p], opt.rot))
  BY DEF Covered, FilesIn, Similar

LEMMA InitCovered == Init => Covered
  BY DEF Init, Covered

LEMMA NextCovered ==
    ASSUME DirectoriesApart, DupApart
    PROVE  Typed /\ Lists /\ AsStarted /\ Untouched /\ Covered /\ [Next]_vars => Covered'
<1> SUFFICES ASSUME Typed, Lists, AsStarted, Untouched, Covered, [Next]_vars PROVE Covered'
  OBVIOUS
<1>1. CASE UNCHANGED vars \/ Passes
  <2>1. UNCHANGED <<phase, cERROR, disk, list, m_fv, lBad, opt>> /\ (Whole' <=> Whole)
    BY <1>1 DEF vars, pass, bad, Passes, Whole, Sound
  <2>2. UNCHANGED <<disk, list, m_fv, lBad>>
    BY <2>1
  <2> QED BY <2>1, CoveredIs, CoveredFrom
<1>2. CASE Finish \/ Crash \/ User
  <2>1. phase' = "idle" \/ ~Whole'
    BY <1>2 DEF Finish, Crash, User, Edit, Delete, Change, Whole, Sound
  <2> QED BY <2>1, CoveredFrom
<1>3. ASSUME NEW o \in Options, Begin(o) PROVE Covered'
  <2>1. phase' = "scan" /\ disk' = disk /\ m_fv' = SearchFiles(Under1)
    BY <1>3 DEF Begin
  <2>2. Range(m_fv') = {p \in Path : p.place \in Under1 /\ disk[p] # NoFile}
    BY <2>1, SearchIs
  <2> QED BY <2>1, <2>2, CoveredFrom
<1>4. CASE ScanFile
  <2>1. UNCHANGED <<phase, cERROR, disk, opt>> /\ phase \in {"scan", "scan2"}
    BY <1>4 DEF ScanFile
  <2>2. Whole' => Whole
    <3>1. Sound' => Sound
      BY <1>4, StaysSound
    <3>2. "left" \in faults => "left" \in faults'
      BY <1>4, ScanForms
    <3> QED BY <3>1, <3>2 DEF Whole
  <2>3. PICK p \in Path :
            /\ Range(m_fv) = Range(m_fv') \cup {p}
            /\ \/ /\ phase = "scan" /\ Range(list') = Range(list) \cup {p}
               \/ /\ phase = "scan2" /\ Range(lBad') = Range(lBad) \cup {p} /\ list' = list
    BY <1>4, ScanForms
  <2> QED BY <2>1, <2>2, <2>3, CoveredIs, CoveredFrom
<1>9. CASE ParseError
  <2>1. ~Whole'
    BY <1>9 DEF ParseError, Whole
  <2> QED BY <2>1, CoveredFrom
<1>5. CASE Scanned
  <2>1. /\ phase = "scan" /\ UNCHANGED <<cERROR, disk, list, opt>> /\ (Whole' <=> Whole) /\ m_fv = <<>>
        /\ \/ phase' = "scan2" /\ m_fv' = SearchFiles(Under2)
           \/ phase' = "single"
    BY <1>5 DEF Scanned, pass, Whole, Sound
  <2>2. Range(SearchFiles(Under2)) = {p \in Path : p.place \in Under2 /\ disk[p] # NoFile}
    BY SearchIs
  <2>3. Range(m_fv) = {}
    BY <2>1, NoneListed
  <2> QED BY <2>1, <2>2, <2>3, CoveredIs, CoveredFrom
<1>6. CASE Scanned2
  <2>1. /\ phase = "scan2" /\ UNCHANGED <<cERROR, disk, list, opt, lBad>> /\ (Whole' <=> Whole) /\ m_fv = <<>>
        /\ phase' = "template"
    BY <1>6 DEF Scanned2, pass, bad, Whole, Sound
  <2>2. Range(m_fv) = {}
    BY <2>1, NoneListed
  <2> QED BY <2>1, <2>2, CoveredIs, CoveredFrom
<1>7. ASSUME NEW l \in 1..Len(list), NEW w \in 1..Len(list), NEW moved \in BOOLEAN,
             Erase(l, w, moved)
      PROVE  Covered'
  <2>1. /\ phase = "single" /\ UNCHANGED <<phase>> /\ (Whole' <=> Whole)
        /\ list' = RemoveAt(list, l) /\ FileMove(list[l], moved)
        /\ cERROR' = IF moved THEN cERROR ELSE cERROR + 1
    BY <1>7 DEF Erase, Whole, Sound
  <2>2. list[l] \in Searchable
    BY <1>7, EraseTyped
  <2>3. IsInjective(list) /\ list \in Seq(Path) /\ cERROR \in Nat
    BY <2>1, TypedParts DEF Lists
  <2>4. Range(list') = Range(list) \ {list[l]}
    BY <2>1, <2>3, RemoveAtRange
  <2>5. cERROR' = 0 => moved /\ cERROR = 0
    BY <2>1, <2>3
  <2>6. /\ \A r \in Searchable \ {list[l]} : disk'[r] = disk[r]
        /\ moved => disk'[list[l]] = NoFile
    BY <2>1, <2>2, MoveInPlaces
  <2> QED BY <2>1, <2>4, <2>5, <2>6, CoveredIs, CoveredFrom DEF Searchable
<1>8. CASE Template
  <2>1. /\ phase = "template" /\ UNCHANGED <<phase, list, opt, img, imgBad>> /\ (Whole' <=> Whole)
        /\ Range(lBad) = Range(lBad') \cup {Head(lBad)} /\ Head(lBad) \in Searchable
        /\ cERROR \in Nat
    BY <1>8, TemplateForms, TypedParts DEF Whole, Sound
  <2>2. CASE /\ \A q \in 1..Len(list) : ~IsSimiliar(img[list[q]], imgBad[Head(lBad)])
             /\ UNCHANGED <<disk, cDUP, cERROR, dup, beaten>>
    <3>1. \A q \in Range(list) : ~IsSimiliar(img[q], imgBad[Head(lBad)])
      <4>1. list \in Seq(Path)
        BY TypedParts
      <4> QED BY <2>2, <4>1 DEF Range
    <3>2. Sound => \A q \in Range(list) :
              ~IsSimiliar(RecordOf(disk[q], opt.rot), RecordOf(disk[Head(lBad)], opt.rot))
      BY <2>1, <3>1, ListedFile, ListedSimilar DEF Similar
    <3> QED BY <2>1, <2>2, <3>2, CoveredIs, CoveredFrom DEF Whole
  <2>3. ASSUME NEW k \in 1..Len(list), NEW moved \in BOOLEAN, Moves(k, moved)
        PROVE  Covered'
    <3>1. cERROR' = 0 => moved /\ cERROR = 0
      BY <2>1, <2>3 DEF Moves
    <3>2. /\ \A r \in Searchable \ {Head(lBad)} : disk'[r] = disk[r]
          /\ moved => disk'[Head(lBad)] = NoFile
      BY <2>1, <2>3, MoveInPlaces DEF Moves
    <3>3. \A q \in Range(list) : disk'[q] = disk[q]
      <4>1. Range(list) \subseteq Searchable /\ Head(lBad) \notin Range(list)
        BY <1>8, HeadApart, TypedParts
      <4> QED BY <3>2, <4>1
    <3>4. ASSUME NEW p \in Path, p.place \in Under1 \cup Under2, disk'[p] # NoFile, moved
          PROVE  p # Head(lBad) /\ disk'[p] = disk[p]
      BY <3>2, <3>4 DEF Searchable
    <3> QED BY <2>1, <3>1, <3>3, <3>4, CoveredIs, CoveredFrom
  <2> QED BY <1>8, <2>2, <2>3, TemplateForms
<1> QED BY <1>1, <1>2, <1>3, <1>4, <1>5, <1>6, <1>7, <1>8, <1>9, SingleForms DEF Next, Work

-----------------------------------------------------------------------------
(* A settled run is repeated in vain.                                      *)

\* With the same -r for both, a record is similar to another one or not,
\* whichever is asked.
LEMMA SimilarSymmetric ==
    ASSUME NEW c \in Content \cup {NoFile}, NEW d \in Content \cup {NoFile}, NEW rot \in BOOLEAN,
           IsSimiliar(RecordOf(c, rot), RecordOf(d, rot))
    PROVE  IsSimiliar(RecordOf(d, rot), RecordOf(c, rot))
<1> DEFINE x == RecordOf(c, rot)
           y == RecordOf(d, rot)
<1>1. /\ x \in Image /\ y \in Image /\ x.ImageCanBeRotated = rot /\ y.ImageCanBeRotated = rot
      /\ IsSimiliar(x, y)
  BY RecordIsImage
<1> HIDE DEF x, y
<1>2. \A i, j \in Turn : <<x.iHash[i], y.iHash[j]>> \in Near => <<y.iHash[j], x.iHash[i]>> \in Near
  <2>1. \A i \in Turn : x.iHash[i] \in Hash /\ y.iHash[i] \in Hash
    BY <1>1 DEF Image
  <2> QED BY <2>1, HashAssumption
<1>3. IsSimiliar(y, x)
  BY <1>1, <1>2 DEF IsSimiliar, Turn
<1> QED BY <1>3 DEF x, y

\* A run that ends with no error or fault leaves nothing to a run with the same options.
LEMMA FinishSettles ==
    ASSUME Typed, Lists, AsStarted, Untouched, Behind, Covered, Finish, Whole, cERROR = 0
    PROVE  Nothing(opt)
<1>0. /\ list \in Seq(Path) /\ Len(list) \in Nat /\ iFile \in 1..(Len(list) + 1)
      /\ disk \in [Path -> Content \cup {NoFile}] /\ opt.rot \in BOOLEAN
  BY TypedParts, OptIs
<1>1. CASE phase = "single" /\ Pass!Done
  <2>1. ~opt.two /\ iFile = Len(list) + 1
    BY <1>0, <1>1 DEF Lists, Pass!Done
  <2>2. ASSUME NEW p \in FilesIn(Under1), NEW q \in FilesIn(Under1), p # q
        PROVE  ~Similar(p, q, opt.rot)
    <3>1. p \in Range(list) /\ q \in Range(list)
      BY <1>1 DEF Covered
    <3>2. PICK i \in 1..Len(list), j \in 1..Len(list) : p = list[i] /\ q = list[j]
      BY <1>0, <3>1 DEF Range
    <3>3. Reads(img[p], disk[p], opt.rot) /\ Reads(img[q], disk[q], opt.rot)
      BY <1>1, <3>1, ListedFile DEF Whole
    <3>4. p \in Path /\ q \in Path
      BY DEF FilesIn
    <3>5. CASE i < j
      <4>1. i \in 1..(iFile - 1) /\ j \in (i + 1)..Len(list)
        BY <1>0, <2>1, <3>5
      <4>2. ~IsSimiliar(img[q], img[p])
        BY <1>1, <3>2, <4>1 DEF Behind
      <4>3. disk[p] \in Content \cup {NoFile} /\ disk[q] \in Content \cup {NoFile}
        BY <1>0, <3>4
      <4> QED BY <1>0, <3>3, <3>4, <4>2, <4>3, SimilarSymmetric, ListedSimilar DEF Similar
    <3>6. CASE j < i
      <4>1. j \in 1..(iFile - 1) /\ i \in (j + 1)..Len(list)
        BY <1>0, <2>1, <3>6
      <4>2. ~IsSimiliar(img[p], img[q])
        BY <1>1, <3>2, <4>1 DEF Behind
      <4> QED BY <3>3, <3>4, <4>2, ListedSimilar
    <3>7. i < j \/ j < i
      BY <1>0, <2>2, <3>2
    <3> QED BY <3>5, <3>6, <3>7
  <2> QED BY <2>1, <2>2 DEF Nothing
<1>2. CASE phase = "template" /\ lBad = <<>>
  <2>1. opt.two /\ Range(lBad) = {}
    BY <1>2, NoneListed DEF Lists
  <2>2. FilesIn(Under1) \subseteq Range(list)
    BY <1>2 DEF Covered
  <2>3. \A p \in FilesIn(Under2) : \A q \in Range(list) : ~Similar(q, p, opt.rot)
    BY <1>2, <2>1 DEF Covered
  <2> QED BY <2>1, <2>2, <2>3 DEF Nothing
<1> QED BY <1>1, <1>2 DEF Finish

LEMMA RepeatsFrom ==
    ASSUME disk' = disk,
           phase' = "idle" => \A o \in settled' : Nothing(o),
           again' /\ Sound' => beaten' = {} /\ (phase' # "idle" => Nothing(opt'))
    PROVE  Repeats'
<1>1. \A o : Nothing(o) => Nothing(o)'
  BY DEF Nothing, FilesIn, Similar
<1>2. Nothing(opt)' <=> Nothing(opt')
  BY DEF Nothing, FilesIn, Similar
<1> QED BY <1>1, <1>2 DEF Repeats

LEMMA InitRepeats == Init => Repeats
  BY DEF Init, Repeats

LEMMA NextRepeats ==
    Typed /\ Lists /\ AsStarted /\ Untouched /\ Behind /\ Covered /\ Repeats /\ [Next]_vars
        => Repeats'
<1> SUFFICES ASSUME Typed, Lists, AsStarted, Untouched, Behind, Covered, Repeats, [Next]_vars
             PROVE  Repeats'
  OBVIOUS
<1>0. /\ phase = "idle" => \A o \in settled : Nothing(o)
      /\ again /\ Sound => beaten = {} /\ (phase # "idle" => Nothing(opt))
  BY DEF Repeats
<1>1. CASE UNCHANGED vars \/ ScanFile \/ ParseError \/ Scanned \/ Scanned2 \/ Passes
  <2>1. /\ UNCHANGED <<disk, settled, again, beaten, opt>>
        /\ phase' = "idle" <=> phase = "idle"
    BY <1>1 DEF vars, pass, past, ScanFile, ParseError, Scanned, Scanned2, Passes
  <2>2. Sound' => Sound
    BY <1>1, StaysSound
  <2> QED BY <1>0, <2>1, <2>2, RepeatsFrom
<1>2. CASE Finish
  <2>1. /\ UNCHANGED <<disk, again, beaten>> /\ (Sound' <=> Sound) /\ phase' = "idle"
        /\ settled' = IF quiet /\ cERROR = 0 /\ faults = {} THEN {opt} ELSE {}
    BY <1>2 DEF Finish, pass, past, Sound
  <2>2. quiet /\ faults = {} => Whole
    BY DEF Whole, Sound
  <2> QED BY <1>0, <1>2, <2>1, <2>2, FinishSettles, RepeatsFrom
<1>3. CASE Crash
  <2>1. UNCHANGED <<disk, again, beaten>> /\ (Sound' <=> Sound) /\ phase' = "idle" /\ settled' = {}
    BY <1>3 DEF Crash, pass, past, Sound
  <2> QED BY <1>0, <2>1, RepeatsFrom
<1>4. CASE User
  <2>1. ~Sound' /\ settled' = {}
    BY <1>4 DEF User, Edit, Delete, Change, Sound
  <2> QED BY <2>1 DEF Repeats
<1>5. ASSUME NEW o \in Options, Begin(o) PROVE Repeats'
  <2>1. /\ phase = "idle" /\ phase' = "scan" /\ disk' = disk /\ opt' = o /\ beaten' = {}
        /\ again' <=> settled = {o}
    BY <1>5 DEF Begin, FreshPass
  <2>2. again' => Nothing(o)
    BY <1>0, <2>1
  <2> QED BY <2>1, <2>2, RepeatsFrom
<1>6. ASSUME NEW l \in 1..Len(list), NEW w \in 1..Len(list), NEW moved \in BOOLEAN,
             Erase(l, w, moved)
      PROVE  Repeats'
  <2>1. /\ phase = "single" /\ UNCHANGED <<phase, again>> /\ (Sound' <=> Sound) /\ l # w
        /\ IsSimiliar(img[list[l]], img[list[w]]) \/ IsSimiliar(img[list[w]], img[list[l]])
    BY <1>6 DEF Erase, past, Sound
  <2>2. list[l] \in Range(list) /\ list[w] \in Range(list)
    BY <1>6, EraseTyped
  <2>3. list[l] # list[w] /\ ~opt.two
    <3>1. list \in Seq(Path)
      BY TypedParts
    <3>2. l \in DOMAIN list /\ w \in DOMAIN list
      BY <3>1
    <3> QED BY <2>1, <3>2 DEF Lists, IsInjective
  <2>4. ASSUME Sound PROVE ~Nothing(opt)
    <3>1. \A p \in Range(list) : p \in FilesIn(Under1) /\ Reads(img[p], disk[p], opt.rot)
      BY <2>1, <2>4, ListedFile DEF FilesIn, Lists
    <3> QED BY <2>1, <2>2, <2>3, <3>1, ListedSimilar DEF Nothing, FilesIn
  <2>5. ~(again' /\ Sound')
    BY <1>0, <2>1, <2>4
  <2> QED BY <2>1, <2>5 DEF Repeats
<1>7. CASE Template
  <2>1. /\ phase = "template" /\ UNCHANGED <<phase, again, opt, settled>> /\ (Sound' <=> Sound)
        /\ Head(lBad) \in Range(lBad)
    BY <1>7, TemplateForms DEF past, Sound
  <2>2. CASE UNCHANGED <<disk, cDUP, cERROR, dup, beaten>>
    BY <1>0, <2>1, <2>2, RepeatsFrom
  <2>3. ASSUME NEW k \in 1..Len(list), NEW moved \in BOOLEAN, Moves(k, moved)
        PROVE  Repeats'
    <3>1. list[k] \in Range(list)
      <4>1. list \in Seq(Path)
        BY TypedParts
      <4> QED BY <4>1 DEF Range
    <3>2. IsSimiliar(img[list[k]], imgBad[Head(lBad)]) /\ opt.two
      BY <2>1, <2>3 DEF Moves, Lists
    <3>3. ASSUME Sound PROVE ~Nothing(opt)
      <4>1. /\ \A p \in Range(list) : p \in FilesIn(Under1) /\ Reads(img[p], disk[p], opt.rot)
            /\ \A p \in Range(lBad) :
                   p \in FilesIn(Under2) /\ Reads(imgBad[p], disk[p], opt.rot)
        BY <2>1, <3>3, ListedFile DEF FilesIn, Lists
      <4> QED BY <2>1, <3>1, <3>2, <4>1, ListedSimilar DEF Nothing, FilesIn
    <3>4. ~(again' /\ Sound')
      BY <1>0, <2>1, <3>3
    <3> QED BY <2>1, <3>4 DEF Repeats
  <2> QED BY <1>7, <2>2, <2>3, TemplateForms
<1> QED BY <1>1, <1>2, <1>3, <1>4, <1>5, <1>6, <1>7, SingleForms DEF Next, Work

\* With the directories and DUP apart, a run that ended with no error, left out
\* no file and misread none is repeated in vain by one that misreads none: what
\* is left in the directories are no two similar files, whatever crashes, moves
\* that failed and files left out came before.
THEOREM SettledRunsRepeatInVain ==
    ASSUME DirectoriesApart, DupApart
    PROVE  Spec => []RepeatFindsNothing
<1>1. Repeats => RepeatFindsNothing
  BY DEF Repeats, RepeatFindsNothing, Sound
<1> QED BY <1>1, InitTyped, NextTyped, InitLists, NextLists, InitAsStarted, NextAsStarted,
           InitUntouched, NextUntouched, InitBehind, NextBehind, InitCovered, NextCovered,
           InitRepeats, NextRepeats, PTL DEF Spec

-----------------------------------------------------------------------------
(* One of each picture stays.                                              *)

LEMMA AlikeOnDisk ==
    ASSUME Typed, AllHashed, NEW p \in Path, NEW q \in Path, disk[p] # NoFile, disk[q] # NoFile,
           Similar(p, q, opt.rot) \/ Similar(q, p, opt.rot)
    PROVE  disk[p] \in Content /\ disk[q] \in Content /\ LookAlike(disk[p], disk[q], opt.rot)
<1>1. PICK c, d : c = disk[p] /\ d = disk[q]
  OBVIOUS
<1>2. c \in Content /\ d \in Content /\ Hashed(c) /\ Hashed(d) /\ opt.rot \in BOOLEAN
  BY <1>1, TypedParts, OptIs DEF AllHashed
<1>3. \/ IsSimiliar(RecordOf(c, opt.rot), RecordOf(d, opt.rot))
      \/ IsSimiliar(RecordOf(d, opt.rot), RecordOf(c, opt.rot))
  BY <1>1 DEF Similar
<1>4. LookAlike(c, d, opt.rot)
  BY <1>2, <1>3, SimilarLookAlike, LookAlikeSymmetric
<1> QED BY <1>1, <1>2, <1>4

LEMMA ClassesFrom ==
    ASSUME Typed, ClassesStay, UNCHANGED <<start, opt>>, Sound' => Sound,
           Sound => \A S \in SUBSET Content : \A q \in Path :
               Closed(S) /\ q.place \in Searched /\ disk[q] \in S =>
                   \E r \in Path : r.place \in Searched /\ disk'[r] \in S
    PROVE  ClassesStay'
<1>1. Searched' = Searched /\ \A S : Closed(S)' <=> Closed(S)
  BY DEF Searched, Closed
<1> QED BY <1>1 DEF ClassesStay

\* A file is moved for another one that looks like it and stays.
LEMMA MoveLeavesOne ==
    ASSUME Typed, ClassesStay, UNCHANGED <<start, opt>>, Sound' => Sound,
           NEW x \in Searchable, NEW w \in Path, NEW moved \in BOOLEAN, FileMove(x, moved),
           Sound => /\ x # w /\ w.place \in Searched /\ disk[w] \in Content
                    /\ LookAlike(disk[x], disk[w], opt.rot)
    PROVE  ClassesStay'
<1>1. ASSUME Sound, NEW S \in SUBSET Content, NEW q \in Path, Closed(S), q.place \in Searched,
             disk[q] \in S
      PROVE  \E r \in Path : r.place \in Searched /\ disk'[r] \in S
  <2>1. \A r \in Path \ {x} : disk[r] # NoFile => disk'[r] = disk[r]
    BY MoveInPlaces
  <2>2. CASE q = x
    <3>1. disk[w] \in S
      BY <1>1, <2>2 DEF Closed
    <3>2. disk[w] # NoFile
      BY <1>1, NoFileIsNoContent
    <3>3. disk'[w] = disk[w]
      BY <1>1, <2>1, <3>2
    <3> QED BY <1>1, <3>1, <3>3
  <2>3. CASE q # x
    <3>1. disk[q] # NoFile
      BY <1>1, NoFileIsNoContent
    <3>2. disk'[q] = disk[q]
      BY <2>1, <2>3, <3>1
    <3> QED BY <1>1, <3>2
  <2> QED BY <2>2, <2>3
<1> QED BY <1>1, ClassesFrom

LEMMA InitClasses == Init => ClassesStay
<1> SUFFICES ASSUME Init PROVE ClassesStay
  OBVIOUS
<1>1. start = disk
  BY DEF Init
<1> QED BY <1>1 DEF ClassesStay

LEMMA NextClasses ==
    ASSUME DirectoriesApart
    PROVE  Typed /\ Lists /\ AsStarted /\ Untouched /\ AllHashed /\ ClassesStay /\ [Next]_vars
               => ClassesStay'
<1> SUFFICES ASSUME Typed, Lists, AsStarted, Untouched, AllHashed, ClassesStay, [Next]_vars
             PROVE  ClassesStay'
  OBVIOUS
<1>1. CASE UNCHANGED vars \/ ScanFile \/ ParseError \/ Scanned \/ Scanned2 \/ Passes
           \/ Finish \/ Crash
  <2>1. UNCHANGED <<disk, start, opt>>
    BY <1>1 DEF vars, past, ScanFile, ParseError, Scanned, Scanned2, Passes, Finish, Crash
  <2>2. Sound' => Sound
    BY <1>1, StaysSound
  <2> QED BY <2>1, <2>2, ClassesFrom
<1>2. ASSUME NEW o \in Options, Begin(o) PROVE ClassesStay'
  <2>1. start' = disk'
    BY <1>2 DEF Begin
  <2> QED BY <2>1 DEF ClassesStay
<1>3. CASE User
  BY <1>3 DEF User, Edit, Delete, Change, ClassesStay, Sound
<1>4. ASSUME NEW l \in 1..Len(list), NEW w \in 1..Len(list), NEW moved \in BOOLEAN,
             Erase(l, w, moved)
      PROVE  ClassesStay'
  <2>1. /\ phase = "single" /\ UNCHANGED <<start, opt>> /\ (Sound' <=> Sound) /\ l # w
        /\ IsSimiliar(img[list[l]], img[list[w]]) \/ IsSimiliar(img[list[w]], img[list[l]])
        /\ FileMove(list[l], moved)
    BY <1>4 DEF Erase, past, Sound
  <2>2. list[l] \in Range(list) /\ list[w] \in Range(list) /\ list[l] \in Searchable
    BY <1>4, EraseTyped
  <2>3. list[l] # list[w]
    <3>1. list \in Seq(Path)
      BY TypedParts
    <3>2. l \in DOMAIN list /\ w \in DOMAIN list
      BY <3>1
    <3> QED BY <2>1, <3>2 DEF Lists, IsInjective
  <2>4. list[w] \in Path /\ list[w].place \in Searched
    BY <2>2, TypedParts DEF Lists, Searched, Searchable
  <2>5. ASSUME Sound
        PROVE  disk[list[w]] \in Content /\ LookAlike(disk[list[l]], disk[list[w]], opt.rot)
    <3>1. \A p \in Range(list) : /\ p \in Path /\ disk[p] # NoFile
                                 /\ Reads(img[p], disk[p], opt.rot)
      BY <2>1, <2>5, ListedFile
    <3>2. Similar(list[l], list[w], opt.rot) \/ Similar(list[w], list[l], opt.rot)
      BY <2>1, <2>2, <3>1, ListedSimilar
    <3> QED BY <2>2, <3>1, <3>2, AlikeOnDisk
  <2> QED BY <2>1, <2>2, <2>3, <2>4, <2>5, MoveLeavesOne
<1>5. CASE Template
  <2>1. /\ phase = "template" /\ UNCHANGED <<start, opt>> /\ (Sound' <=> Sound)
        /\ Head(lBad) \in Range(lBad) /\ Head(lBad) \in Searchable
    BY <1>5, TemplateForms DEF past, Sound
  <2>2. CASE UNCHANGED disk
    BY <2>1, <2>2, ClassesFrom
  <2>3. ASSUME NEW k \in 1..Len(list), NEW moved \in BOOLEAN, Moves(k, moved)
        PROVE  ClassesStay'
    <3>1. list[k] \in Range(list)
      <4>1. list \in Seq(Path)
        BY TypedParts
      <4> QED BY <4>1 DEF Range
    <3>2. /\ IsSimiliar(img[list[k]], imgBad[Head(lBad)]) /\ FileMove(Head(lBad), moved)
          /\ Head(lBad) # list[k]
      BY <1>5, <2>3, <3>1, HeadApart DEF Moves
    <3>3. list[k] \in Path /\ list[k].place \in Searched
      BY <3>1, TypedParts DEF Lists, Searched, Searchable
    <3>4. ASSUME Sound
          PROVE  disk[list[k]] \in Content /\ LookAlike(disk[Head(lBad)], disk[list[k]], opt.rot)
      <4>1. /\ list[k] \in Path /\ disk[list[k]] # NoFile
            /\ Reads(img[list[k]], disk[list[k]], opt.rot)
            /\ Head(lBad) \in Path /\ disk[Head(lBad)] # NoFile
            /\ Reads(imgBad[Head(lBad)], disk[Head(lBad)], opt.rot)
        BY <2>1, <3>1, <3>4, ListedFile
      <4>2. Similar(list[k], Head(lBad), opt.rot)
        BY <3>2, <4>1, ListedSimilar
      <4> QED BY <4>1, <4>2, AlikeOnDisk
    <3> QED BY <2>1, <3>2, <3>3, <3>4, MoveLeavesOne
  <2> QED BY <1>5, <2>2, <2>3, TemplateForms
<1> QED BY <1>1, <1>2, <1>3, <1>4, <1>5, SingleForms DEF Next, Work

LEMMA AlikeItself ==
    ASSUME NEW c \in Content, NEW rot \in BOOLEAN
    PROVE  LookAlike(c, c, rot)
<1> DEFINE T == IF rot THEN Turn ELSE {0}
<1>1. 0 \in T
  BY DEF Turn
<1>2. <<Code[<<c.pic, (c.turn + 0) % 4>>], Code[<<c.pic, (c.turn + 0) % 4>>]>> \in Near
  <2>1. c.turn \in 0..3 /\ c.pic \in Pic
    BY DEF Content, Turn
  <2>2. <<c.pic, (c.turn + 0) % 4>> \in Pic \X Turn
    BY <2>1 DEF Turn
  <2>3. Code[<<c.pic, (c.turn + 0) % 4>>] \in Hash
    BY <2>2, CodeAssumption
  <2> QED BY <2>3, HashAssumption
<1> HIDE DEF T
<1>3. \E u, v \in T : <<Code[<<c.pic, (c.turn + u) % 4>>], Code[<<c.pic, (c.turn + v) % 4>>]>> \in Near
  BY <1>1, <1>2
<1> QED BY <1>3 DEF LookAlike, T

LEMMA AlikeOfContents ==
    ASSUME AlikeIsTransitive, NEW b \in Content, NEW c \in Content, NEW d \in Content,
           NEW rot \in BOOLEAN, LookAlike(b, c, rot), LookAlike(c, d, rot)
    PROVE  LookAlike(b, d, rot)
<1> DEFINE Shown(e) == [pic |-> e.pic, turn |-> e.turn]
<1>1. \A e \in Content : Shown(e) \in [pic : Pic, turn : Turn]
  BY DEF Content
<1>2. \A e, f : LookAlike(Shown(e), Shown(f), rot) <=> LookAlike(e, f, rot)
  BY DEF LookAlike
<1> HIDE DEF Shown
<1>3. LookAlike(Shown(b), Shown(d), rot)
  BY <1>1, <1>2 DEF AlikeIsTransitive
<1> QED BY <1>2, <1>3

LEMMA ClassesHold ==
    ASSUME PicturesHashed, DirectoriesApart
    PROVE  Spec => [](Typed /\ ClassesStay)
<1> QED BY InitTyped, NextTyped, InitLists, NextLists, InitAsStarted, NextAsStarted,
           InitUntouched, NextUntouched, InitAllHashed, NextAllHashed,
           InitClasses, NextClasses, PTL DEF Spec

\* However loosely pictures look alike, and wherever a run has got or was
\* stopped: as long as no file is misread, of each class of pictures that no
\* other picture looks like one is left in the directories searched.
THEOREM ClassesAreKept ==
    ASSUME PicturesHashed, DirectoriesApart
    PROVE  Spec => []ClassesStay
<1> QED BY ClassesHold, PTL

\* Where looking alike is transitive the class is what looks like the picture:
\* one of these stays.
THEOREM OneOfEachIsKept ==
    ASSUME PicturesHashed, DirectoriesApart, AlikeIsTransitive
    PROVE  Spec => []OneOfEachStays
<1>1. Typed /\ ClassesStay => OneOfEachStays
  <2> SUFFICES ASSUME Typed, ClassesStay, Sound, NEW p \in Path, start[p] # NoFile,
                      p.place \in Searched
               PROVE  \E q \in Files : /\ q.place \in Searched
                                       /\ LookAlike(start[p], disk[q], opt.rot)
    BY DEF OneOfEachStays, Sound
  <2> DEFINE S == {d \in Content : LookAlike(start[p], d, opt.rot)}
  <2>1. start[p] \in Content /\ opt.rot \in BOOLEAN
    BY TypedParts, OptIs
  <2>2. Closed(S)
    <3> SUFFICES ASSUME NEW c \in S, NEW d \in Content, LookAlike(c, d, opt.rot)
                 PROVE  LookAlike(start[p], d, opt.rot)
      BY DEF Closed
    <3> QED BY <2>1, AlikeOfContents
  <2>3. start[p] \in S
    BY <2>1, AlikeItself
  <2> HIDE DEF S
  <2>4. S \in SUBSET Content
    BY DEF S
  <2>5. PICK q \in Path : q.place \in Searched /\ disk[q] \in S
    BY <2>2, <2>3, <2>4 DEF ClassesStay
  <2>6. q \in Files
    BY <2>4, <2>5, NoFileIsNoContent DEF Files
  <2> QED BY <2>5, <2>6 DEF S
<1> QED BY <1>1, ClassesHold, PTL

=============================================================================
