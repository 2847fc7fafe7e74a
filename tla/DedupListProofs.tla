-------------------------- MODULE DedupListProofs --------------------------
(***************************************************************************)
(* Theorems about DedupList, for every set of files, every similarity the  *)
(* records may give and every outcome of every move.                       *)
(***************************************************************************)
EXTENDS DedupList, ListLemmas, FiniteSetTheorems, TLAPS

-----------------------------------------------------------------------------
(* Both ways of losing, in one form.                                       *)

\* The file at l is erased for the one at w; one of them is under the
\* iterator, the other is the next file similar to it.
Erases(l, w, moved) ==
    /\ l \in iFile..Len(list)
    /\ w \in iFile..Len(list)
    /\ l # w
    /\ \/ IsSimiliar(img[list[l]], img[list[w]])
       \/ IsSimiliar(img[list[w]], img[list[l]])
    /\ \/ IsWorse(img[list[l]], img[list[w]])
       \/ ~IsWorse(img[list[w]], img[list[l]])
    /\ SetAside(l, w, moved)

LEMMA StepForms ==
    ASSUME TypeOK, Next
    PROVE  Advance \/ \E l, w \in 1..Len(list), moved \in BOOLEAN : Erases(l, w, moved)
<1>1. list \in Seq(File) /\ iFile \in 1..(Len(list) + 1)
  BY DEF TypeOK
<1>2. CASE Advance
  BY <1>2
<1>3. ASSUME NEW q \in 1..Len(list), NEW moved \in BOOLEAN, FileIsWorse(q, moved)
      PROVE  Erases(iFile, q, moved)
  BY <1>1, <1>3 DEF FileIsWorse, FindNext, SimilarAfter, Erases
<1>4. ASSUME NEW q \in 1..Len(list), NEW moved \in BOOLEAN, FindIsWorse(q, moved)
      PROVE  Erases(q, iFile, moved)
  BY <1>1, <1>4 DEF FindIsWorse, FindNext, SimilarAfter, Erases
<1>5. ASSUME NEW q \in 1..Len(list), NEW moved \in BOOLEAN,
             FileIsWorse(q, moved) \/ FindIsWorse(q, moved)
      PROVE  iFile \in 1..Len(list)
  BY <1>1, <1>5 DEF FileIsWorse, FindIsWorse
<1> QED BY <1>2, <1>3, <1>4, <1>5 DEF Next

\* What erasing does to the list and to the losers.
LEMMA EraseEffect ==
    ASSUME TypeOK,
           NEW l \in 1..Len(list), NEW w \in 1..Len(list), NEW moved \in BOOLEAN,
           Erases(l, w, moved)
    PROVE  /\ list' \in Seq(File)
           /\ Len(list') = Len(list) - 1
           /\ \A p \in 1..(Len(list) - 1) :
                  list'[p] = IF p < l THEN list[p] ELSE list[p + 1]
           /\ IsInjective(list')
           /\ list[l] \in Listed
           /\ Listed' = Listed \ {list[l]}
           /\ Losers' = Losers \cup {list[l]}
           /\ list[w] \in Listed'
<1>1. list \in Seq(File) /\ IsInjective(list)
  BY DEF TypeOK
<1>2. list' = RemoveAt(list, l) /\ beaten' = beaten \cup {<<list[l], list[w]>>}
  BY DEF Erases, SetAside
<1>3. /\ list' \in Seq(File)
      /\ Len(list') = Len(list) - 1
      /\ \A p \in 1..(Len(list) - 1) :
             list'[p] = IF p < l THEN list[p] ELSE list[p + 1]
  BY <1>1, <1>2, RemoveAtElements
<1>4. IsInjective(list') /\ Listed' = Listed \ {list[l]}
  BY <1>1, <1>2, RemoveAtRange DEF Listed
<1>5. Losers' = Losers \cup {list[l]}
  <2>1. <<list[l], list[w]>>[1] = list[l]
    OBVIOUS
  <2>2. Losers' = {pair[1] : pair \in beaten \cup {<<list[l], list[w]>>}}
    BY <1>2 DEF Losers
  <2>3. ASSUME NEW x
        PROVE  x \in Losers' <=> x \in Losers \cup {list[l]}
    BY <2>1, <2>2 DEF Losers
  <2> QED BY <2>3
<1>6. list[l] \in Listed /\ list[w] \in Listed /\ list[w] # list[l]
  BY <1>1 DEF Listed, Range, IsInjective, Erases
<1> QED BY <1>3, <1>4, <1>5, <1>6

-----------------------------------------------------------------------------
(* Type correctness.                                                       *)

LEMMA InitTypeOK == Init => TypeOK
<1> SUFFICES ASSUME Init PROVE TypeOK
  OBVIOUS
<1>1. PICK in \in Inputs : list = in.list /\ img = in.img
  BY DEF Init
<1>2. list \in Seq(File) /\ IsInjective(list) /\ img \in [File -> Image]
  BY <1>1, InputsAssumption
<1>3. iFile \in 1..(Len(list) + 1)
  BY <1>2 DEF Init
<1> QED BY <1>2, <1>3 DEF Init, TypeOK

LEMMA NextTypeOK == TypeOK /\ [Next]_vars => TypeOK'
<1> SUFFICES ASSUME TypeOK, [Next]_vars PROVE TypeOK'
  OBVIOUS
<1>1. CASE UNCHANGED vars
  BY <1>1 DEF vars, TypeOK
<1>2. CASE Advance
  BY <1>2 DEF Advance, TypeOK
<1>3. ASSUME NEW l \in 1..Len(list), NEW w \in 1..Len(list), NEW moved \in BOOLEAN,
             Erases(l, w, moved)
      PROVE  TypeOK'
  <2>1. list' \in Seq(File) /\ Len(list') = Len(list) - 1 /\ IsInjective(list')
    BY <1>3, EraseEffect
  <2>2. list[l] \in File /\ list[w] \in File
    BY DEF TypeOK
  <2>3. iFile' \in 1..(Len(list') + 1)
    BY <1>3, <2>1 DEF TypeOK, Erases, SetAside
  <2>4. cDUP' \in Nat /\ cERROR' \in Nat
    BY <1>3 DEF TypeOK, Erases, SetAside
  <2>5. dup' \in SUBSET File /\ beaten' \in SUBSET (File \X File)
    BY <1>3, <2>2 DEF TypeOK, Erases, SetAside
  <2>6. img' \in [File -> Image] /\ MoveSmaller' \in BOOLEAN
    BY <1>3 DEF TypeOK, Erases, SetAside
  <2> QED BY <2>1, <2>3, <2>4, <2>5, <2>6 DEF TypeOK
<1> QED BY <1>1, <1>2, <1>3, StepForms

\* The iterator stays within the list or one past its end, the list keeps
\* distinct files, and the counters stay natural numbers.
THEOREM TypeCorrect == Spec => []TypeOK
<1> QED BY InitTypeOK, NextTypeOK, PTL DEF Spec

-----------------------------------------------------------------------------
(* The part of the list behind the iterator.                               *)

LEMMA NextHeadSettled ==
    TypeOK /\ HeadSettled /\ [Next]_vars => HeadSettled'
<1> SUFFICES ASSUME TypeOK, HeadSettled, [Next]_vars PROVE HeadSettled'
  OBVIOUS
<1>0. list \in Seq(File) /\ iFile \in 1..(Len(list) + 1)
  BY DEF TypeOK
<1>1. CASE UNCHANGED vars
  BY <1>1 DEF vars, HeadSettled, SimilarAfter
<1>2. CASE Advance
  <2>1. iFile' = iFile + 1 /\ UNCHANGED <<img, list>>
    BY <1>2 DEF Advance
  <2>2. ASSUME NEW p \in 1..(iFile' - 1) PROVE SimilarAfter(p) = {}
    <3>1. p \in 1..(iFile - 1) \/ p = iFile
      BY <1>0, <2>1
    <3> QED BY <1>2, <3>1 DEF Advance, HeadSettled
  <2>3. \A p : SimilarAfter(p)' = SimilarAfter(p)
    BY <2>1 DEF SimilarAfter
  <2> QED BY <2>2, <2>3 DEF HeadSettled
<1>3. ASSUME NEW l \in 1..Len(list), NEW w \in 1..Len(list), NEW moved \in BOOLEAN,
             Erases(l, w, moved)
      PROVE  HeadSettled'
  <2>1. /\ Len(list') = Len(list) - 1
        /\ \A p \in 1..(Len(list) - 1) :
               list'[p] = IF p < l THEN list[p] ELSE list[p + 1]
    BY <1>3, EraseEffect, SMTT(30)
  <2>2. iFile' = iFile /\ img' = img /\ l >= iFile
    BY <1>0, <1>3 DEF Erases, SetAside
  <2> SUFFICES ASSUME NEW p \in 1..(iFile - 1), NEW q \in (p + 1)..Len(list'),
                      IsSimiliar(img[list'[q]], img[list'[p]])
               PROVE  FALSE
    BY <2>2 DEF HeadSettled, SimilarAfter
  <2>3. p \in 1..(Len(list) - 1) /\ list'[p] = list[p]
    BY <1>0, <2>1, <2>2
  <2>4. PICK r \in (p + 1)..Len(list) : list'[q] = list[r]
    <3>1. CASE q < l
      BY <1>0, <2>1, <3>1
    <3>2. CASE q >= l
      BY <1>0, <2>1, <3>2
    <3> QED BY <3>1, <3>2
  <2> QED BY <2>3, <2>4 DEF HeadSettled, SimilarAfter
<1> QED BY <1>1, <1>2, <1>3, StepForms

\* Whatever is erased and whenever, nothing the iterator has passed is similar
\* to anything still after it.
THEOREM HeadStaysSettled == Spec => []HeadSettled
<1>1. Init => HeadSettled
  BY DEF Init, HeadSettled
<1> QED BY <1>1, InitTypeOK, NextTypeOK, NextHeadSettled, PTL DEF Spec

\* When the pass is over no listed file is similar to a later one.
THEOREM DoneIsSettled ==
    Spec => [](Done => \A p \in 1..Len(list) : SimilarAfter(p) = {})
<1>1. TypeOK /\ HeadSettled => (Done => \A p \in 1..Len(list) : SimilarAfter(p) = {})
  BY DEF TypeOK, HeadSettled, Done
<1> QED BY <1>1, TypeCorrect, HeadStaysSettled, PTL

LEMMA NextHeadIsFinal ==
    ASSUME TypeOK, [Next]_vars
    PROVE  [\A p \in 1..(iFile - 1) : p < iFile' /\ list'[p] = list[p]]_vars
<1>0. list \in Seq(File) /\ iFile \in 1..(Len(list) + 1)
  BY DEF TypeOK
<1>1. CASE UNCHANGED vars
  BY <1>1
<1>2. CASE Advance
  BY <1>0, <1>2 DEF Advance
<1>3. ASSUME NEW l \in 1..Len(list), NEW w \in 1..Len(list), NEW moved \in BOOLEAN,
             Erases(l, w, moved)
      PROVE  \A p \in 1..(iFile - 1) : p < iFile' /\ list'[p] = list[p]
  <2>1. \A p \in 1..(Len(list) - 1) :
            list'[p] = IF p < l THEN list[p] ELSE list[p + 1]
    BY <1>3, EraseEffect
  <2>2. iFile' = iFile /\ l >= iFile
    BY <1>0, <1>3 DEF Erases, SetAside
  <2> QED BY <1>0, <2>1, <2>2
<1> QED BY <1>1, <1>2, <1>3, StepForms

\* No step moves or erases a file the iterator has passed.
THEOREM HeadStaysFinal == Spec => HeadIsFinal
<1> QED BY TypeCorrect, NextHeadIsFinal, PTL DEF Spec, HeadIsFinal

-----------------------------------------------------------------------------
(* Counting.                                                               *)

\* Only losers are in the DUP directory; with this Tally is inductive.
TallyInv == Tally /\ dup \subseteq Losers

LEMMA InitTally == Init => TallyInv
<1> SUFFICES ASSUME Init PROVE TallyInv
  OBVIOUS
<1>1. PICK in \in Inputs : list = in.list
  BY DEF Init
<1>2. list \in Seq(File) /\ IsInjective(list) /\ Range(list) = File
  BY <1>1, InputsAssumption
<1>3. Cardinality(File) = Len(list)
  <2>1. list \in Bijection(1..Len(list), File)
    BY <1>2 DEF IsInjective, Range, Bijection, Injection, Surjection
  <2>2. ExistsBijection(1..Len(list), File)
    BY <2>1 DEF ExistsBijection
  <2> QED BY <1>2, <2>2, FS_CountingElements, InputsAssumption
<1>4. cDUP = 0 /\ cERROR = 0 /\ dup = {} /\ Losers = {}
  BY DEF Init, Losers
<1>5. Cardinality(dup) = 0
  BY <1>4, FS_EmptySet
<1>6. Len(list) \in Nat
  BY <1>2
<1> QED BY <1>2, <1>3, <1>4, <1>5, <1>6 DEF TallyInv, Tally, Listed

LEMMA NextTally == TypeOK /\ TallyInv /\ [Next]_vars => TallyInv'
<1> SUFFICES ASSUME TypeOK, TallyInv, [Next]_vars PROVE TallyInv'
  OBVIOUS
<1>1. CASE UNCHANGED vars
  BY <1>1 DEF vars, TallyInv, Tally, Listed, Losers
<1>2. CASE Advance
  BY <1>2 DEF Advance, TallyInv, Tally, Listed, Losers
<1>3. ASSUME NEW l \in 1..Len(list), NEW w \in 1..Len(list), NEW moved \in BOOLEAN,
             Erases(l, w, moved)
      PROVE  TallyInv'
  <2>1. /\ Len(list') = Len(list) - 1
        /\ list[l] \in Listed
        /\ Listed' = Listed \ {list[l]}
        /\ Losers' = Losers \cup {list[l]}
    BY <1>3, EraseEffect
  <2>2. list \in Seq(File) /\ cDUP \in Nat /\ cERROR \in Nat
    BY DEF TypeOK
  <2>3. cDUP' + cERROR' = cDUP + cERROR + 1
    BY <1>3, <2>2 DEF Erases, SetAside
  <2>4. cDUP' + cERROR' + Len(list') = Cardinality(File)
    <3>1. cDUP' + cERROR' + Len(list') = (cDUP + cERROR + 1) + (Len(list) - 1)
      BY <2>1, <2>3
    <3>2. (cDUP + cERROR + 1) + (Len(list) - 1) = cDUP + cERROR + Len(list)
      BY <2>2
    <3> QED BY <3>1, <3>2 DEF TallyInv, Tally
  <2>5. Listed' \cap Losers' = {} /\ Listed' \cup Losers' = File
    BY <2>1 DEF TallyInv, Tally
  <2>6. cDUP' = Cardinality(dup') /\ dup' \subseteq Losers'
    <3>1. CASE moved
      <4>1. dup' = dup \cup {list[l]} /\ cDUP' = cDUP + 1
        BY <1>3, <3>1 DEF Erases, SetAside
      <4>2. list[l] \notin dup
        BY <2>1 DEF TallyInv, Tally
      <4>3. IsFiniteSet(dup)
        BY InputsAssumption, FS_Subset DEF TypeOK
      <4>4. Cardinality(dup') = Cardinality(dup) + 1
        BY <4>1, <4>2, <4>3, FS_AddElement
      <4> QED BY <2>1, <4>1, <4>4 DEF TallyInv, Tally
    <3>2. CASE ~moved
      <4>1. dup' = dup /\ cDUP' = cDUP
        BY <1>3, <3>2 DEF Erases, SetAside
      <4> QED BY <2>1, <4>1 DEF TallyInv, Tally
    <3> QED BY <3>1, <3>2
  <2> QED BY <2>4, <2>5, <2>6 DEF TallyInv, Tally
<1> QED BY <1>1, <1>2, <1>3, StepForms

LEMMA TallyInvHolds == Spec => []TallyInv
<1> QED BY InitTypeOK, NextTypeOK, InitTally, NextTally, PTL DEF Spec

\* The numbers of the summary add up to the number of files listed, whatever
\* moves failed, and no file is counted twice.
THEOREM TallyAddsUp == Spec => []Tally
<1>1. TallyInv => Tally
  BY DEF TallyInv
<1> QED BY <1>1, TallyInvHolds, PTL

-----------------------------------------------------------------------------
(* What remains for each file set aside.                                   *)

LEMMA NextGrounded ==
    TypeOK /\ TallyInv /\ LossesAreGrounded /\ [Next]_vars => LossesAreGrounded'
<1> SUFFICES ASSUME TypeOK, TallyInv, LossesAreGrounded, [Next]_vars
             PROVE  LossesAreGrounded'
  OBVIOUS
<1>1. CASE UNCHANGED vars
  BY <1>1 DEF vars, LossesAreGrounded, Losers
<1>2. CASE Advance
  BY <1>2 DEF Advance, LossesAreGrounded, Losers
<1>3. ASSUME NEW l \in 1..Len(list), NEW w \in 1..Len(list), NEW moved \in BOOLEAN,
             Erases(l, w, moved)
      PROVE  LossesAreGrounded'
  <2>1. /\ Listed' = Listed \ {list[l]}
        /\ Losers' = Losers \cup {list[l]}
        /\ list[w] \in Listed'
    BY <1>3, EraseEffect
  <2>2. beaten' = beaten \cup {<<list[l], list[w]>>}
    BY <1>3 DEF Erases, SetAside
  <2>3. list[w] \notin Losers'
    BY <2>1 DEF TallyInv, Tally
  <2> SUFFICES ASSUME NEW S \in SUBSET Losers', S # {}
               PROVE  \E pair \in beaten' : pair[1] \in S /\ pair[2] \notin S
    BY DEF LossesAreGrounded
  <2>4. CASE list[l] \in S
    <3>1. <<list[l], list[w]>> \in beaten'
      BY <2>2
    <3>2. <<list[l], list[w]>>[1] \in S /\ <<list[l], list[w]>>[2] \notin S
      BY <2>3, <2>4
    <3> QED BY <3>1, <3>2
  <2>5. CASE list[l] \notin S
    <3>1. S \in SUBSET Losers
      BY <2>1, <2>5
    <3>2. PICK pair \in beaten : pair[1] \in S /\ pair[2] \notin S
      BY <3>1 DEF LossesAreGrounded
    <3> QED BY <2>2, <3>2
  <2> QED BY <2>4, <2>5
<1> QED BY <1>1, <1>2, <1>3, StepForms

\* Each file set aside leads, by the files it lost to, to one still listed.
THEOREM LossesStayGrounded == Spec => []LossesAreGrounded
<1>1. Init => LossesAreGrounded
  BY DEF Init, LossesAreGrounded, Losers
<1> QED BY <1>1, InitTypeOK, NextTypeOK, TallyInvHolds, NextGrounded, PTL DEF Spec

-----------------------------------------------------------------------------
(* Dimensions.                                                             *)

\* y is at least as wide and as high as x.
Covers(y, x) ==
    /\ img[x].iWidth <= img[y].iWidth
    /\ img[x].iHeight <= img[y].iHeight

LEMMA CoversTransitive ==
    ASSUME TypeOK, NEW x \in File, NEW y \in File, NEW z \in File,
           Covers(z, y), Covers(y, x)
    PROVE  Covers(z, x)
<1>1. \A v \in File : img[v].iWidth \in Nat /\ img[v].iHeight \in Nat
  BY DEF TypeOK, Image
<1> QED BY <1>1 DEF Covers

\* If dimensions are ordered one way, a file loses only to one covering it.
LEMMA WinnerCovers ==
    ASSUME TypeOK, OneAspect,
           NEW l \in 1..Len(list), NEW w \in 1..Len(list), NEW moved \in BOOLEAN,
           Erases(l, w, moved)
    PROVE  Covers(list[w], list[l])
<1>1. list[l] \in File /\ list[w] \in File
  BY DEF TypeOK
<1>2. \A v \in File : img[v].iWidth \in Nat /\ img[v].iHeight \in Nat
  BY DEF TypeOK, Image
<1>3. Covers(list[w], list[l]) \/ Covers(list[l], list[w])
  BY <1>1 DEF OneAspect, Covers
<1>4. IsWorse(img[list[l]], img[list[w]]) \/ ~IsWorse(img[list[w]], img[list[l]])
  BY DEF Erases
<1> QED BY <1>1, <1>2, <1>3, <1>4 DEF Covers, IsWorse

LEMMA NextLargestStays ==
    TypeOK /\ LargestStays /\ [Next]_vars => LargestStays'
<1> SUFFICES ASSUME TypeOK, LargestStays, [Next]_vars PROVE LargestStays'
  OBVIOUS
<1>1. CASE UNCHANGED vars
  BY <1>1 DEF vars, LargestStays, OneAspect, Listed, Losers
<1>2. CASE Advance
  BY <1>2 DEF Advance, LargestStays, OneAspect, Listed, Losers
<1>3. ASSUME NEW l \in 1..Len(list), NEW w \in 1..Len(list), NEW moved \in BOOLEAN,
             Erases(l, w, moved)
      PROVE  LargestStays'
  <2>1. /\ list[l] \in Listed
        /\ Listed' = Listed \ {list[l]}
        /\ Losers' = Losers \cup {list[l]}
        /\ list[w] \in Listed'
    BY <1>3, EraseEffect
  <2>2. img' = img
    BY <1>3 DEF Erases, SetAside
  <2> SUFFICES ASSUME OneAspect, NEW x \in Losers'
               PROVE  \E y \in Listed' : Covers(y, x)
    BY <2>2 DEF LargestStays, OneAspect, Covers
  <2>3. Covers(list[w], list[l])
    BY <1>3, WinnerCovers
  <2>4. CASE x = list[l]
    BY <2>1, <2>3, <2>4
  <2>5. CASE x \in Losers
    <3>1. PICK y \in Listed : Covers(y, x)
      BY <2>5 DEF LargestStays, Covers
    <3>2. CASE y = list[l]
      <4>1. x \in File /\ list[l] \in File /\ list[w] \in File
        BY <2>5 DEF TypeOK, Losers
      <4>2. Covers(list[w], x)
        BY <2>3, <3>1, <3>2, <4>1, CoversTransitive
      <4> QED BY <2>1, <4>2
    <3>3. CASE y # list[l]
      BY <2>1, <3>1, <3>3
    <3> QED BY <3>2, <3>3
  <2> QED BY <2>1, <2>4, <2>5
<1> QED BY <1>1, <1>2, <1>3, StepForms

\* When the dimensions of the files are ordered one way, every file set aside
\* leaves one in the list that is at least as wide and as high.
THEOREM LargestAlwaysStays == Spec => []LargestStays
<1>1. Init => LargestStays
  BY DEF Init, LargestStays, Losers
<1> QED BY <1>1, InitTypeOK, NextTypeOK, NextLargestStays, PTL DEF Spec

-----------------------------------------------------------------------------
(* DedupList implements OneOfEach.                                         *)

LEMMA InitRefines == Init => Abstract!Init
<1> SUFFICES ASSUME Init PROVE Abstract!Init
  OBVIOUS
<1>1. PICK in \in Inputs : list = in.list
  BY DEF Init
<1>2. Listed = File
  BY <1>1, InputsAssumption DEF Listed
<1> QED BY <1>2 DEF Init, Abstract!Init, Alike

LEMMA NextRefines == TypeOK /\ [Next]_vars => [Abstract!Next]_Abstract!vars
<1> SUFFICES ASSUME TypeOK, [Next]_vars PROVE [Abstract!Next]_Abstract!vars
  OBVIOUS
<1>1. CASE UNCHANGED vars
  BY <1>1 DEF vars, Abstract!vars, Alike, Listed
<1>2. CASE Advance
  BY <1>2 DEF Advance, Abstract!vars, Alike, Listed
<1>3. ASSUME NEW l \in 1..Len(list), NEW w \in 1..Len(list), NEW moved \in BOOLEAN,
             Erases(l, w, moved)
      PROVE  Abstract!Next
  <2>1. list[l] \in File /\ list[w] \in File
    BY DEF TypeOK
  <2>2. /\ list[l] \in Listed
        /\ Listed' = Listed \ {list[l]}
        /\ list[w] \in Listed'
    BY <1>3, EraseEffect
  <2>3. <<list[l], list[w]>> \in Alike \/ <<list[w], list[l]>> \in Alike
    BY <1>3, <2>1 DEF Erases, Alike
  <2>4. Alike' = Alike /\ beaten' = beaten \cup {<<list[l], list[w]>>}
    BY <1>3 DEF Erases, SetAside, Alike
  <2>5. Abstract!Beat(list[l], list[w])
    BY <2>2, <2>3, <2>4 DEF Abstract!Beat
  <2> QED BY <2>1, <2>5 DEF Abstract!Next
<1> QED BY <1>1, <1>2, <1>3, StepForms

\* Every run of the pass is a run of the abstract game: it starts with every
\* file kept, and each turn sets aside one file beaten by a similar kept one.
THEOREM Implements == Spec => KeepsOneOfEach
<1> QED BY InitRefines, NextRefines, TypeCorrect, PTL DEF Spec, KeepsOneOfEach

\* A comparison gives the same answer both ways when the flags agree.
LEMMA SimilarSymmetric ==
    ASSUME NEW x \in Image, NEW y \in Image,
           x.ImageCanBeRotated = y.ImageCanBeRotated, IsSimiliar(x, y)
    PROVE  IsSimiliar(y, x)
<1>1. \A i \in Turn : x.iHash[i] \in Hash /\ y.iHash[i] \in Hash
  BY DEF Image
<1>2. 0 \in Turn
  BY DEF Turn
<1>3. \A g, h \in Hash : <<g, h>> \in Near => <<h, g>> \in Near
  BY HashAssumption
<1>4. CASE x.ImageCanBeRotated
  <2>1. PICK i \in Turn, j \in Turn : <<x.iHash[i], y.iHash[j]>> \in Near
    BY <1>4 DEF IsSimiliar
  <2>2. <<y.iHash[j], x.iHash[i]>> \in Near
    BY <1>1, <1>3, <2>1
  <2> QED BY <1>4, <2>2 DEF IsSimiliar
<1>5. CASE ~x.ImageCanBeRotated
  BY <1>1, <1>2, <1>3, <1>5 DEF IsSimiliar
<1> QED BY <1>4, <1>5

\* When all records carry the same flag, a finished pass leaves no two listed
\* files similar in either direction.
THEOREM LeavesOneOfEach == Spec => []OneOfEachAtEnd
<1>1. TypeOK /\ HeadSettled => OneOfEachAtEnd
  <2> SUFFICES ASSUME TypeOK, HeadSettled, Done, SameFlag,
                      NEW x \in Listed, NEW y \in Listed, x # y
               PROVE  <<x, y>> \notin Alike
    BY DEF OneOfEachAtEnd, Abstract!Settled
  <2>1. PICK p \in 1..Len(list), q \in 1..Len(list) : x = list[p] /\ y = list[q]
    BY DEF TypeOK, Listed, Range
  <2>2. x \in File /\ y \in File /\ img[x] \in Image /\ img[y] \in Image
    BY <2>1 DEF TypeOK
  <2>3. ~IsSimiliar(img[x], img[y]) \/ ~IsSimiliar(img[y], img[x])
    <3>1. p < q \/ q < p
      BY <2>1
    <3>2. p \in 1..(iFile - 1) /\ q \in 1..(iFile - 1)
      BY DEF TypeOK, Done
    <3> QED BY <2>1, <3>1, <3>2 DEF HeadSettled, SimilarAfter
  <2>4. ~IsSimiliar(img[x], img[y])
    BY <2>2, <2>3, SimilarSymmetric DEF SameFlag
  <2> QED BY <2>4 DEF Alike
<1> QED BY <1>1, TypeCorrect, HeadStaysSettled, PTL

=============================================================================
