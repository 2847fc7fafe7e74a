--------------------------- MODULE StartupProofs ---------------------------
(***************************************************************************)
(* Theorems about Startup: for any number of instances, any command lines  *)
(* and any logs of earlier runs, though instances are stopped at any time. *)
(***************************************************************************)
EXTENDS Startup, ListLemmas, FiniteSetTheorems, TLAPS

-----------------------------------------------------------------------------
(* getopt keeps its place in the words.                                    *)

Scan(optind, sp, optarg, optopt, c) ==
    [optind |-> optind, sp |-> sp, optarg |-> optarg, optopt |-> optopt, c |-> c]

InWords(optind, sp, args0) ==
    \/ sp = 1 /\ optind \in 1..(Len(args0) + 1)
    \/ /\ sp \in Nat /\ sp > 1
       /\ optind \in 1..Len(args0)
       /\ sp < Len(args0[optind])

\* Where a call may leave the scanner.
Follows(s, args0) ==
    \E o, p, a, t, c : s = Scan(o, p, a, t, c) /\ InWords(o, p, args0)

-----------------------------------------------------------------------------
(* A turn of getopt, by what it finds.                                     *)

\* Between two words, at something that is no option; at "--".
NoOption(w, o, p) == p = 1 /\ (o > Len(w) \/ ~Dash(w[o]) \/ Len(w[o]) = 1)
EndMark(w, o, p) == p = 1 /\ w[o] = <<"-", "-">>
NoArgument(w, o) == o + 1 > Len(w) \/ Dash(w[o + 1])

Turned(r, w, o, p, a, t) ==
    LET x == w[o][p + 1]
    IN \/ NoOption(w, o, p) /\ r = Scan(o, p, a, t, "EOF")
       \/ ~NoOption(w, o, p) /\ EndMark(w, o, p) /\ r = Scan(o + 1, p, a, t, "EOF")
       \/ /\ ~NoOption(w, o, p) /\ ~EndMark(w, o, p)
          /\ \/ /\ x \in Flags /\ p + 1 = Len(w[o])
                /\ r = Scan(o + 1, 1, <<>>, x, x)
             \/ /\ x \in Flags /\ p + 1 # Len(w[o])
                /\ r = Scan(o, p + 1, <<>>, x, x)
             \/ /\ x \in TakesArgument /\ NoArgument(w, o)
                /\ r = Scan(o + 1, 1, a, x, "?")
             \/ /\ x \in TakesArgument /\ ~NoArgument(w, o)
                /\ r = Scan(o + 2, 1, w[o + 1], x, x)
             \/ /\ x \notin Flags \cup TakesArgument
                /\ \/ p + 1 = Len(w[o]) /\ r = Scan(o + 1, 1, a, x, "?")
                   \/ p + 1 # Len(w[o]) /\ r = Scan(o, p + 1, a, x, "?")

LEMMA ScanChanged ==
    ASSUME NEW o, NEW p, NEW a, NEW t, NEW c, NEW s, s = Scan(o, p, a, t, c), NEW x
    PROVE  /\ s.optind = o /\ s.sp = p /\ s.optarg = a /\ s.c = c
           /\ [s EXCEPT !.optind = x] = Scan(x, p, a, t, c)
           /\ [s EXCEPT !.sp = x] = Scan(o, x, a, t, c)
           /\ [s EXCEPT !.optarg = x] = Scan(o, p, x, t, c)
           /\ [s EXCEPT !.optopt = x] = Scan(o, p, a, x, c)
           /\ [s EXCEPT !.c = x] = Scan(o, p, a, t, x)
BY DEF Scan

\* getopt, letter by letter.
LEMMA GetOptTurns ==
    ASSUME NEW w, NEW o \in Nat, NEW p \in Nat, NEW a, NEW t, NEW k
    PROVE  Turned(GetOpt(Scan(o, p, a, t, k), w), w, o, p, a, t)
<1> DEFINE x == w[o][p + 1]
<1>1. PICK s : s = Scan(o, p, a, t, k)
  OBVIOUS
<1>2. s.optind = o /\ s.sp = p
  BY <1>1, ScanChanged
<1>3. (AtEnd(s, w) <=> NoOption(w, o, p)) /\ (AtEndMark(s, w) <=> EndMark(w, o, p))
  BY <1>2 DEF AtEnd, AtEndMark, NoOption, EndMark
<1>4. CASE NoOption(w, o, p)
  <2>1. GetOpt(s, w) = [s EXCEPT !.c = "EOF"]
    BY <1>3, <1>4 DEF GetOpt
  <2> QED BY <1>1, <1>4, <2>1, ScanChanged DEF Turned
<1>5. CASE ~NoOption(w, o, p) /\ EndMark(w, o, p)
  <2>1. GetOpt(s, w) = [s EXCEPT !.optind = @ + 1, !.c = "EOF"]
    BY <1>3, <1>5 DEF GetOpt
  <2>2. GetOpt(s, w) = [[s EXCEPT !.optind = o + 1] EXCEPT !.c = "EOF"]
    BY <1>2, <2>1
  <2>3. GetOpt(s, w) = Scan(o + 1, p, a, t, "EOF")
    <3>1. PICK q : q = [s EXCEPT !.optind = o + 1]
      OBVIOUS
    <3>2. q = Scan(o + 1, p, a, t, k)
      BY <1>1, <3>1, ScanChanged
    <3>3. [q EXCEPT !.c = "EOF"] = Scan(o + 1, p, a, t, "EOF")
      BY <3>2, ScanChanged
    <3> QED BY <2>2, <3>1, <3>3
  <2> QED BY <1>1, <1>5, <2>3 DEF Turned
<1>6. CASE ~NoOption(w, o, p) /\ ~EndMark(w, o, p)
  <2>1. Letter(s, w) = x
    BY <1>2 DEF Letter
  <2>2. PICK taken : taken = [s EXCEPT !.optopt = x, !.c = x]
    OBVIOUS
  <2>3. taken = Scan(o, p, a, x, x)
    <3>1. taken = [[s EXCEPT !.optopt = x] EXCEPT !.c = x]
      BY <2>2
    <3>2. PICK q : q = [s EXCEPT !.optopt = x]
      OBVIOUS
    <3>3. q = Scan(o, p, a, x, k)
      BY <1>1, <3>2, ScanChanged
    <3>4. [q EXCEPT !.c = x] = Scan(o, p, a, x, x)
      BY <3>3, ScanChanged
    <3> QED BY <3>1, <3>2, <3>4
  <2>4. GetOpt(s, w) =
            CASE x \in Flags -> [Forward(taken, w) EXCEPT !.optarg = <<>>]
              [] x \in TakesArgument -> Argument(taken, w)
              [] OTHER -> [Forward(taken, w) EXCEPT !.c = "?"]
    BY <1>3, <1>6, <2>1, <2>2 DEF GetOpt
  <2>5. Forward(taken, w) = IF p + 1 = Len(w[o]) THEN Scan(o + 1, 1, a, x, x)
                            ELSE Scan(o, p + 1, a, x, x)
    <3>1. taken.sp = p /\ taken.optind = o
      BY <2>3, ScanChanged
    <3>2. Forward(taken, w) = IF p + 1 = Len(w[o])
                              THEN [[taken EXCEPT !.optind = o + 1] EXCEPT !.sp = 1]
                              ELSE [taken EXCEPT !.sp = p + 1]
      BY <3>1 DEF Forward
    <3>3. PICK q : q = [taken EXCEPT !.optind = o + 1]
      OBVIOUS
    <3> HIDE DEF x
    <3>4. q = Scan(o + 1, p, a, x, x)
      BY <2>3, <3>3, ScanChanged
    <3>5. [q EXCEPT !.sp = 1] = Scan(o + 1, 1, a, x, x)
      BY <3>4, ScanChanged
    <3>6. [taken EXCEPT !.sp = p + 1] = Scan(o, p + 1, a, x, x)
      BY <2>3, ScanChanged
    <3> QED BY <3>2, <3>3, <3>5, <3>6
  <2>6. Argument(taken, w) = IF NoArgument(w, o) THEN Scan(o + 1, 1, a, x, "?")
                             ELSE Scan(o + 2, 1, w[o + 1], x, x)
    <3>1. taken.sp = p /\ taken.optind = o
      BY <2>3, ScanChanged
    <3>2. Argument(taken, w) =
              IF NoArgument(w, o)
              THEN [[[taken EXCEPT !.optind = o + 1] EXCEPT !.sp = 1] EXCEPT !.c = "?"]
              ELSE [[[taken EXCEPT !.optind = (o + 1) + 1] EXCEPT !.sp = 1] EXCEPT !.optarg = w[o + 1]]
      BY <3>1 DEF Argument, NoArgument
    <3>3. (o + 1) + 1 = o + 2
      OBVIOUS
    <3>4. ASSUME NEW n
          PROVE  /\ [[[taken EXCEPT !.optind = n] EXCEPT !.sp = 1] EXCEPT !.c = "?"]
                        = Scan(n, 1, a, x, "?")
                 /\ [[[taken EXCEPT !.optind = n] EXCEPT !.sp = 1] EXCEPT !.optarg = w[o + 1]]
                        = Scan(n, 1, w[o + 1], x, x)
      <4> HIDE DEF x
      <4>1. PICK q : q = [taken EXCEPT !.optind = n]
        OBVIOUS
      <4>2. q = Scan(n, p, a, x, x)
        BY <2>3, <4>1, ScanChanged
      <4>3. PICK r : r = [q EXCEPT !.sp = 1]
        OBVIOUS
      <4>4. r = Scan(n, 1, a, x, x)
        BY <4>2, <4>3, ScanChanged
      <4>5. [r EXCEPT !.c = "?"] = Scan(n, 1, a, x, "?")
        BY <4>4, ScanChanged
      <4>6. [r EXCEPT !.optarg = w[o + 1]] = Scan(n, 1, w[o + 1], x, x)
        BY <4>4, ScanChanged
      <4> QED BY <4>1, <4>3, <4>5, <4>6
    <3> HIDE DEF x
    <3> QED BY <3>2, <3>3, <3>4
  <2> HIDE DEF x
  <2>7. CASE x \in Flags
    <3>1. PICK f : f = Forward(taken, w)
      OBVIOUS
    <3>3. GetOpt(s, w) = [f EXCEPT !.optarg = <<>>]
      <4>1. x \notin TakesArgument
        BY <2>7 DEF Flags, TakesArgument
      <4> QED BY <2>4, <2>7, <3>1, <4>1
    <3>2. GetOpt(s, w) = IF p + 1 = Len(w[o]) THEN Scan(o + 1, 1, <<>>, x, x)
                         ELSE Scan(o, p + 1, <<>>, x, x)
      <4>1. CASE p + 1 = Len(w[o])
        BY <2>5, <3>1, <3>3, <4>1, ScanChanged
      <4>2. CASE p + 1 # Len(w[o])
        BY <2>5, <3>1, <3>3, <4>2, ScanChanged
      <4> QED BY <4>1, <4>2
    <3> QED BY <1>1, <1>6, <2>7, <3>2 DEF Turned, x
  <2>8. CASE x \in TakesArgument
    <3>1. x \notin Flags
      BY <2>8 DEF Flags, TakesArgument
    <3>2. GetOpt(s, w) = Argument(taken, w)
      BY <2>4, <2>8, <3>1
    <3> QED BY <1>1, <1>6, <2>6, <2>8, <3>2 DEF Turned, x
  <2>9. CASE x \notin Flags \cup TakesArgument
    <3>1. PICK f : f = Forward(taken, w)
      OBVIOUS
    <3>3. GetOpt(s, w) = [f EXCEPT !.c = "?"]
      BY <2>4, <2>9, <3>1
    <3>2. GetOpt(s, w) = IF p + 1 = Len(w[o]) THEN Scan(o + 1, 1, a, x, "?")
                         ELSE Scan(o, p + 1, a, x, "?")
      <4>1. CASE p + 1 = Len(w[o])
        BY <2>5, <3>1, <3>3, <4>1, ScanChanged
      <4>2. CASE p + 1 # Len(w[o])
        BY <2>5, <3>1, <3>3, <4>2, ScanChanged
      <4> QED BY <4>1, <4>2
    <3> QED BY <1>1, <1>6, <2>9, <3>2 DEF Turned, x
  <2> QED BY <2>7, <2>8, <2>9
<1> QED BY <1>4, <1>5, <1>6

\* Where there is an option to be read, there is a letter.
LEMMA OptionHasLetter ==
    ASSUME NEW w \in Seq(Word), NEW o, NEW p, InWords(o, p, w), ~NoOption(w, o, p)
    PROVE  /\ o \in 1..Len(w) /\ Len(w[o]) \in Nat
           /\ p \in 1..(Len(w[o]) - 1)
<1>1. o \in 1..Len(w)
  BY DEF InWords, NoOption
<1>2. Len(w[o]) \in Nat
  <2>1. w[o] \in Word
    BY <1>1
  <2>2. w[o] \in Seq(Range(w[o]))
    BY <2>1, StartupAssumption
  <2> QED BY <2>2
<1>3. CASE p = 1
  <2>1. Dash(w[o]) /\ Len(w[o]) # 1
    BY <1>1, <1>3 DEF NoOption
  <2>2. w[o] # <<>> /\ w[o] \in Seq(Range(w[o]))
    <3>1. w[o] \in Word
      BY <1>1
    <3> QED BY <2>1, <3>1, StartupAssumption DEF Dash
  <2>3. Len(w[o]) # 0
    BY <2>2
  <2>4. \A n \in Nat : n # 0 /\ n # 1 => 1 \in 1..(n - 1)
    OBVIOUS
  <2> QED BY <1>1, <1>2, <1>3, <2>1, <2>3, <2>4
<1>4. CASE p # 1
  BY <1>1, <1>2, <1>4 DEF InWords
<1> QED BY <1>3, <1>4

LEMMA GetOptFollows ==
    ASSUME NEW w \in Seq(Word), NEW s, Follows(s, w)
    PROVE  Follows(GetOpt(s, w), w)
<1>1. PICK o, p, a, t, k : s = Scan(o, p, a, t, k) /\ InWords(o, p, w)
  BY DEF Follows
<1>2. Len(w) \in Nat /\ o \in Nat /\ p \in Nat
  BY <1>1 DEF InWords
<1>3. PICK r : r = GetOpt(s, w) /\ Turned(r, w, o, p, a, t)
  BY <1>1, <1>2, GetOptTurns
<1>4. ASSUME NEW o2, NEW p2, InWords(o2, p2, w), NEW a2, NEW t2, NEW c2,
             r = Scan(o2, p2, a2, t2, c2)
      PROVE  Follows(r, w)
  BY <1>4 DEF Follows
<1>5. CASE NoOption(w, o, p)
  BY <1>1, <1>3, <1>4, <1>5 DEF Turned
<1>6. CASE ~NoOption(w, o, p)
  <2>1. o \in 1..Len(w) /\ Len(w[o]) \in Nat /\ p \in 1..(Len(w[o]) - 1)
    BY <1>1, <1>6, OptionHasLetter
  <2>2. InWords(o + 1, 1, w) /\ (~NoArgument(w, o) => InWords(o + 2, 1, w))
    BY <1>2, <2>1 DEF InWords, NoArgument
  <2>3. p + 1 # Len(w[o]) => InWords(o, p + 1, w)
    BY <1>2, <2>1 DEF InWords
  <2>4. EndMark(w, o, p) => p = 1
    BY DEF EndMark
  <2> QED BY <1>3, <1>4, <1>6, <2>2, <2>3, <2>4 DEF Turned
<1> QED BY <1>3, <1>5, <1>6

-----------------------------------------------------------------------------
(* The inductive invariant.  The names taken are those below some number,  *)
(* and it has grown by one at most for each instance that is past Open:    *)
(* so the next name is always one of LogName.                              *)

\* The instances that will not open a log any more.
Gone == {i \in started : pc[i] \in {"run", "pause", "exit"}}

TakenBelow(m) ==
    /\ \A k \in LogName : log[k] # NoFile <=> k < m
    /\ \A i \in started : /\ logNum[i] <= m
                          /\ pc[i] = "probed" => logNum[i] < m

Filled == \E m \in 0..(Earlier + Cardinality(Gone)) : TakenBelow(m)

\* A log that is open has its writer's mark; who means to open a log has met
\* whoever has it open, and whoever wrote it last unless it could not be read.
OwnLogs ==
    \A i \in started :
        /\ logFile[i] # NULL =>
              pc[i] = "run" /\ logFile[i] = logNum[i] /\ log[logNum[i]] = i
        /\ pc[i] = "open" =>
              /\ Holders(logNum[i]) \subseteq met[i]
              /\ log[logNum[i]] \in {NoFile} \cup met[i] \/ "probe" \in refused[i]
        /\ pc[i] = "run" /\ met[i] = {} /\ "open" \notin refused[i] =>
              logFile[i] = logNum[i]

Scans ==
    /\ scan = [i \in started |-> scan[i]]
    /\ \A i \in started :
          /\ pc[i] = "start" => scan[i] = Scan0
          /\ pc[i] = "options" => Follows(scan[i], args[i])

IInv == TypeOK /\ Scans /\ Filled /\ OwnLogs

LEMMA LineWords ==
    ASSUME args \in Lines
    PROVE  args \in [started -> Seq(Word)] /\ started \subseteq Instance
BY StartupAssumption DEF started

LEMMA GoneIsFinite ==
    ASSUME args \in Lines
    PROVE  /\ IsFiniteSet(Gone) /\ Cardinality(Gone) \in Nat
           /\ Cardinality(Instance) \in Nat
           /\ Cardinality(Gone) <= Cardinality(Instance)
<1>1. Gone \subseteq Instance
  BY LineWords DEF Gone
<1>2. IsFiniteSet(Instance)
  BY StartupAssumption
<1> QED BY <1>1, <1>2, FS_Subset, FS_CardinalityType

LEMMA ScansInBounds == Scans => ScanInBounds
<1> SUFFICES ASSUME Scans, NEW i \in started, pc[i] = "options"
             PROVE  \/ scan[i].sp = 1 /\ scan[i].optind <= Len(args[i]) + 1
                    \/ /\ scan[i].sp > 1
                       /\ scan[i].optind <= Len(args[i])
                       /\ scan[i].sp < Len(args[i][scan[i].optind])
  BY DEF ScanInBounds
<1>1. PICK o, p, a, t, c : scan[i] = Scan(o, p, a, t, c) /\ InWords(o, p, args[i])
  BY DEF Scans, Follows
<1>2. scan[i].optind = o /\ scan[i].sp = p
  BY <1>1 DEF Scan
<1>3. \/ p = 1 /\ o \in 1..(Len(args[i]) + 1)
      \/ p > 1 /\ o \in 1..Len(args[i]) /\ p < Len(args[i][o])
  BY <1>1 DEF InWords
<1> QED BY <1>2, <1>3

-----------------------------------------------------------------------------
(* It holds at first.                                                      *)

LEMMA InitIInv == Init => IInv
<1> SUFFICES ASSUME Init PROVE IInv
  OBVIOUS
<1> USE DEF Init
<1>1. Scans
  BY DEF Scans
<1>2. Earlier \in Nat /\ Cardinality(Instance) \in Nat /\ Cardinality(Gone) = 0
  <2>1. Gone = {}
    BY DEF Gone
  <2> QED BY <2>1, StartupAssumption, GoneIsFinite, FS_EmptySet
<1>3. TypeOK
  <2>1. 0 \in LogName
    BY <1>2 DEF LogName
  <2>2. ScanInBounds
    BY <1>1, ScansInBounds
  <2>3. log \in [LogName -> Instance \cup {Old, NoFile}]
    OBVIOUS
  <2> QED BY <2>1, <2>2, <2>3 DEF TypeOK, Defaults
<1>4. Filled
  <2>1. PICK n \in 0..Earlier : log = [k \in LogName |-> IF k < n THEN Old ELSE NoFile]
    OBVIOUS
  <2>2. n \in 0..(Earlier + Cardinality(Gone))
    BY <1>2
  <2>3. \A k \in LogName : log[k] # NoFile <=> k < n
    BY <2>1 DEF Old, NoFile
  <2>4. n \in Nat
    BY <1>2
  <2>5. TakenBelow(n)
    BY <2>3, <2>4 DEF TakenBelow
  <2> QED BY <2>2, <2>5 DEF Filled
<1>5. OwnLogs
  BY DEF OwnLogs
<1> QED BY <1>1, <1>3, <1>4, <1>5 DEF IInv

-----------------------------------------------------------------------------
(* The scanner's place.                                                    *)

LEMMA PlaceMoved ==
    ASSUME NEW o, NEW p, NEW a, NEW t, NEW c, NEW n, NEW s, s = Scan(o, p, a, t, c)
    PROVE  [s EXCEPT !.optind = n] = Scan(n, p, a, t, c)
BY DEF Scan

LEMMA ScansStep ==
    ASSUME TypeOK, Scans, NEW i \in started, Step(i) \/ Key(i) \/ Crash(i)
    PROVE  Scans'
<1>1. args' = args /\ started' = started
  BY DEF Step, Key, Crash, BadDirectory, Refuse, options, Directories, Option,
         BadOption, Options, Probe, NextName, NameFound, Open,
         ProbeRefused, OpenRefused, Finish, started
<1>2. args[i] \in Seq(Word) /\ pc \in [started -> {"start", "options", "probe",
                                          "probed", "open", "run", "pause", "exit"}]
  BY LineWords DEF TypeOK
<1>3. ASSUME NEW s, scan' = [scan EXCEPT ![i] = s],
             \A j \in started \ {i} : pc'[j] = pc[j],
             pc'[i] # "start", pc'[i] = "options" => Follows(s, args[i])
      PROVE  Scans'
  <2>1. scan' = [j \in started |-> IF j = i THEN s ELSE scan[j]]
    BY <1>3 DEF Scans
  <2>2. scan' = [j \in started |-> scan'[j]]
    BY <2>1
  <2>3. ASSUME NEW j \in started
        PROVE  /\ pc'[j] = "start" => scan'[j] = Scan0
               /\ pc'[j] = "options" => Follows(scan'[j], args[j])
    <3>1. CASE j = i
      BY <1>3, <2>1, <3>1
    <3>2. CASE j # i
      BY <1>3, <2>1, <3>2 DEF Scans
    <3> QED BY <3>1, <3>2
  <2> QED BY <1>1, <2>2, <2>3 DEF Scans
<1>4. ASSUME scan' = scan, \A j \in started : pc'[j] \in {"start", "options"} => pc'[j] = pc[j]
      PROVE  Scans'
  BY <1>1, <1>4 DEF Scans
<1>5. CASE BadDirectory(i)
  BY <1>2, <1>4, <1>5 DEF BadDirectory, Refuse, Leave, options
<1>6. CASE Directories(i)
  <2> DEFINE w == args[i]
  <2>1. pc[i] = "start" /\ scan[i] = Scan0 /\ w # <<>> /\ Len(w) \in Nat
    BY <1>2, <1>6 DEF Directories, Scans, RefusedDirectory
  <2>2. pc'[i] = "options" /\ \A j \in started \ {i} : pc'[j] = pc[j]
    BY <1>2, <1>6 DEF Directories
  <2>3. Len(w) >= 1
    BY <1>2, <2>1
  <2>4. Scan0 = Scan(1, 1, <<>>, "unset", "unset")
    BY DEF Scan0, Scan
  <2>5. ASSUME NEW n, InWords(n, 1, w), scan' = [scan EXCEPT ![i].optind = n]
        PROVE  Scans'
    <3>1. PICK s : s = scan[i]
      OBVIOUS
    <3>2. [s EXCEPT !.optind = n] = Scan(n, 1, <<>>, "unset", "unset")
      BY <2>1, <2>4, <3>1, PlaceMoved
    <3>3. [scan EXCEPT ![i].optind = n] = [scan EXCEPT ![i] = [scan[i] EXCEPT !.optind = n]]
      OBVIOUS
    <3>4. Follows(Scan(n, 1, <<>>, "unset", "unset"), w)
      BY <2>5 DEF Follows
    <3> QED BY <1>3, <2>2, <2>5, <3>1, <3>2, <3>3, <3>4
  <2>6. InWords(2, 1, w) /\ (HasSecond(w) => InWords(3, 1, w))
    BY <2>1, <2>3 DEF InWords, HasSecond
  <2>7. \/ HasSecond(w) /\ scan' = [scan EXCEPT ![i].optind = 3]
        \/ scan' = [scan EXCEPT ![i].optind = 2]
    BY <1>6 DEF Directories
  <2> QED BY <2>5, <2>6, <2>7
<1>7. CASE Option(i)
  <2>1. scan' = [scan EXCEPT ![i] = GetOpt(scan[i], args[i])] /\ pc' = pc /\ pc[i] = "options"
    BY <1>7 DEF Option
  <2>2. Follows(GetOpt(scan[i], args[i]), args[i])
    BY <1>2, <2>1, GetOptFollows DEF Scans
  <2> QED BY <1>3, <2>1, <2>2
<1>8. CASE BadOption(i)
  <2>1. scan' = [scan EXCEPT ![i] = GetOpt(scan[i], args[i])]
    BY <1>8 DEF BadOption
  <2>2. pc'[i] \in {"exit", "pause"} /\ \A j \in started \ {i} : pc'[j] = pc[j]
    BY <1>2, <1>8 DEF BadOption, Leave
  <2> QED BY <1>3, <2>1, <2>2
<1>9. CASE Options(i)
  <2>1. scan' = [scan EXCEPT ![i] = GetOpt(scan[i], args[i])]
    BY <1>9 DEF Options
  <2>2. pc'[i] = "probe" /\ \A j \in started \ {i} : pc'[j] = pc[j]
    BY <1>2, <1>9 DEF Options
  <2> QED BY <1>3, <2>1, <2>2
<1>10. CASE Probe(i) \/ NextName(i) \/ NameFound(i) \/ Open(i) \/ ProbeRefused(i)
            \/ OpenRefused(i) \/ Finish(i) \/ Key(i) \/ Crash(i)
  <2>1. scan' = scan
    BY <1>10 DEF Probe, NextName, NameFound, Open,
         ProbeRefused, OpenRefused, Finish, Key, Crash, options
  <2>2. \A j \in started : pc'[j] \in {"start", "options"} => pc'[j] = pc[j]
    BY <1>2, <1>10 DEF Probe, NextName, NameFound, Open,
         ProbeRefused, OpenRefused, Finish, Key, Crash, Leave
  <2> QED BY <1>4, <2>1, <2>2
<1> QED BY <1>5, <1>6, <1>7, <1>8, <1>9, <1>10 DEF Step

-----------------------------------------------------------------------------
(* The types, and with them the room for one more name.                    *)

LEMMA TypeStep ==
    ASSUME IInv, NEW i \in started, Step(i) \/ Key(i) \/ Crash(i)
    PROVE  TypeOK'
<1>1. TypeOK /\ Scans /\ Filled
  BY DEF IInv
<1>2. ScanInBounds'
  <2>1. Scans'
    BY <1>1, ScansStep
  <2>2. Scans' => ScanInBounds'
    BY ScansInBounds, PTL
  <2> QED BY <2>1, <2>2
<1>3. args' = args /\ started' = started
  BY DEF Step, Key, Crash, BadDirectory, Refuse, options, Directories, Option,
         BadOption, Options, Probe, NextName, NameFound, Open,
         ProbeRefused, OpenRefused, Finish, started
<1>4. args[i] \in Seq(Word) /\ i \in Instance
  BY <1>1, LineWords DEF TypeOK
<1>5. pc' \in [started -> {"start", "options", "probe", "probed", "open",
                           "run", "pause", "exit"}]
  BY <1>1 DEF TypeOK, Step, Key, Crash, BadDirectory, Refuse, options, logs,
         Directories, Option, BadOption, Options, Probe, NextName, NameFound,
         Open, ProbeRefused, OpenRefused, Finish, Leave
<1>6. batch' \in [started -> BOOLEAN]
  <2>1. batch \in [started -> BOOLEAN]
    BY <1>1 DEF TypeOK
  <2>2. CASE Option(i)
    <3>1. batch' = [batch EXCEPT ![i] = @ \/ GetOpt(scan[i], args[i]).c = "b"]
      BY <2>2 DEF Option
    <3> HIDE DEF Option
    <3> QED BY <2>1, <3>1, Zenon
  <2>3. CASE ~Option(i)
    <3>1. batch' = batch
      BY <2>3 DEF Step, Key, Crash, BadDirectory, Refuse, options, Directories,
         BadOption, Options, Probe, NextName, NameFound, Open,
         ProbeRefused, OpenRefused, Finish
    <3> QED BY <2>1, <3>1
  <2> QED BY <2>2, <2>3
<1>7. ret' \in [started -> {Running, -1, 0}]
  BY <1>1 DEF TypeOK, Step, Key, Crash, BadDirectory, Refuse, options, logs,
         Directories, Option, BadOption, Options, Probe, NextName, NameFound,
         Open, ProbeRefused, OpenRefused, Finish, Leave
<1>8. {strDir', strDir2'} \subseteq [started -> {NoDirectory} \cup Range(GetDirectory)]
  <2> DEFINE D == {NoDirectory} \cup Range(GetDirectory)
  <2>1. strDir \in [started -> D] /\ strDir2 \in [started -> D]
    BY <1>1 DEF TypeOK
  <2>2. \A w \in Word : GetDirectory[w] \in D
    <3>1. DOMAIN GetDirectory = Word
      BY DEF GetDirectory
    <3> QED BY <3>1 DEF Range
  <2> HIDE DEF D
  <2>3. CASE Directories(i)
    <3> DEFINE w == args[i]
    <3>1. w # <<>> /\ strDir' = [strDir EXCEPT ![i] = GetDirectory[w[1]]]
      BY <2>3 DEF Directories, RefusedDirectory
    <3>2. \/ HasSecond(w) /\ strDir2' = [strDir2 EXCEPT ![i] = GetDirectory[w[2]]]
          \/ strDir2' = strDir2
      BY <2>3 DEF Directories
    <3>3. w[1] \in Word /\ (HasSecond(w) => w[2] \in Word)
      BY <1>4, <3>1 DEF HasSecond
    <3> HIDE DEF w
    <3> QED BY <2>1, <2>2, <3>1, <3>2, <3>3 DEF D
  <2>4. CASE ~Directories(i)
    <3>1. strDir' = strDir /\ strDir2' = strDir2
      BY <2>4 DEF Step, Key, Crash, BadDirectory, Refuse, options, directories,
         Option, BadOption, Options, Probe, NextName, NameFound, Open,
         ProbeRefused, OpenRefused, Finish
    <3> QED BY <2>1, <3>1 DEF D
  <2> QED BY <2>3, <2>4
<1>9. logNum' \in [started -> LogName]
  <2>1. logNum \in [started -> LogName]
    BY <1>1 DEF TypeOK
  <2>2. CASE NextName(i)
    <3>1. PICK m \in 0..(Earlier + Cardinality(Gone)) : TakenBelow(m)
      BY <1>1 DEF Filled
    <3>2. /\ Cardinality(Gone) \in Nat /\ Cardinality(Instance) \in Nat
          /\ Cardinality(Gone) <= Cardinality(Instance) /\ Earlier \in Nat
      BY <1>1, GoneIsFinite, StartupAssumption DEF TypeOK
    <3>3. logNum[i] \in Nat /\ logNum[i] < m
      <4>1. logNum[i] < m
        BY <2>2, <3>1 DEF TakenBelow, NextName
      <4> QED BY <2>1, <3>2, <4>1 DEF LogName
    <3>4. logNum[i] + 1 \in LogName
      BY <3>1, <3>2, <3>3 DEF LogName
    <3>5. logNum' = [logNum EXCEPT ![i] = logNum[i] + 1]
      BY <2>2 DEF NextName
    <3> QED BY <2>1, <3>4, <3>5
  <2>3. CASE ~NextName(i)
    <3>1. logNum' = logNum
      BY <2>3 DEF Step, Key, Crash, BadDirectory, Refuse, logs, Directories,
         Option, BadOption, Options, Probe, NameFound, Open,
         ProbeRefused, OpenRefused, Finish
    <3> QED BY <2>1, <3>1
  <2> QED BY <2>2, <2>3
<1>10. log' \in [LogName -> Instance \cup {Old, NoFile}]
  <2>1. log' = log \/ log' = [log EXCEPT ![logNum[i]] = i]
    BY DEF Step, Key, Crash, BadDirectory, Refuse, logs, Directories,
         Option, BadOption, Options, Probe, NextName, NameFound, Open,
         ProbeRefused, OpenRefused, Finish
  <2>2. log \in [LogName -> Instance \cup {Old, NoFile}]
    BY <1>1 DEF TypeOK
  <2> QED BY <1>4, <2>1, <2>2
<1>11. logFile' \in [started -> LogName \cup {NULL}]
  <2>1. \/ logFile' = logFile
        \/ logFile' = [logFile EXCEPT ![i] = logNum[i]]
        \/ logFile' = [logFile EXCEPT ![i] = NULL]
    BY DEF Step, Key, Crash, BadDirectory, Refuse, logs, Directories,
         Option, BadOption, Options, Probe, NextName, NameFound, Open,
         ProbeRefused, OpenRefused, Finish
  <2>2. logFile \in [started -> LogName \cup {NULL}] /\ logNum[i] \in LogName
    BY <1>1 DEF TypeOK
  <2> QED BY <2>1, <2>2
<1>12. met' \in [started -> SUBSET Instance]
  <2>1. \/ met' = met
        \/ met' = Meet(i, logNum[i])
        \/ met' = [met EXCEPT ![i] = Holders(logNum[i])]
    BY DEF Step, Key, Crash, BadDirectory, Refuse, logs, Directories,
         Option, BadOption, Options, Probe, NextName, NameFound, Open,
         ProbeRefused, OpenRefused, Finish
  <2>2. met \in [started -> SUBSET Instance]
    BY <1>1 DEF TypeOK
  <2>3. Holders(logNum[i]) \subseteq Instance
    BY <1>1, LineWords DEF Holders, Readers, Writers, TypeOK
  <2>4. CASE met' = Meet(i, logNum[i])
    BY <1>4, <2>2, <2>4 DEF Meet
  <2> QED BY <2>1, <2>2, <2>3, <2>4
<1>13. args' \in Lines
  BY <1>1, <1>3 DEF TypeOK
<1>14. refused' \in [started -> SUBSET {"probe", "open"}]
  <2>1. \/ refused' = refused
        \/ refused' = [refused EXCEPT ![i] = @ \cup {"probe"}]
        \/ refused' = [refused EXCEPT ![i] = @ \cup {"open"}]
    BY DEF Step, Key, Crash, BadDirectory, Refuse, logs, Directories,
         Option, BadOption, Options, Probe, NextName, NameFound, Open,
         ProbeRefused, OpenRefused, Finish
  <2>2. refused \in [started -> SUBSET {"probe", "open"}]
    BY <1>1 DEF TypeOK
  <2> QED BY <2>1, <2>2
<1> QED BY <1>2, <1>3, <1>5, <1>6, <1>7, <1>8, <1>9, <1>10, <1>11, <1>12, <1>13, <1>14
        DEF TypeOK

-----------------------------------------------------------------------------
(* The names taken.                                                        *)

LEMMA FilledStep ==
    ASSUME IInv, NEW i \in started, Step(i) \/ Key(i) \/ Crash(i)
    PROVE  Filled'
<1>1. TypeOK /\ Filled /\ TypeOK'
  BY TypeStep DEF IInv
<1>2. args' = args /\ started' = started
  BY DEF Step, Key, Crash, BadDirectory, Refuse, options, Directories, Option,
         BadOption, Options, Probe, NextName, NameFound, Open,
         ProbeRefused, OpenRefused, Finish, started
<1>3. PICK m \in 0..(Earlier + Cardinality(Gone)) : TakenBelow(m)
  BY <1>1 DEF Filled
<1>4. /\ IsFiniteSet(Gone) /\ Cardinality(Gone) \in Nat
      /\ IsFiniteSet(Gone') /\ Cardinality(Gone') \in Nat
      /\ Earlier \in Nat
  <2>1. IsFiniteSet(Gone) /\ Cardinality(Gone) \in Nat
    BY <1>1, GoneIsFinite DEF TypeOK
  <2>2. Gone' \subseteq Instance
    BY <1>1, <1>2, LineWords DEF Gone, TypeOK
  <2>3. IsFiniteSet(Gone') /\ Cardinality(Gone') \in Nat
    BY <2>2, StartupAssumption, FS_Subset, FS_CardinalityType
  <2> QED BY <2>1, <2>3, StartupAssumption
<1>5. Gone \subseteq Gone' /\ Cardinality(Gone) <= Cardinality(Gone')
  <2>1. Gone \subseteq Gone'
    BY <1>1, <1>2 DEF Gone, TypeOK, Step, Key, Crash, BadDirectory, Refuse, options,
         logs, Directories, Option, BadOption, Options, Probe, NextName, NameFound,
         Open, ProbeRefused, OpenRefused, Finish, Leave
  <2> QED BY <1>4, <2>1, FS_Subset
<1>6. m \in 0..(Earlier + Cardinality(Gone'))
  BY <1>3, <1>4, <1>5
<1>7. \A j \in started : logNum[j] \in Nat
  <2>1. LogName \subseteq Nat
    BY DEF LogName
  <2> QED BY <1>1, <2>1 DEF TypeOK
<1>8. ASSUME TakenBelow(m)' PROVE Filled'
  BY <1>6, <1>8 DEF Filled
<1>9. CASE Open(i) /\ log' # log /\ log[logNum[i]] = NoFile
  <2> DEFINE n == logNum[i]
  <2>1. pc[i] = "open" /\ log' = [log EXCEPT ![n] = i] /\ logNum' = logNum
    BY <1>9 DEF Open
  <2>2. n \in LogName /\ i # NoFile /\ pc'[i] = "run"
    <3>1. n \in LogName
      BY <1>1 DEF TypeOK
    <3>2. i \in Instance
      BY <1>1, LineWords DEF TypeOK
    <3>3. pc'[i] = "run"
      BY <1>1, <1>9 DEF Open, TypeOK
    <3> QED BY <3>1, <3>2, <3>3, StartupAssumption
  <2>3. n = m
    <3>1. ~(n < m) /\ n <= m
      BY <1>3, <1>9, <2>2 DEF TakenBelow
    <3> QED BY <1>3, <1>4, <1>7, <3>1
  <2>4. Cardinality(Gone) + 1 <= Cardinality(Gone')
    <3>1. i \notin Gone /\ i \in Gone'
      BY <1>2, <2>1, <2>2 DEF Gone
    <3>2. Gone \cup {i} \subseteq Gone'
      BY <1>5, <3>1
    <3>3. IsFiniteSet(Gone \cup {i}) /\ Cardinality(Gone \cup {i}) = Cardinality(Gone) + 1
      BY <1>4, <3>1, FS_AddElement
    <3> QED BY <1>4, <3>2, <3>3, FS_Subset
  <2>5. m + 1 \in 0..(Earlier + Cardinality(Gone'))
    BY <1>3, <1>4, <2>4
  <2>6. ASSUME NEW k \in LogName PROVE log'[k] # NoFile <=> k < m + 1
    <3>1. k \in Nat /\ m \in Nat
      BY <1>3, <1>4 DEF LogName
    <3>2. log[k] # NoFile <=> k < m
      BY <1>3 DEF TakenBelow
    <3>3. log'[k] = IF k = n THEN i ELSE log[k]
      BY <1>1, <2>1 DEF TypeOK
    <3> QED BY <2>2, <2>3, <3>1, <3>2, <3>3
  <2>7. ASSUME NEW j \in started PROVE logNum'[j] <= m + 1 /\ logNum'[j] < m + 1
    <3>1. logNum[j] <= m
      BY <1>3 DEF TakenBelow
    <3> QED BY <1>3, <1>4, <1>7, <2>1, <3>1
  <2>8. TakenBelow(m + 1)'
    BY <1>2, <2>6, <2>7 DEF TakenBelow, LogName
  <2> QED BY <2>5, <2>8 DEF Filled
<1>10. CASE Open(i) /\ log' # log /\ log[logNum[i]] # NoFile
  <2>1. log' = [log EXCEPT ![logNum[i]] = i] /\ logNum' = logNum
    BY <1>10 DEF Open
  <2>2. i # NoFile /\ \A j \in started \ {i} : pc'[j] = pc[j]
    <3>1. i \in Instance
      BY <1>1, LineWords DEF TypeOK
    <3>2. pc' = [pc EXCEPT ![i] = "run"]
      BY <1>10 DEF Open
    <3> QED BY <1>1, <3>1, <3>2, StartupAssumption DEF TypeOK
  <2>3. pc'[i] # "probed"
    BY <1>1, <1>10 DEF Open, TypeOK
  <2>4. \A k \in LogName : log'[k] # NoFile <=> log[k] # NoFile
    BY <1>1, <1>10, <2>1, <2>2 DEF TypeOK
  <2>5. TakenBelow(m)'
    BY <1>2, <1>3, <2>1, <2>2, <2>3, <2>4 DEF TakenBelow, LogName
  <2> QED BY <1>8, <2>5
<1>11. CASE log' = log
  <2>1. ASSUME NEW j \in started
        PROVE  logNum'[j] <= m /\ (pc'[j] = "probed" => logNum'[j] < m)
    <3>1. CASE Probe(i)
      <4>1. logNum' = logNum /\ pc' = [pc EXCEPT ![i] = "probed"]
        BY <3>1 DEF Probe
      <4>2. logNum[i] < m
        <5>1. logNum[i] \in LogName /\ log[logNum[i]] # NoFile
          BY <1>1, <3>1 DEF TypeOK, Probe, Readable
        <5> QED BY <1>3, <5>1 DEF TakenBelow
      <4> QED BY <1>1, <1>3, <4>1, <4>2 DEF TakenBelow, TypeOK
    <3>2. CASE NextName(i)
      <4>1. /\ logNum' = [logNum EXCEPT ![i] = logNum[i] + 1]
            /\ pc' = [pc EXCEPT ![i] = "probe"]
            /\ pc[i] = "probed"
        BY <3>2 DEF NextName
      <4>2. logNum[i] < m
        BY <1>3, <4>1 DEF TakenBelow
      <4>3. logNum[i] + 1 <= m
        BY <1>3, <1>4, <1>7, <4>2
      <4>4. CASE j = i
        BY <1>1, <4>1, <4>3, <4>4 DEF TypeOK
      <4>5. CASE j # i
        BY <1>1, <1>3, <4>1, <4>5 DEF TakenBelow, TypeOK
      <4> QED BY <4>4, <4>5
    <3>3. CASE ~Probe(i) /\ ~NextName(i)
      <4>1. logNum' = logNum
        BY <3>3 DEF Step, Key, Crash, BadDirectory, Refuse, logs, Directories,
           Option, BadOption, Options, NameFound, Open,
         ProbeRefused, OpenRefused, Finish
      <4>2. pc'[j] = "probed" => pc[j] = "probed"
        BY <1>1, <3>3 DEF TypeOK, Step, Key, Crash, BadDirectory, Refuse,
           Directories, Option, BadOption, Options, NameFound, Open,
         ProbeRefused, OpenRefused, Finish, Leave
      <4> QED BY <1>3, <4>1, <4>2 DEF TakenBelow
    <3> QED BY <3>1, <3>2, <3>3
  <2>2. TakenBelow(m)'
    BY <1>2, <1>3, <1>11, <2>1 DEF TakenBelow, LogName
  <2> QED BY <1>8, <2>2
<1>12. log' # log => Open(i)
  BY DEF Step, Key, Crash, BadDirectory, Refuse, logs, Directories,
         Option, BadOption, Options, Probe, NextName, NameFound, Open,
         ProbeRefused, OpenRefused, Finish
<1> QED BY <1>9, <1>10, <1>11, <1>12

-----------------------------------------------------------------------------
(* Who has a log open, and who has met whom.                               *)

OwnLog(j) ==
    /\ logFile[j] # NULL =>
          pc[j] = "run" /\ logFile[j] = logNum[j] /\ log[logNum[j]] = j
    /\ pc[j] = "open" =>
          /\ Holders(logNum[j]) \subseteq met[j]
          /\ log[logNum[j]] \in {NoFile} \cup met[j] \/ "probe" \in refused[j]
    /\ pc[j] = "run" /\ met[j] = {} /\ "open" \notin refused[j] =>
          logFile[j] = logNum[j]

LEMMA OwnLogsAreEach == OwnLogs <=> \A j \in started : OwnLog(j)
BY DEF OwnLogs, OwnLog

\* What i does at its log, or the little it may do elsewhere.
LEMMA LogSteps ==
    ASSUME NEW i \in started, Step(i) \/ Key(i) \/ Crash(i)
    PROVE  \/ Probe(i) \/ NameFound(i) \/ Open(i) \/ ProbeRefused(i) \/ OpenRefused(i)
           \/ /\ log' = log /\ met' = met /\ refused' = refused
              /\ \/ logNum' = logNum
                 \/ logNum' = [logNum EXCEPT ![i] = logNum[i] + 1]
              /\ \/ logFile' = [logFile EXCEPT ![i] = NULL]
                 \/ logFile' = logFile /\ pc[i] # "run"
              /\ \E x \in {"exit", "pause", "options", "probe"} : pc' = [pc EXCEPT ![i] = x]
           \/ /\ logs' = logs
              /\ pc' = pc /\ pc[i] = "options"
<1>1. CASE BadDirectory(i) \/ BadOption(i) \/ Finish(i) \/ Key(i) \/ Crash(i)
  BY <1>1 DEF BadDirectory, BadOption, Finish, Key, Crash, Refuse, Leave, logs
<1>2. CASE Directories(i) \/ Options(i) \/ NextName(i)
  BY <1>2 DEF Directories, Options, NextName, logs
<1>3. CASE Option(i)
  BY <1>3 DEF Option
<1>4. CASE Probe(i) \/ NameFound(i) \/ Open(i) \/ ProbeRefused(i) \/ OpenRefused(i)
  BY <1>4
<1> QED BY <1>1, <1>2, <1>3, <1>4 DEF Step

LEMMA OwnLogsStep ==
    ASSUME IInv, NEW i \in started, Step(i) \/ Key(i) \/ Crash(i)
    PROVE  OwnLogs'
<1>1. TypeOK /\ (\A j \in started : OwnLog(j))
  BY OwnLogsAreEach DEF IInv
<1>2. args' = args /\ started' = started
  BY DEF Step, Key, Crash, BadDirectory, Refuse, options, Directories, Option,
         BadOption, Options, Probe, NextName, NameFound, Open,
         ProbeRefused, OpenRefused, Finish, started
<1>3. /\ pc \in [started -> {"start", "options", "probe", "probed", "open",
                             "run", "pause", "exit"}]
      /\ logNum \in [started -> LogName]
      /\ logFile \in [started -> LogName \cup {NULL}]
      /\ met \in [started -> SUBSET Instance]
      /\ log \in [LogName -> Instance \cup {Old, NoFile}]
      /\ refused \in [started -> SUBSET {"probe", "open"}]
      /\ NULL \notin LogName
  BY <1>1 DEF TypeOK, LogName, NULL
<1>4. ASSUME \A j \in started : OwnLog(j)' PROVE OwnLogs'
  <2>1. (\A j \in started' : OwnLog(j)')
    BY <1>2, <1>4
  <2> QED BY <2>1 DEF OwnLogs, OwnLog
<1>5. CASE Probe(i)
  <2> DEFINE n == logNum[i]
  <2>1. /\ pc[i] = "probe" /\ pc' = [pc EXCEPT ![i] = "probed"]
        /\ met' = Meet(i, n) /\ refused' = refused
        /\ log' = log /\ logNum' = logNum /\ logFile' = logFile
    BY <1>5 DEF Probe
  <2> SUFFICES ASSUME NEW j \in started PROVE OwnLog(j)'
    BY <1>4
  <2>2. CASE j = i
    BY <1>1, <1>3, <2>1, <2>2 DEF OwnLog
  <2>3. CASE j # i
    <3>1. pc'[j] = pc[j]
      BY <1>3, <2>1, <2>3
    <3>2. Holders(logNum[j])' \subseteq Holders(logNum[j]) \cup (IF n = logNum[j] THEN {i} ELSE {})
      BY <1>2, <1>3, <2>1 DEF Holders, Writers, Readers
    <3>3. met'[j] = IF pc[j] = "open" /\ n = logNum[j] THEN met[j] \cup {i} ELSE met[j]
      BY <2>1, <2>3 DEF Meet
    <3> QED BY <1>1, <2>1, <3>1, <3>2, <3>3 DEF OwnLog
  <2> QED BY <2>2, <2>3
<1>6. CASE NameFound(i) \/ ProbeRefused(i)
  <2> DEFINE n == logNum[i]
  <2>1. /\ pc[i] = "probe" /\ pc' = [pc EXCEPT ![i] = "open"]
        /\ met' = [met EXCEPT ![i] = Holders(n)]
        /\ log' = log /\ logNum' = logNum /\ logFile' = logFile
        /\ \/ ~Readable(n) /\ refused' = refused
           \/ refused' = [refused EXCEPT ![i] = @ \cup {"probe"}]
    BY <1>6 DEF NameFound, ProbeRefused
  <2>2. \A k : Holders(k)' = Holders(k)
    <3>1. \A k : Writers(k)' = Writers(k)
      BY <1>2, <2>1 DEF Writers
    <3>2. \A k : Readers(k)' = Readers(k)
      BY <1>2, <1>3, <2>1 DEF Readers
    <3> QED BY <3>1, <3>2 DEF Holders
  <2> SUFFICES ASSUME NEW j \in started PROVE OwnLog(j)'
    BY <1>4
  <2>3. CASE j = i
    <3>1. log[n] \in {NoFile} \cup Holders(n) \/ "probe" \in refused'[i]
      <4>0. CASE "probe" \in refused'[i]
        BY <4>0
      <4>1. CASE log[n] = NoFile
        BY <4>1
      <4>2. CASE Writers(n) # {}
        <5>1. PICK w \in started : logFile[w] = n
          BY <4>2 DEF Writers
        <5>2. logFile[w] # NULL
          BY <1>3, <5>1
        <5>3. log[n] = w
          BY <1>1, <5>1, <5>2 DEF OwnLog
        <5> QED BY <5>1, <5>3 DEF Holders, Writers
      <4>3. ~Readable(n) \/ "probe" \in refused'[i]
        BY <1>3, <2>1
      <4> QED BY <4>0, <4>1, <4>2, <4>3 DEF Readable
    <3>2. logFile[i] = NULL
      BY <1>1, <2>1 DEF OwnLog
    <3>3. pc'[i] = "open" /\ met'[i] = Holders(n)
      BY <1>3, <2>1
    <3>4. Holders(logNum[i])' = Holders(n)
      BY <2>1, <2>2
    <3> QED BY <2>1, <2>3, <3>1, <3>2, <3>3, <3>4 DEF OwnLog
  <2>4. CASE j # i
    <3>1. pc'[j] = pc[j] /\ met'[j] = met[j] /\ refused'[j] = refused[j]
      BY <1>3, <2>1, <2>4
    <3>2. Holders(logNum[j])' = Holders(logNum[j])
      BY <2>1, <2>2
    <3> QED BY <1>1, <2>1, <3>1, <3>2 DEF OwnLog
  <2> QED BY <2>3, <2>4
<1>7. CASE Open(i) /\ Holders(logNum[i]) = {}
  <2> DEFINE n == logNum[i]
  <2>1. /\ pc[i] = "open" /\ pc' = [pc EXCEPT ![i] = "run"]
        /\ log' = [log EXCEPT ![n] = i]
        /\ logFile' = [logFile EXCEPT ![i] = n]
        /\ met' = Meet(i, n)
        /\ logNum' = logNum /\ refused' = refused
    BY <1>7 DEF Open
  <2> SUFFICES ASSUME NEW j \in started PROVE OwnLog(j)'
    BY <1>4
  <2>2. CASE j = i
    <3>1. pc'[i] = "run" /\ logFile'[i] = n /\ log'[n] = i /\ logNum'[i] = n
      BY <1>3, <2>1
    <3> QED BY <2>1, <2>2, <3>1 DEF OwnLog
  <2>3. CASE j # i
    <3>1. pc'[j] = pc[j] /\ logFile'[j] = logFile[j]
      BY <1>3, <2>1, <2>3
    <3>2. Holders(logNum[j])' \subseteq Holders(logNum[j]) \cup (IF n = logNum[j] THEN {i} ELSE {})
      <4>1. Readers(logNum[j])' \subseteq Readers(logNum[j])
        BY <1>2, <1>3, <2>1 DEF Readers
      <4>2. Writers(logNum[j])' \subseteq Writers(logNum[j]) \cup (IF n = logNum[j] THEN {i} ELSE {})
        BY <1>2, <1>3, <2>1 DEF Writers
      <4> QED BY <4>1, <4>2 DEF Holders
    <3>3. met'[j] = IF pc[j] = "open" /\ n = logNum[j] THEN met[j] \cup {i} ELSE met[j]
      BY <2>1, <2>3 DEF Meet
    <3>4. log'[logNum[j]] = IF n = logNum[j] THEN i ELSE log[logNum[j]]
      BY <1>3, <2>1
    <3>5. logFile[j] # NULL => logNum[j] # n
      <4>1. logFile[j] # n
        BY <1>7 DEF Holders, Writers
      <4> QED BY <1>1, <4>1 DEF OwnLog
    <3>7. logFile'[j] # NULL =>
              pc'[j] = "run" /\ logFile'[j] = logNum'[j] /\ log'[logNum'[j]] = j
      BY <1>1, <2>1, <3>1, <3>4, <3>5 DEF OwnLog
    <3>8. pc'[j] = "open" =>
              /\ Holders(logNum[j])' \subseteq met'[j]
              /\ log'[logNum'[j]] \in {NoFile} \cup met'[j] \/ "probe" \in refused'[j]
      BY <1>1, <2>1, <3>1, <3>2, <3>3, <3>4 DEF OwnLog
    <3>9. pc'[j] = "run" /\ met'[j] = {} /\ "open" \notin refused'[j] =>
              logFile'[j] = logNum'[j]
      BY <1>1, <2>1, <3>1, <3>3 DEF OwnLog
    <3> QED BY <2>1, <3>7, <3>8, <3>9 DEF OwnLog
  <2> QED BY <2>2, <2>3
<1>8. CASE (Open(i) /\ Holders(logNum[i]) # {}) \/ OpenRefused(i)
  <2>1. /\ pc[i] = "open" /\ pc' = [pc EXCEPT ![i] = "run"]
        /\ log' = log /\ logFile' = logFile /\ met' = met /\ logNum' = logNum
        /\ \/ Holders(logNum[i]) # {} /\ refused' = refused
           \/ refused' = [refused EXCEPT ![i] = @ \cup {"open"}]
    BY <1>8 DEF Open, OpenRefused
  <2>2. logFile[i] = NULL /\ (met[i] # {} \/ "open" \in refused'[i])
    <3>1. logFile[i] = NULL /\ Holders(logNum[i]) \subseteq met[i]
      BY <1>1, <2>1 DEF OwnLog
    <3>2. Holders(logNum[i]) # {} \/ "open" \in refused'[i]
      BY <1>3, <2>1
    <3> QED BY <3>1, <3>2
  <2> SUFFICES ASSUME NEW j \in started PROVE OwnLog(j)'
    BY <1>4
  <2>3. CASE j = i
    BY <1>3, <2>1, <2>2, <2>3 DEF OwnLog
  <2>4. CASE j # i
    <3>1. pc'[j] = pc[j] /\ refused'[j] = refused[j]
      BY <1>3, <2>1, <2>4
    <3>2. Holders(logNum[j])' \subseteq Holders(logNum[j])
      BY <1>2, <1>3, <2>1 DEF Holders, Readers, Writers
    <3> QED BY <1>1, <2>1, <3>1, <3>2 DEF OwnLog
  <2> QED BY <2>3, <2>4
<1>9. CASE /\ log' = log /\ met' = met /\ refused' = refused
           /\ \/ logNum' = logNum
              \/ logNum' = [logNum EXCEPT ![i] = logNum[i] + 1]
           /\ \/ logFile' = [logFile EXCEPT ![i] = NULL]
              \/ logFile' = logFile /\ pc[i] # "run"
           /\ \E x \in {"exit", "pause", "options", "probe"} : pc' = [pc EXCEPT ![i] = x]
  <2> SUFFICES ASSUME NEW j \in started PROVE OwnLog(j)'
    BY <1>4
  <2>1. pc'[i] \in {"exit", "pause", "options", "probe"}
    BY <1>3, <1>9
  <2>2. logFile'[i] = NULL
    <3>1. pc[i] # "run" => logFile[i] = NULL
      BY <1>1 DEF OwnLog
    <3> QED BY <1>3, <1>9, <3>1
  <2>3. CASE j = i
    BY <2>1, <2>2, <2>3 DEF OwnLog
  <2>4. CASE j # i
    <3>1. pc'[j] = pc[j] /\ logNum'[j] = logNum[j] /\ logFile'[j] = logFile[j]
      BY <1>3, <1>9, <2>4
    <3>2. Holders(logNum[j])' \subseteq Holders(logNum[j])
      <4>1. ASSUME NEW k \in started, k \in Writers(logNum[j])' \/ k \in Readers(logNum[j])'
            PROVE  k \in Holders(logNum[j])
        <5>1. k # i
          <6>1. logNum'[j] # NULL
            BY <1>3, <3>1
          <6> QED BY <2>1, <2>2, <4>1, <6>1 DEF Writers, Readers
        <5>2. pc'[k] = pc[k] /\ logNum'[k] = logNum[k] /\ logFile'[k] = logFile[k]
          BY <1>3, <1>9, <5>1
        <5> QED BY <3>1, <4>1, <5>2 DEF Holders, Writers, Readers
      <4>2. Holders(logNum[j])' \subseteq started
        BY <1>2 DEF Holders, Writers, Readers
      <4> QED BY <4>1, <4>2 DEF Holders
    <3> QED BY <1>1, <1>9, <3>1, <3>2 DEF OwnLog
  <2> QED BY <2>3, <2>4
<1>10. CASE logs' = logs /\ pc' = pc
  BY <1>1, <1>2, <1>4, <1>10 DEF OwnLog, logs, Holders, Writers, Readers
<1> QED BY <1>5, <1>6, <1>7, <1>8, <1>9, <1>10, LogSteps

-----------------------------------------------------------------------------
LEMMA StutterStep == IInv /\ UNCHANGED vars => IInv'
<1> SUFFICES ASSUME IInv, UNCHANGED vars PROVE IInv'
  OBVIOUS
<1>1. /\ args' = args /\ pc' = pc /\ strDir' = strDir /\ strDir2' = strDir2
      /\ batch' = batch /\ scan' = scan /\ ret' = ret /\ log' = log
      /\ logNum' = logNum /\ logFile' = logFile /\ met' = met /\ refused' = refused
  BY DEF vars, options, directories, logs
<1>2. TypeOK'
  BY <1>1 DEF IInv, TypeOK, ScanInBounds, started
<1>3. Scans'
  BY <1>1 DEF IInv, Scans, started
<1>4. Filled'
  BY <1>1 DEF IInv, Filled, TakenBelow, Gone, started, LogName
<1>5. OwnLogs'
  BY <1>1 DEF IInv, OwnLogs, Holders, Writers, Readers, started
<1> QED BY <1>2, <1>3, <1>4, <1>5 DEF IInv

LEMMA InductiveStep == IInv /\ [Next]_vars => IInv'
<1> SUFFICES ASSUME IInv, [Next]_vars PROVE IInv'
  OBVIOUS
<1>1. CASE UNCHANGED vars
  BY <1>1, StutterStep
<1>2. CASE Next
  <2>1. PICK i \in started : Step(i) \/ Key(i) \/ Crash(i)
    BY <1>2 DEF Next
  <2>2. TypeOK'
    BY <2>1, TypeStep
  <2>3. Scans'
    BY <2>1, ScansStep DEF IInv
  <2>4. Filled'
    BY <2>1, FilledStep
  <2>5. OwnLogs'
    BY <2>1, OwnLogsStep
  <2> QED BY <2>2, <2>3, <2>4, <2>5 DEF IInv
<1> QED BY <1>1, <1>2

LEMMA IInvHolds == Spec => []IInv
BY InitIInv, InductiveStep, PTL DEF Spec

\* Every variable has its type.  In particular getopt never reads past the
\* end of a word, nor a word past argc, whatever the command line, and there
\* is a name for every log: each instance passes at most one name more than
\* there are logs of earlier runs and instances gone before.
THEOREM StartupTypeCorrect == Spec => []TypeOK
<1>1. IInv => TypeOK
  BY DEF IInv
<1> QED BY <1>1, IInvHolds, PTL

\* _tmain: an instance nobody meets at its log, and that is not refused the
\* file for another reason, has that log open, and what is in it is its own,
\* however many others start, search and are stopped.
THEOREM AloneHasItsLog == Spec => []AloneHasLog
<1>1. IInv => AloneHasLog
  <2> SUFFICES ASSUME IInv, NEW i \in started, pc[i] = "run", met[i] = {},
                      "open" \notin refused[i]
               PROVE  logFile[i] = logNum[i] /\ log[logNum[i]] = i
    BY DEF AloneHasLog
  <2>1. logFile[i] = logNum[i]
    BY DEF IInv, OwnLogs
  <2>2. logNum[i] # NULL
    BY DEF IInv, TypeOK, LogName, NULL
  <2> QED BY <2>1, <2>2 DEF IInv, OwnLogs
<1> QED BY <1>1, IInvHolds, PTL

\* _tmain: a log is emptied by an instance only that met its writer at that
\* name, between the probe that failed and _wfopen_s for writing, or that could
\* not probe it for another reason; no log of an earlier run is emptied else.
THEOREM LogsAreKept == Spec => KeepsLogs
<1> DEFINE Kept ==
        \A n \in LogName :
            log[n] \notin {NoFile, log'[n]} =>
                /\ log'[n] \in started
                /\ log[n] \in met[log'[n]] \/ "probe" \in refused[log'[n]]
<1>1. ASSUME IInv, Next PROVE Kept
  <2>1. PICK i \in started : Step(i) \/ Key(i) \/ Crash(i)
    BY <1>1 DEF Next
  <2> SUFFICES ASSUME NEW n \in LogName, log[n] \notin {NoFile, log'[n]}
               PROVE  /\ log'[n] \in started
                      /\ log[n] \in met[log'[n]] \/ "probe" \in refused[log'[n]]
    OBVIOUS
  <2>2. Open(i) /\ Holders(logNum[i]) = {}
    BY <2>1, LogSteps DEF Open, Probe, NameFound, ProbeRefused, OpenRefused, logs
  <2>3. pc[i] = "open" /\ log' = [log EXCEPT ![logNum[i]] = i]
    BY <2>2 DEF Open
  <2>4. n = logNum[i] /\ log'[n] = i
    BY <1>1, <2>3 DEF IInv, TypeOK
  <2>5. log[n] \in {NoFile} \cup met[i] \/ "probe" \in refused[i]
    BY <1>1, <2>1, <2>3, <2>4 DEF IInv, OwnLogs
  <2> QED BY <2>1, <2>4, <2>5
<1>2. IInv /\ [Next]_vars => [Kept]_vars
  <2> HIDE DEF Kept
  <2> QED BY <1>1
<1> QED BY <1>2, IInvHolds, PTL DEF Spec, KeepsLogs

-----------------------------------------------------------------------------
(* The words and their letters, as far as the scanner has come.            *)

Takes(w, p) == Letters(w[p]) \cap TakesArgument # {}
WordsOf(w) == OptionWords(w, First(w))

\* The words before o that give the option c, and the argument of the last.
Asking(c, w, o) == {q \in WordsOf(w) : q < o /\ c \in Letters(w[q])}
AfterLast(words, w, default) ==
    IF words = {} THEN default
    ELSE w[(CHOOSE p \in words : \A q \in words : q <= p) + 1]
LastFor(c, w, o, default) == AfterLast(Asking(c, w, o), w, default)

\* The letters read when the scanner is at w[o], p letters into it.
LettersTo(w, o, p) ==
    (UNION {Letters(w[q]) : q \in {v \in WordsOf(w) : v < o}}) \cup {w[o][k] : k \in 2..p}

AsOptions(smaller, lists, rotated, quality, mask) ==
    [MoveSmaller |-> smaller, UseLists |-> lists, ImageCanBeRotated |-> rotated,
     eQuality |-> quality, strMaskExt |-> mask]

Understood(w, o, p) ==
    AsOptions("s" \in LettersTo(w, o, p),
              "l" \in LettersTo(w, o, p),
              "r" \in LettersTo(w, o, p),
              IF Asking("q", w, o) = {} THEN 5 ELSE Wtof(LastFor("q", w, o, <<>>)),
              Mask(LastFor("e", w, o, DefaultMask)))

\* o is where an option word may stand: it follows one without argument, or
\* the argument of one.
Reached(w, o) ==
    \/ o = First(w)
    \/ o - 1 \in WordsOf(w) /\ ~Takes(w, o - 1)
    \/ o - 2 \in WordsOf(w) /\ Takes(w, o - 2) /\ ~Dash(w[o - 1])

\* What has been read of w is options with their arguments.
ReadWell(w, o, p) ==
    /\ o \in First(w)..(Len(w) + 1)
    /\ Reached(w, o)
    /\ \A q \in WordsOf(w) : q < o =>
          /\ Letters(w[q]) \subseteq Flags \cup TakesArgument
          /\ Takes(w, q) => q + 1 < o /\ ~Dash(w[q + 1])
    /\ \A q \in First(w)..(o - 1) :
          q \in WordsOf(w) \/ (q - 1 \in WordsOf(w) /\ Takes(w, q - 1))
    /\ p > 1 => o \in WordsOf(w) /\ \A k \in 2..p : w[o][k] \in Flags

-----------------------------------------------------------------------------
(* OptionWords, without its recursion.                                     *)

MayStand(S, w, first, p) ==
    \/ p = first
    \/ p - 1 \in S /\ ~Takes(w, p - 1)
    \/ p - 2 \in S /\ Takes(w, p - 2)

LEMMA WordsExist ==
    ASSUME NEW w \in Seq(Word), NEW first \in Nat
    PROVE  \E S \in SUBSET (first..Len(w)) : \A p \in first..Len(w) :
              p \in S <=> IsOptionWord(w[p]) /\ MayStand(S, w, first, p)
<1> DEFINE Fits(S, n) ==
              \A p \in first..Len(w) : p < first + n =>
                  (p \in S <=> IsOptionWord(w[p]) /\ MayStand(S, w, first, p))
           Some(n) == \E S \in SUBSET (first..Len(w)) : Fits(S, n)
           U == {n \in Nat : Some(n)}
<1>0. Len(w) \in Nat
  OBVIOUS
<1>1. 0 \in U
  <2>1. Fits({}, 0)
    OBVIOUS
  <2>2. Some(0)
    <3> HIDE DEF Fits
    <3> QED BY <2>1
  <2> HIDE DEF Some
  <2> QED BY <2>2
<1>2. ASSUME NEW n \in U PROVE n + 1 \in U
  <2>1. PICK S \in SUBSET (first..Len(w)) : Fits(S, n)
    OBVIOUS
  <2> DEFINE m == first + n
             New == {p \in first..Len(w) : IF p = m THEN IsOptionWord(w[p]) /\ MayStand(S, w, first, p)
                                       ELSE p \in S}
  <2>2. n \in Nat /\ m \in Nat
    OBVIOUS
  <2>3. \A q \in Int : q # m => (q \in New <=> q \in S)
    OBVIOUS
  <2>4. ASSUME NEW p \in first..Len(w), p < m + 1
        PROVE  p \in New <=> IsOptionWord(w[p]) /\ MayStand(New, w, first, p)
    <3>1. (p - 1 \in New <=> p - 1 \in S) /\ (p - 2 \in New <=> p - 2 \in S)
      <4>1. p - 1 \in Int /\ p - 2 \in Int /\ p - 1 # m /\ p - 2 # m
        BY <2>2, <2>4
      <4> HIDE DEF New
      <4> QED BY <2>3, <4>1
    <3>2. MayStand(New, w, first, p) <=> MayStand(S, w, first, p)
      BY <3>1 DEF MayStand
    <3>3. p = m \/ p < first + n
      BY <2>2, <2>4
    <3>4. CASE p = m
      <4>1. p \in New <=> IsOptionWord(w[p]) /\ MayStand(S, w, first, p)
        BY <3>4
      <4> QED BY <3>2, <4>1
    <3>5. CASE p # m
      <4>1. p \in New <=> p \in S
        BY <3>5
      <4>2. p \in S <=> IsOptionWord(w[p]) /\ MayStand(S, w, first, p)
        BY <2>1, <3>3, <3>5
      <4> QED BY <3>2, <4>1, <4>2
    <3> QED BY <3>4, <3>5
  <2>5. New \in SUBSET (first..Len(w))
    OBVIOUS
  <2>6. m + 1 = first + (n + 1)
    BY <2>2
  <2> HIDE DEF New, m
  <2>7. Fits(New, n + 1)
    BY <2>4, <2>6
  <2>8. Some(n + 1)
    <3> HIDE DEF Fits
    <3> QED BY <2>5, <2>7
  <2> HIDE DEF Some
  <2> QED BY <2>2, <2>8
<1>3. U = Nat
  <2> HIDE DEF U
  <2>1. U \in SUBSET Nat
    BY DEF U
  <2> QED BY <1>1, <1>2, <2>1, NatInd
<1>4. Len(w) + 1 \in U
  <2> HIDE DEF U
  <2> QED BY <1>0, <1>3
<1>5. PICK S \in SUBSET (first..Len(w)) : Fits(S, Len(w) + 1)
  BY <1>4
<1>6. \A p \in first..Len(w) : p < first + (Len(w) + 1)
  BY <1>0
<1> QED BY <1>5, <1>6

LEMMA WordsRead ==
    ASSUME NEW w \in Seq(Word), NEW first \in Nat
    PROVE  /\ OptionWords(w, first) \subseteq first..Len(w)
           /\ \A p \in first..Len(w) :
                 p \in OptionWords(w, first) <=>
                     IsOptionWord(w[p]) /\ MayStand(OptionWords(w, first), w, first, p)
<1> DEFINE Rec(f) == f = [p \in Int |->
                    /\ p \in first..Len(w)
                    /\ IsOptionWord(w[p])
                    /\ \/ p = first
                       \/ f[p - 1] /\ Letters(w[p - 1]) \cap TakesArgument = {}
                       \/ f[p - 2] /\ Letters(w[p - 2]) \cap TakesArgument # {}]
           read == CHOOSE f : Rec(f)
           W == {p \in first..Len(w) : read[p]}
<1>1. OptionWords(w, first) = W
  BY DEF OptionWords
<1>2. \E f : Rec(f)
  <2>1. PICK S \in SUBSET (first..Len(w)) : \A p \in first..Len(w) :
                p \in S <=> IsOptionWord(w[p]) /\ MayStand(S, w, first, p)
    BY WordsExist
  <2> DEFINE f == [p \in Int |-> p \in S]
             Body(p) == /\ p \in first..Len(w)
                    /\ IsOptionWord(w[p])
                    /\ \/ p = first
                       \/ f[p - 1] /\ Letters(w[p - 1]) \cap TakesArgument = {}
                       \/ f[p - 2] /\ Letters(w[p - 2]) \cap TakesArgument # {}
  <2>2. \A p \in Int : (p \in S) = Body(p)
    <3> SUFFICES ASSUME NEW p \in Int PROVE (p \in S) <=> Body(p)
      OBVIOUS
    <3>1. p - 1 \in Int /\ p - 2 \in Int
      OBVIOUS
    <3>2. f[p - 1] = (p - 1 \in S) /\ f[p - 2] = (p - 2 \in S)
      BY <3>1
    <3> HIDE DEF f
    <3> QED BY <2>1, <3>2 DEF MayStand, Takes
  <2>3. f = [p \in Int |-> Body(p)]
    <3> HIDE DEF Body
    <3> QED BY <2>2
  <2>4. Rec(f)
    BY <2>3
  <2> QED BY <2>4
<1>3. Rec(read)
  BY <1>2
<1>4. ASSUME NEW p \in Int
      PROVE  read[p] <=> /\ p \in first..Len(w)
                    /\ IsOptionWord(w[p])
                    /\ \/ p = first
                       \/ read[p - 1] /\ Letters(w[p - 1]) \cap TakesArgument = {}
                       \/ read[p - 2] /\ Letters(w[p - 2]) \cap TakesArgument # {}
  <2> HIDE DEF read
  <2> QED BY <1>3
<1> HIDE DEF read, Rec
<1>5. \A p \in Int : p \in W <=> read[p]
  BY <1>4
<1>6. \A p \in first..Len(w) :
            p \in W <=> IsOptionWord(w[p]) /\ MayStand(W, w, first, p)
  <2> SUFFICES ASSUME NEW p \in first..Len(w)
               PROVE  p \in W <=> IsOptionWord(w[p]) /\ MayStand(W, w, first, p)
    OBVIOUS
  <2>1. p - 1 \in Int /\ p - 2 \in Int /\ p \in Int
    OBVIOUS
  <2> HIDE DEF W
  <2> QED BY <1>4, <1>5, <2>1 DEF MayStand, Takes
<1> QED BY <1>1, <1>6

\* The letters of a word whose first ones take no argument.
LEMMA LettersOf ==
    ASSUME NEW T, NEW v \in Seq(T), NEW m \in 1..(Len(v) - 1),
           \A k \in 2..m : v[k] \in Flags
    PROVE  /\ v[m + 1] \in Letters(v)
           /\ v[m + 1] \in TakesArgument \/ m + 1 = Len(v)
                => Letters(v) = {v[k] : k \in 2..(m + 1)}
<1>1. Len(v) \in Nat
  OBVIOUS
<1>2. \A k \in 2..m : v[k] \notin TakesArgument
  BY DEF Flags, TakesArgument
<1>3. ASSUME NEW k \in 2..(m + 1) PROVE k \in Looked(v)
  BY <1>1, <1>2 DEF Looked
<1>4. m + 1 \in 2..(m + 1)
  BY <1>1
<1>5. ASSUME v[m + 1] \in TakesArgument \/ m + 1 = Len(v), NEW k \in Looked(v)
      PROVE  k \in 2..(m + 1)
  <2>1. k \in 2..Len(v) /\ \A j \in 2..(k - 1) : v[j] \notin TakesArgument
    BY DEF Looked
  <2>2. k > m + 1 => m + 1 \in 2..(k - 1)
    BY <1>1, <2>1
  <2> QED BY <1>1, <1>5, <2>1, <2>2
<1>6. v[m + 1] \in TakesArgument \/ m + 1 = Len(v) => Looked(v) = 2..(m + 1)
  BY <1>3, <1>5
<1>7. v[m + 1] \in Letters(v)
  BY <1>3, <1>4 DEF Letters
<1> QED BY <1>6, <1>7 DEF Letters

LEMMA WordIsSeq ==
    ASSUME NEW w \in Seq(Word), NEW p \in 1..Len(w)
    PROVE  w[p] \in Seq(Range(w[p]))
<1>1. w[p] \in Word
  OBVIOUS
<1> QED BY <1>1, StartupAssumption

LEMMA FirstWord ==
    ASSUME NEW w \in Seq(Word), w # <<>>
    PROVE  First(w) \in {2, 3} /\ First(w) <= Len(w) + 1 /\ Len(w) \in Nat
<1>1. Len(w) \in Nat /\ Len(w) # 0
  OBVIOUS
<1> QED BY <1>1 DEF First, HasSecond

\* Which words are option words, and that the scanner stands at one.
LEMMA WordsOfRead ==
    ASSUME NEW w \in Seq(Word), w # <<>>
    PROVE  /\ WordsOf(w) \subseteq First(w)..Len(w)
           /\ \A p \in First(w)..Len(w) :
                 p \in WordsOf(w) <=>
                     IsOptionWord(w[p]) /\ MayStand(WordsOf(w), w, First(w), p)
<1>1. First(w) \in Nat
  BY FirstWord
<1> QED BY <1>1, WordsRead DEF WordsOf

LEMMA StandsAtOption ==
    ASSUME NEW w \in Seq(Word), w # <<>>, NEW o, NEW p, ReadWell(w, o, p), InWords(o, p, w),
           ~NoOption(w, o, p), ~EndMark(w, o, p)
    PROVE  o \in WordsOf(w)
<1>1. o \in 1..Len(w) /\ p \in 1..(Len(w[o]) - 1) /\ Len(w[o]) \in Nat
  BY OptionHasLetter
<1>2. CASE p = 1
  <2>1. Dash(w[o]) /\ Len(w[o]) # 1 /\ w[o] # <<"-", "-">>
    BY <1>1, <1>2 DEF NoOption, EndMark
  <2>2. IsOptionWord(w[o])
    BY <1>1, <2>1 DEF IsOptionWord
  <2>3. o \in First(w)..Len(w)
    BY <1>1, FirstWord DEF ReadWell
  <2>4. MayStand(WordsOf(w), w, First(w), o)
    BY DEF ReadWell, Reached, MayStand
  <2> QED BY <2>2, <2>3, <2>4, WordsOfRead
<1>3. CASE p # 1
  <2>1. p > 1
    BY <1>1, <1>3
  <2> QED BY <2>1 DEF ReadWell
<1> QED BY <1>2, <1>3

-----------------------------------------------------------------------------
(* What a turn adds to what has been read.                                 *)

\* Only flags have been read of the word at o, so that the letters of it that
\* are read are letters of it.
LEMMA ReadOfWord ==
    ASSUME NEW w \in Seq(Word), w # <<>>, NEW o, NEW p, ReadWell(w, o, p), InWords(o, p, w),
           ~NoOption(w, o, p)
    PROVE  /\ o \in 1..Len(w) /\ p \in 1..(Len(w[o]) - 1) /\ Len(w[o]) \in Nat
           /\ w[o] \in Seq(Range(w[o]))
           /\ \A k \in 2..p : w[o][k] \in Flags
<1>1. o \in 1..Len(w) /\ p \in 1..(Len(w[o]) - 1) /\ Len(w[o]) \in Nat
  BY OptionHasLetter
<1>2. \A k \in 2..p : w[o][k] \in Flags
  <2>1. p = 1 \/ p > 1
    BY <1>1
  <2> QED BY <1>1, <2>1 DEF ReadWell
<1> QED BY <1>1, <1>2, WordIsSeq

\* A flag within a word.
LEMMA ReadsFlag ==
    ASSUME NEW w \in Seq(Word), w # <<>>, NEW o, NEW p, ReadWell(w, o, p), InWords(o, p, w),
           ~NoOption(w, o, p), ~EndMark(w, o, p),
           w[o][p + 1] \in Flags, p + 1 # Len(w[o])
    PROVE  /\ ReadWell(w, o, p + 1)
           /\ LettersTo(w, o, p + 1) = LettersTo(w, o, p) \cup {w[o][p + 1]}
<1>1. o \in WordsOf(w)
  BY StandsAtOption
<1>2. /\ o \in 1..Len(w) /\ p \in 1..(Len(w[o]) - 1) /\ Len(w[o]) \in Nat
      /\ \A k \in 2..p : w[o][k] \in Flags
  BY ReadOfWord
<1>3. 2..(p + 1) = (2..p) \cup {p + 1}
  BY <1>2
<1>4. \A k \in 2..(p + 1) : w[o][k] \in Flags
  BY <1>2, <1>3
<1>5. ReadWell(w, o, p + 1)
  BY <1>1, <1>4 DEF ReadWell
<1>6. {w[o][k] : k \in 2..(p + 1)} = {w[o][k] : k \in 2..p} \cup {w[o][p + 1]}
  BY <1>3
<1> QED BY <1>5, <1>6 DEF LettersTo

\* The last letter of a word, a flag.
LEMMA ReadsLastFlag ==
    ASSUME NEW w \in Seq(Word), w # <<>>, NEW o, NEW p, ReadWell(w, o, p), InWords(o, p, w),
           ~NoOption(w, o, p), ~EndMark(w, o, p),
           w[o][p + 1] \in Flags, p + 1 = Len(w[o])
    PROVE  /\ ReadWell(w, o + 1, 1)
           /\ LettersTo(w, o + 1, 1) = LettersTo(w, o, p) \cup {w[o][p + 1]}
           /\ \A c \in TakesArgument : Asking(c, w, o + 1) = Asking(c, w, o)
<1>1. o \in WordsOf(w)
  BY StandsAtOption
<1>2. /\ o \in 1..Len(w) /\ p \in 1..(Len(w[o]) - 1) /\ Len(w[o]) \in Nat
      /\ w[o] \in Seq(Range(w[o]))
      /\ \A k \in 2..p : w[o][k] \in Flags
  BY ReadOfWord
<1>3. 2..(p + 1) = (2..p) \cup {p + 1}
  BY <1>2
<1>4. Letters(w[o]) = {w[o][k] : k \in 2..p} \cup {w[o][p + 1]}
  <2>1. Letters(w[o]) = {w[o][k] : k \in 2..(p + 1)}
    BY <1>2, LettersOf
  <2> QED BY <1>3, <2>1
<1>5. Letters(w[o]) \subseteq Flags /\ ~Takes(w, o)
  BY <1>2, <1>4 DEF Takes, Flags, TakesArgument
<1>6. WordsOf(w) \subseteq First(w)..Len(w) /\ First(w) \in {2, 3}
  BY WordsOfRead, FirstWord
<1>7. \A q \in WordsOf(w) : q < o + 1 <=> q < o \/ q = o
  BY <1>2, <1>6
<1>8. ReadWell(w, o + 1, 1)
  <2>1. o + 1 \in First(w)..(Len(w) + 1) /\ (o + 1) - 1 = o
    BY <1>1, <1>2, <1>6
  <2>2. \A q \in WordsOf(w) : q < o + 1 =>
            /\ Letters(w[q]) \subseteq Flags \cup TakesArgument
            /\ Takes(w, q) => q + 1 < o + 1 /\ ~Dash(w[q + 1])
    <3>1. ASSUME NEW q \in WordsOf(w), q < o
          PROVE  /\ Letters(w[q]) \subseteq Flags \cup TakesArgument
                 /\ Takes(w, q) => q + 1 < o + 1 /\ ~Dash(w[q + 1])
      <4>1. q + 1 < o => q + 1 < o + 1
        BY <1>2, <1>6
      <4> QED BY <3>1, <4>1 DEF ReadWell
    <3> QED BY <1>5, <1>7, <3>1
  <2>3. \A q \in First(w)..o :
            q \in WordsOf(w) \/ (q - 1 \in WordsOf(w) /\ Takes(w, q - 1))
    <3>1. \A q \in First(w)..o : q = o \/ q \in First(w)..(o - 1)
      BY <1>2, <1>6
    <3> QED BY <1>1, <3>1 DEF ReadWell
  <2>4. Reached(w, o + 1)
    BY <1>1, <1>5, <2>1 DEF Reached
  <2> QED BY <2>1, <2>2, <2>3, <2>4 DEF ReadWell
<1>9. LettersTo(w, o + 1, 1) = LettersTo(w, o, p) \cup {w[o][p + 1]}
  <2>1. {v \in WordsOf(w) : v < o + 1} = {v \in WordsOf(w) : v < o} \cup {o}
    BY <1>1, <1>7
  <2>2. {w[o + 1][k] : k \in 2..1} = {}
    OBVIOUS
  <2>3. UNION {Letters(w[q]) : q \in {v \in WordsOf(w) : v < o + 1}}
            = (UNION {Letters(w[q]) : q \in {v \in WordsOf(w) : v < o}}) \cup Letters(w[o])
    BY <2>1
  <2> QED BY <1>4, <2>2, <2>3 DEF LettersTo
<1>10. \A c \in TakesArgument : Asking(c, w, o + 1) = Asking(c, w, o)
  <2>1. \A c \in TakesArgument : c \notin Letters(w[o])
    BY <1>5 DEF Flags, TakesArgument
  <2> QED BY <1>7, <2>1 DEF Asking
<1> QED BY <1>8, <1>9, <1>10

\* A letter with an argument.
LEMMA ReadsArgument ==
    ASSUME NEW w \in Seq(Word), w # <<>>, NEW o, NEW p, ReadWell(w, o, p), InWords(o, p, w),
           ~NoOption(w, o, p), ~EndMark(w, o, p),
           w[o][p + 1] \in TakesArgument, ~NoArgument(w, o)
    PROVE  /\ ReadWell(w, o + 2, 1)
           /\ LettersTo(w, o + 2, 1) = LettersTo(w, o, p) \cup {w[o][p + 1]}
           /\ \A c \in TakesArgument :
                 Asking(c, w, o + 2) = Asking(c, w, o) \cup
                                           (IF c = w[o][p + 1] THEN {o} ELSE {})
<1>1. o \in WordsOf(w)
  BY StandsAtOption
<1>2. /\ o \in 1..Len(w) /\ p \in 1..(Len(w[o]) - 1) /\ Len(w[o]) \in Nat
      /\ w[o] \in Seq(Range(w[o])) /\ Len(w) \in Nat
      /\ \A k \in 2..p : w[o][k] \in Flags
  BY ReadOfWord
<1>3. 2..(p + 1) = (2..p) \cup {p + 1}
  BY <1>2
<1>4. Letters(w[o]) = {w[o][k] : k \in 2..p} \cup {w[o][p + 1]}
  <2>1. Letters(w[o]) = {w[o][k] : k \in 2..(p + 1)}
    BY <1>2, LettersOf
  <2> QED BY <1>3, <2>1
<1>5. Letters(w[o]) \subseteq Flags \cup TakesArgument /\ Takes(w, o)
  BY <1>2, <1>4 DEF Takes
<1>6. WordsOf(w) \subseteq First(w)..Len(w) /\ First(w) \in {2, 3}
  BY WordsOfRead, FirstWord
<1>11. o + 1 \in 1..Len(w) /\ ~Dash(w[o + 1])
  BY <1>2 DEF NoArgument
<1>12. o + 1 \notin WordsOf(w)
  BY <1>6, <1>11, WordsOfRead DEF IsOptionWord
<1>7. \A q \in WordsOf(w) : q < o + 2 <=> q < o \/ q = o
  <2>1. \A q \in WordsOf(w) : q # o + 1
    BY <1>12
  <2> QED BY <1>2, <1>6, <2>1
<1>8. ReadWell(w, o + 2, 1)
  <2>1. o + 2 \in First(w)..(Len(w) + 1) /\ (o + 2) - 2 = o /\ (o + 2) - 1 = o + 1
    BY <1>1, <1>2, <1>6, <1>11
  <2>2. \A q \in WordsOf(w) : q < o + 2 =>
            /\ Letters(w[q]) \subseteq Flags \cup TakesArgument
            /\ Takes(w, q) => q + 1 < o + 2 /\ ~Dash(w[q + 1])
    <3>1. ASSUME NEW q \in WordsOf(w), q < o
          PROVE  /\ Letters(w[q]) \subseteq Flags \cup TakesArgument
                 /\ Takes(w, q) => q + 1 < o + 2 /\ ~Dash(w[q + 1])
      <4>1. q + 1 < o => q + 1 < o + 2
        BY <1>2, <1>6
      <4> QED BY <3>1, <4>1 DEF ReadWell
    <3>2. o + 1 < o + 2
      BY <1>2
    <3> QED BY <1>5, <1>7, <1>11, <3>1, <3>2
  <2>3. \A q \in First(w)..(o + 1) :
            q \in WordsOf(w) \/ (q - 1 \in WordsOf(w) /\ Takes(w, q - 1))
    <3>1. \A q \in First(w)..(o + 1) : q = o \/ q = o + 1 \/ q \in First(w)..(o - 1)
      BY <1>2, <1>6
    <3>2. (o + 1) - 1 = o
      BY <1>2
    <3> QED BY <1>1, <1>5, <3>1, <3>2 DEF ReadWell
  <2>4. Reached(w, o + 2)
    BY <1>1, <1>5, <1>11, <2>1 DEF Reached
  <2> QED BY <2>1, <2>2, <2>3, <2>4 DEF ReadWell
<1>9. LettersTo(w, o + 2, 1) = LettersTo(w, o, p) \cup {w[o][p + 1]}
  <2>1. {v \in WordsOf(w) : v < o + 2} = {v \in WordsOf(w) : v < o} \cup {o}
    BY <1>1, <1>7
  <2>2. {w[o + 2][k] : k \in 2..1} = {}
    OBVIOUS
  <2>3. UNION {Letters(w[q]) : q \in {v \in WordsOf(w) : v < o + 2}}
            = (UNION {Letters(w[q]) : q \in {v \in WordsOf(w) : v < o}}) \cup Letters(w[o])
    BY <2>1
  <2> QED BY <1>4, <2>2, <2>3 DEF LettersTo
<1>10. ASSUME NEW c \in TakesArgument
       PROVE  Asking(c, w, o + 2) = Asking(c, w, o) \cup
                                        (IF c = w[o][p + 1] THEN {o} ELSE {})
  <2>1. c \in Letters(w[o]) <=> c = w[o][p + 1]
    <3>1. c \notin Flags
      BY DEF Flags, TakesArgument
    <3> QED BY <1>2, <1>4, <3>1
  <2> QED BY <1>1, <1>7, <2>1 DEF Asking
<1> QED BY <1>8, <1>9, <1>10

-----------------------------------------------------------------------------
(* How the reading ends.                                                   *)

\* The words that are neither options nor their arguments.
Rest(w) ==
    {q \in First(w)..Len(w) :
        q \notin WordsOf(w) /\ ~(q - 1 \in WordsOf(w) /\ Takes(w, q - 1))}

LEMMA LegalIs ==
    ASSUME NEW w \in Seq(Word), w # <<>>
    PROVE  Legal(w, First(w)) <=>
              /\ \A q \in WordsOf(w) :
                    /\ Letters(w[q]) \subseteq Flags \cup TakesArgument
                    /\ Takes(w, q) => ~(q = Len(w) \/ Dash(w[q + 1]))
              /\ \/ Rest(w) = {}
                 \/ Rest(w) = {Len(w)} /\ w[Len(w)] = <<"-", "-">>
<1> DEFINE W == WordsOf(w)
           arguments == {q + 1 : q \in {v \in W : Letters(w[v]) \cap TakesArgument # {}}}
           rest == (First(w)..Len(w)) \ (W \cup arguments)
<1>1. Legal(w, First(w)) <=>
          /\ \A q \in W : Letters(w[q]) \subseteq Flags \cup TakesArgument
          /\ Deprived(w, W) = {}
          /\ \/ rest = {}
             \/ rest = {Len(w)} /\ w[Len(w)] = <<"-", "-">>
  BY DEF Legal, WordsOf
<1>2. W \subseteq Int
  BY WordsOfRead, FirstWord
<1>3. \A q \in Int : q \in arguments <=> (q - 1 \in W /\ Takes(w, q - 1))
  <2> HIDE DEF W
  <2> SUFFICES ASSUME NEW q \in Int
               PROVE  q \in arguments <=> (q - 1 \in W /\ Takes(w, q - 1))
    OBVIOUS
  <2>1. ASSUME q \in arguments PROVE q - 1 \in W /\ Takes(w, q - 1)
    <3>1. PICK v \in W : q = v + 1 /\ Letters(w[v]) \cap TakesArgument # {}
      BY <2>1
    <3>2. v = q - 1
      BY <1>2, <3>1
    <3> QED BY <3>1, <3>2 DEF Takes
  <2>2. ASSUME q - 1 \in W, Takes(w, q - 1) PROVE q \in arguments
    <3>1. q = (q - 1) + 1
      OBVIOUS
    <3> QED BY <2>2, <3>1 DEF Takes
  <2> QED BY <2>1, <2>2
<1>4. rest = Rest(w)
  <2>1. First(w)..Len(w) \subseteq Int
    OBVIOUS
  <2> HIDE DEF arguments
  <2> QED BY <1>3, <2>1 DEF Rest
<1>5. Deprived(w, W) = {} <=> \A q \in W : Takes(w, q) => ~(q = Len(w) \/ Dash(w[q + 1]))
  BY DEF Deprived, Takes
<1> HIDE DEF rest, W, arguments
<1> QED BY <1>1, <1>4, <1>5 DEF W

\* A letter that is no option, or an option without its argument.
LEMMA RefusesOption ==
    ASSUME NEW w \in Seq(Word), w # <<>>, NEW o, NEW p, ReadWell(w, o, p), InWords(o, p, w),
           ~NoOption(w, o, p), ~EndMark(w, o, p),
           \/ w[o][p + 1] \notin Flags \cup TakesArgument
           \/ w[o][p + 1] \in TakesArgument /\ NoArgument(w, o)
    PROVE  ~Legal(w, First(w))
<1>1. o \in WordsOf(w)
  BY StandsAtOption
<1>2. /\ o \in 1..Len(w) /\ p \in 1..(Len(w[o]) - 1) /\ Len(w) \in Nat
      /\ w[o] \in Seq(Range(w[o]))
      /\ \A k \in 2..p : w[o][k] \in Flags
  BY ReadOfWord
<1>3. w[o][p + 1] \in Letters(w[o])
  BY <1>2, LettersOf
<1>4. w[o][p + 1] \in TakesArgument => Takes(w, o)
  BY <1>3 DEF Takes
<1>5. NoArgument(w, o) => o = Len(w) \/ Dash(w[o + 1])
  BY <1>2 DEF NoArgument
<1> QED BY <1>1, <1>3, <1>4, <1>5, LegalIs

\* What stands where an option may stand and is none, is left over.
LEMMA LeftOver ==
    ASSUME NEW w \in Seq(Word), w # <<>>, NEW o, ReadWell(w, o, 1), o <= Len(w),
           ~IsOptionWord(w[o])
    PROVE  o \in Rest(w)
<1>1. o \in First(w)..Len(w) /\ Len(w) \in Nat /\ First(w) \in {2, 3}
  BY FirstWord DEF ReadWell
<1>2. o \notin WordsOf(w)
  BY <1>1, WordsOfRead
<1>3. ~(o - 1 \in WordsOf(w) /\ Takes(w, o - 1))
  <2>1. CASE o = First(w)
    BY <1>1, <2>1, WordsOfRead
  <2>2. CASE o - 1 \in WordsOf(w) /\ ~Takes(w, o - 1)
    BY <2>2
  <2>3. CASE o - 2 \in WordsOf(w) /\ Takes(w, o - 2) /\ ~Dash(w[o - 1])
    <3>1. ~IsOptionWord(w[o - 1])
      BY <2>3 DEF IsOptionWord
    <3> QED BY <3>1, WordsOfRead
  <2> QED BY <2>1, <2>2, <2>3 DEF ReadWell, Reached
<1> QED BY <1>1, <1>2, <1>3 DEF Rest

LEMMA RefusesWord ==
    ASSUME NEW w \in Seq(Word), w # <<>>, NEW o, NEW p, ReadWell(w, o, p), o <= Len(w),
           \/ NoOption(w, o, p)
           \/ EndMark(w, o, p) /\ o + 1 <= Len(w)
    PROVE  ~Legal(w, First(w))
<1>1. p = 1 /\ o \in 1..Len(w) /\ Len(w) \in Nat
  BY FirstWord DEF NoOption, EndMark, ReadWell
<1>2. CASE NoOption(w, o, p)
  <2>1. ~Dash(w[o]) \/ Len(w[o]) = 1
    BY <1>1, <1>2 DEF NoOption
  <2>5. PICK v : v = w[o]
    OBVIOUS
  <2>6. ~(Dash(v) /\ Len(v) > 1)
    <3>1. Len(v) = 1 => ~(Len(v) > 1)
      OBVIOUS
    <3> QED BY <2>1, <2>5, <3>1
  <2>2. ~IsOptionWord(w[o])
    BY <2>5, <2>6 DEF IsOptionWord
  <2>3. w[o] # <<"-", "-">>
    <3>1. ASSUME v = <<"-", "-">> PROVE FALSE
      <4>1. Len(v) = 2 /\ v # <<>> /\ v[1] = "-"
        BY <3>1
      <4>2. Len(v) > 1
        BY <4>1
      <4> QED BY <2>6, <4>1, <4>2 DEF Dash
    <3> QED BY <2>5, <3>1
  <2>4. o \in Rest(w)
    BY <1>1, <2>2, LeftOver
  <2> QED BY <2>3, <2>4, LegalIs
<1>3. CASE EndMark(w, o, p) /\ o + 1 <= Len(w)
  <2>1. ~IsOptionWord(w[o])
    BY <1>3 DEF EndMark, IsOptionWord
  <2>2. o \in Rest(w) /\ o # Len(w)
    BY <1>1, <1>3, <2>1, LeftOver
  <2> QED BY <2>2, LegalIs
<1> QED BY <1>2, <1>3

\* All words are read: then the line is legal.
LEMMA AllRead ==
    ASSUME NEW w \in Seq(Word), w # <<>>, NEW o, NEW p, ReadWell(w, o, p), InWords(o, p, w),
           \/ NoOption(w, o, p) /\ o > Len(w)
           \/ EndMark(w, o, p) /\ o + 1 > Len(w)
    PROVE  /\ p = 1
           /\ Legal(w, First(w))
           /\ \A q \in WordsOf(w) : q < o
<1>1. p = 1 /\ o \in First(w)..(Len(w) + 1) /\ Len(w) \in Nat /\ First(w) \in {2, 3}
  BY FirstWord DEF NoOption, EndMark, ReadWell
<1>2. WordsOf(w) \subseteq First(w)..Len(w)
  BY WordsOfRead
<1>3. o = Len(w) + 1 \/ (o = Len(w) /\ w[o] = <<"-", "-">>)
  BY <1>1 DEF EndMark
<1>4. \A q \in WordsOf(w) : q < o
  <2>1. w[o] = <<"-", "-">> /\ o = Len(w) => o \notin WordsOf(w)
    BY <1>1, WordsOfRead DEF IsOptionWord
  <2> QED BY <1>1, <1>2, <1>3, <2>1
<1>5. Rest(w) = {} \/ (Rest(w) = {Len(w)} /\ w[Len(w)] = <<"-", "-">>)
  <2>1. \A q \in First(w)..(o - 1) : q \notin Rest(w)
    BY DEF ReadWell, Rest
  <2>2. Rest(w) \subseteq First(w)..Len(w)
    BY DEF Rest
  <2>3. CASE o = Len(w) + 1
    <3>1. o - 1 = Len(w)
      BY <1>1, <2>3
    <3> QED BY <2>1, <2>2, <3>1
  <2>4. CASE o = Len(w) /\ w[o] = <<"-", "-">>
    <3>1. Rest(w) \subseteq {Len(w)}
      <4>1. \A q \in First(w)..Len(w) : q = Len(w) \/ q \in First(w)..(o - 1)
        BY <1>1, <2>4
      <4> QED BY <2>1, <2>2, <4>1
    <3> QED BY <2>4, <3>1
  <2> QED BY <1>3, <2>3, <2>4
<1>6. \A q \in WordsOf(w) :
          /\ Letters(w[q]) \subseteq Flags \cup TakesArgument
          /\ Takes(w, q) => ~(q = Len(w) \/ Dash(w[q + 1]))
  <2> SUFFICES ASSUME NEW q \in WordsOf(w)
               PROVE  /\ Letters(w[q]) \subseteq Flags \cup TakesArgument
                      /\ Takes(w, q) => ~(q = Len(w) \/ Dash(w[q + 1]))
    OBVIOUS
  <2>1. /\ Letters(w[q]) \subseteq Flags \cup TakesArgument
        /\ Takes(w, q) => q + 1 < o /\ ~Dash(w[q + 1])
    BY <1>4 DEF ReadWell
  <2>2. q + 1 < o => q # Len(w)
    BY <1>1
  <2> QED BY <2>1, <2>2
<1> QED BY <1>1, <1>4, <1>5, <1>6, LegalIs

-----------------------------------------------------------------------------
(* The options as they are understood.                                     *)

LEMMA NothingRead ==
    ASSUME NEW w \in Seq(Word), w # <<>>
    PROVE  /\ ReadWell(w, First(w), 1)
           /\ LettersTo(w, First(w), 1) = {}
           /\ Understood(w, First(w), 1) = Defaults
<1>1. First(w) \in {2, 3} /\ First(w) <= Len(w) + 1 /\ Len(w) \in Nat
  BY FirstWord
<1>2. \A q \in WordsOf(w) : ~(q < First(w))
  BY <1>1, WordsOfRead
<1>3. ReadWell(w, First(w), 1)
  BY <1>1, <1>2 DEF ReadWell, Reached
<1>4. LettersTo(w, First(w), 1) = {}
  <2>1. 2..1 = {}
    OBVIOUS
  <2> QED BY <1>2, <2>1 DEF LettersTo
<1>5. \A c : Asking(c, w, First(w)) = {}
  BY <1>2 DEF Asking
<1>6. Mask(DefaultMask) = DefaultMask
  BY DEF Mask, DefaultMask
<1>7. \A d : LastFor("q", w, First(w), d) = d /\ LastFor("e", w, First(w), d) = d
  BY <1>5 DEF LastFor, AfterLast
<1>8. Understood(w, First(w), 1) = Defaults
  <2>1. /\ ("s" \in LettersTo(w, First(w), 1)) = FALSE
        /\ ("l" \in LettersTo(w, First(w), 1)) = FALSE
        /\ ("r" \in LettersTo(w, First(w), 1)) = FALSE
    BY <1>4
  <2> QED BY <1>5, <1>6, <1>7, <2>1 DEF Understood, AsOptions, Defaults
<1> QED BY <1>3, <1>4, <1>8

LEMMA UnderstandsFlag ==
    ASSUME NEW w, NEW o, NEW p, NEW o2, NEW p2, NEW x \in Flags,
           LettersTo(w, o2, p2) = LettersTo(w, o, p) \cup {x},
           \A c \in TakesArgument : Asking(c, w, o2) = Asking(c, w, o),
           NEW s, s.c = x
    PROVE  Understood(w, o2, p2) = Taken(Understood(w, o, p), s)
<1> DEFINE L == LettersTo(w, o, p)
           L2 == LettersTo(w, o2, p2)
<1>1. PICK m, l, r, q, e :
          /\ m = ("s" \in L) /\ l = ("l" \in L) /\ r = ("r" \in L)
          /\ q = IF Asking("q", w, o) = {} THEN 5 ELSE Wtof(LastFor("q", w, o, <<>>))
          /\ e = Mask(LastFor("e", w, o, DefaultMask))
  OBVIOUS
<1>2. PICK u : u = Understood(w, o, p)
  OBVIOUS
<1>3. u = AsOptions(m, l, r, q, e)
  BY <1>1, <1>2 DEF Understood
<1>4. Understood(w, o2, p2) = AsOptions("s" \in L2, "l" \in L2, "r" \in L2, q, e)
  <2>1. Asking("q", w, o2) = Asking("q", w, o) /\ Asking("e", w, o2) = Asking("e", w, o)
    BY DEF TakesArgument
  <2>2. /\ LastFor("q", w, o2, <<>>) = LastFor("q", w, o, <<>>)
        /\ LastFor("e", w, o2, DefaultMask) = LastFor("e", w, o, DefaultMask)
    BY <2>1 DEF LastFor
  <2> QED BY <1>1, <2>1, <2>2 DEF Understood
<1>5. CASE x = "s"
  <2>1. Taken(u, s) = [u EXCEPT !.MoveSmaller = TRUE]
    BY <1>5 DEF Taken
  <2>2. ASSUME NEW y PROVE [u EXCEPT !.MoveSmaller = y] = AsOptions(y, l, r, q, e)
    BY <1>3 DEF AsOptions
  <2>3. [u EXCEPT !.MoveSmaller = TRUE] = AsOptions(TRUE, l, r, q, e)
    BY <2>2, Zenon
  <2>4. /\ ("s" \in L2) = TRUE
        /\ ("l" \in L2) = l
        /\ ("r" \in L2) = r
    BY <1>1, <1>5
  <2> HIDE DEF L, L2
  <2> QED BY <1>2, <1>4, <2>1, <2>3, <2>4
<1>6. CASE x = "l"
  <2>1. Taken(u, s) = [u EXCEPT !.UseLists = TRUE]
    BY <1>6 DEF Taken
  <2>2. ASSUME NEW y PROVE [u EXCEPT !.UseLists = y] = AsOptions(m, y, r, q, e)
    BY <1>3 DEF AsOptions
  <2>3. [u EXCEPT !.UseLists = TRUE] = AsOptions(m, TRUE, r, q, e)
    BY <2>2, Zenon
  <2>4. /\ ("s" \in L2) = m
        /\ ("l" \in L2) = TRUE
        /\ ("r" \in L2) = r
    BY <1>1, <1>6
  <2> HIDE DEF L, L2
  <2> QED BY <1>2, <1>4, <2>1, <2>3, <2>4
<1>7. CASE x = "r"
  <2>1. Taken(u, s) = [u EXCEPT !.ImageCanBeRotated = TRUE]
    BY <1>7 DEF Taken
  <2>2. ASSUME NEW y PROVE [u EXCEPT !.ImageCanBeRotated = y] = AsOptions(m, l, y, q, e)
    BY <1>3 DEF AsOptions
  <2>3. [u EXCEPT !.ImageCanBeRotated = TRUE] = AsOptions(m, l, TRUE, q, e)
    BY <2>2, Zenon
  <2>4. /\ ("s" \in L2) = m
        /\ ("l" \in L2) = l
        /\ ("r" \in L2) = TRUE
    BY <1>1, <1>7
  <2> HIDE DEF L, L2
  <2> QED BY <1>2, <1>4, <2>1, <2>3, <2>4
<1>8. CASE x = "b"
  <2>1. Taken(u, s) = u
    BY <1>8 DEF Taken
  <2>2. /\ ("s" \in L2) = m
        /\ ("l" \in L2) = l
        /\ ("r" \in L2) = r
    BY <1>1, <1>8
  <2> HIDE DEF L, L2
  <2> QED BY <1>2, <1>3, <1>4, <2>1, <2>2
<1> QED BY <1>5, <1>6, <1>7, <1>8 DEF Flags

LEMMA UnderstandsArgument ==
    ASSUME NEW w, NEW o \in Int, NEW p, NEW p2, NEW x \in TakesArgument,
           LettersTo(w, o + 2, p2) = LettersTo(w, o, p) \cup {x},
           WordsOf(w) \subseteq Int,
           \A c \in TakesArgument :
               Asking(c, w, o + 2) = Asking(c, w, o) \cup (IF c = x THEN {o} ELSE {}),
           NEW s, s.c = x, s.optarg = w[o + 1]
    PROVE  Understood(w, o + 2, p2) = Taken(Understood(w, o, p), s)
<1> DEFINE L == LettersTo(w, o, p)
           L2 == LettersTo(w, o + 2, p2)
<1>1. PICK m, l, r, q, e :
          /\ m = ("s" \in L) /\ l = ("l" \in L) /\ r = ("r" \in L)
          /\ q = IF Asking("q", w, o) = {} THEN 5 ELSE Wtof(LastFor("q", w, o, <<>>))
          /\ e = Mask(LastFor("e", w, o, DefaultMask))
  OBVIOUS
<1>2. PICK u : u = Understood(w, o, p)
  OBVIOUS
<1>3. u = AsOptions(m, l, r, q, e)
  BY <1>1, <1>2 DEF Understood
<1>4. \A d : LastFor(x, w, o + 2, d) = w[o + 1] /\ Asking(x, w, o + 2) # {}
  <2>1. Asking(x, w, o + 2) = Asking(x, w, o) \cup {o}
    OBVIOUS
  <2>2. \A v \in Asking(x, w, o) : v \in Int /\ v < o
    BY DEF Asking
  <2>3. PICK S : S = Asking(x, w, o + 2)
    OBVIOUS
  <2>4. \A v \in S : v \in Int /\ v <= o
    BY <2>1, <2>2, <2>3
  <2>5. (CHOOSE v \in S : \A k \in S : k <= v) = o
    <3>1. o \in S /\ \A k \in S : k <= o
      BY <2>1, <2>3, <2>4
    <3>2. \A v \in S : (\A k \in S : k <= v) => v = o
      BY <2>4, <3>1
    <3> QED BY <3>1, <3>2
  <2>6. S # {}
    BY <2>1, <2>3
  <2> QED BY <2>3, <2>5, <2>6 DEF LastFor, AfterLast
<1>5. /\ ("s" \in L2) = m
      /\ ("l" \in L2) = l
      /\ ("r" \in L2) = r
  BY <1>1 DEF TakesArgument
<1>6. CASE x = "q"
  <2>1. Taken(u, s) = [u EXCEPT !.eQuality = Wtof(w[o + 1])]
    BY <1>6 DEF Taken
  <2>2. [u EXCEPT !.eQuality = Wtof(w[o + 1])]
            = AsOptions(m, l, r, Wtof(w[o + 1]), e)
    BY <1>3 DEF AsOptions
  <2>3. LastFor("e", w, o + 2, DefaultMask) = LastFor("e", w, o, DefaultMask)
    <3>1. Asking("e", w, o + 2) = Asking("e", w, o)
      BY <1>6 DEF TakesArgument
    <3> QED BY <3>1 DEF LastFor
  <2>4. Asking("q", w, o + 2) # {} /\ LastFor("q", w, o + 2, <<>>) = w[o + 1]
    BY <1>4, <1>6
  <2>5. Understood(w, o + 2, p2)
            = AsOptions("s" \in L2, "l" \in L2, "r" \in L2, Wtof(w[o + 1]), e)
    BY <1>1, <2>3, <2>4 DEF Understood
  <2> HIDE DEF L, L2
  <2> QED BY <1>2, <1>5, <2>1, <2>2, <2>5
<1>7. CASE x = "e"
  <2>1. Taken(u, s) = [u EXCEPT !.strMaskExt = Mask(w[o + 1])]
    BY <1>7 DEF Taken
  <2>2. [u EXCEPT !.strMaskExt = Mask(w[o + 1])]
            = AsOptions(m, l, r, q, Mask(w[o + 1]))
    BY <1>3 DEF AsOptions
  <2>3. Asking("q", w, o + 2) = Asking("q", w, o)
    BY <1>7 DEF TakesArgument
  <2>4. LastFor("q", w, o + 2, <<>>) = LastFor("q", w, o, <<>>)
    BY <2>3 DEF LastFor
  <2>5. LastFor("e", w, o + 2, DefaultMask) = w[o + 1]
    BY <1>4, <1>7
  <2>6. Understood(w, o + 2, p2)
            = AsOptions("s" \in L2, "l" \in L2, "r" \in L2, q, Mask(w[o + 1]))
    BY <1>1, <2>3, <2>4, <2>5 DEF Understood
  <2> HIDE DEF L, L2
  <2> QED BY <1>2, <1>5, <2>1, <2>2, <2>6
<1> QED BY <1>6, <1>7 DEF TakesArgument

LEMMA UnderstoodAsMeant ==
    ASSUME NEW w, NEW o, \A q \in WordsOf(w) : q < o
    PROVE  /\ LettersTo(w, o, 1) = Asked(w)
           /\ Understood(w, o, 1) = Meant(w)
<1>1. LettersTo(w, o, 1) = Asked(w)
  <2>1. 2..1 = {}
    OBVIOUS
  <2>2. {v \in WordsOf(w) : v < o} = WordsOf(w)
    OBVIOUS
  <2>3. Asked(w) = UNION {Letters(w[q]) : q \in WordsOf(w)}
    BY DEF Asked, Given, WordsOf
  <2> QED BY <2>1, <2>2, <2>3 DEF LettersTo
<1>2. \A c : Asking(c, w, o) = {q \in WordsOf(w) : c \in Letters(w[q])}
  BY DEF Asking
<1>3. \A c, d : LastFor(c, w, o, d) = ArgumentOf(c, w, First(w), d)
  <2> SUFFICES ASSUME NEW c, NEW d
               PROVE  LastFor(c, w, o, d) = ArgumentOf(c, w, First(w), d)
    OBVIOUS
  <2>1. PICK S : S = {q \in WordsOf(w) : c \in Letters(w[q])}
    OBVIOUS
  <2>2. ArgumentOf(c, w, First(w), d) = AfterLast(S, w, d)
    BY <2>1 DEF ArgumentOf, AfterLast, WordsOf
  <2>3. LastFor(c, w, o, d) = AfterLast(S, w, d)
    BY <1>2, <2>1 DEF LastFor
  <2> QED BY <2>2, <2>3
<1>4. Asking("q", w, o) = {} <=> "q" \notin Asked(w)
  BY <1>2 DEF Asked, Given, WordsOf
<1> QED BY <1>1, <1>3, <1>4 DEF Understood, AsOptions, Meant

\* A turn of getopt: what it adds, when the line is refused, and when it ends.
LEMMA TurnReads ==
    ASSUME NEW w \in Seq(Word), w # <<>>, NEW s, Follows(s, w),
           ReadWell(w, s.optind, s.sp), NEW r, r = GetOpt(s, w)
    PROVE  /\ r.c \notin {"EOF", "?"} =>
                 /\ ReadWell(w, r.optind, r.sp)
                 /\ Understood(w, r.optind, r.sp) = Taken(Understood(w, s.optind, s.sp), r)
                 /\ "b" \in LettersTo(w, r.optind, r.sp) <=>
                        "b" \in LettersTo(w, s.optind, s.sp) \/ r.c = "b"
           /\ r.c = "?" \/ (r.c = "EOF" /\ r.optind <= Len(w)) => ~Legal(w, First(w))
           /\ r.c = "EOF" /\ r.optind > Len(w) =>
                 /\ Legal(w, First(w))
                 /\ Understood(w, s.optind, s.sp) = Meant(w)
                 /\ LettersTo(w, s.optind, s.sp) = Asked(w)
<1>1. PICK o, p, a, t, k : s = Scan(o, p, a, t, k) /\ InWords(o, p, w)
  BY DEF Follows
<1>2. s.optind = o /\ s.sp = p
  BY <1>1, ScanChanged
<1>3. Turned(r, w, o, p, a, t) /\ Len(w) \in Nat /\ o \in Nat /\ p \in Nat
  BY <1>1, GetOptTurns DEF InWords
<1>4. ReadWell(w, o, p)
  BY <1>2
<1>5. CASE NoOption(w, o, p) \/ EndMark(w, o, p)
  <2>1. r.c = "EOF" /\ p = 1
    BY <1>3, <1>5, ScanChanged DEF Turned, NoOption, EndMark
  <2>2. \/ NoOption(w, o, p) /\ r.optind = o
        \/ ~NoOption(w, o, p) /\ EndMark(w, o, p) /\ r.optind = o + 1
    BY <1>3, <1>5, ScanChanged DEF Turned
  <2>3. CASE r.optind <= Len(w)
    <3>1. o <= Len(w)
      BY <1>3, <2>2, <2>3
    <3>2. ~Legal(w, First(w))
      BY <1>4, <2>2, <2>3, <3>1, RefusesWord
    <3>3. ~(r.optind > Len(w))
      BY <1>3, <2>2, <2>3
    <3> QED BY <2>1, <3>2, <3>3
  <2>4. CASE ~(r.optind <= Len(w))
    <3>1. r.optind > Len(w)
      BY <1>3, <2>2, <2>4
    <3>2. Legal(w, First(w)) /\ \A q \in WordsOf(w) : q < o
      BY <1>1, <1>4, <2>2, <3>1, AllRead
    <3>3. LettersTo(w, o, 1) = Asked(w) /\ Understood(w, o, 1) = Meant(w)
      BY <3>2, UnderstoodAsMeant
    <3> QED BY <1>2, <2>1, <2>4, <3>2, <3>3
  <2> QED BY <2>3, <2>4
<1>6. CASE ~NoOption(w, o, p) /\ ~EndMark(w, o, p)
  <2> DEFINE x == w[o][p + 1]
  <2> HIDE DEF x
  <2>1. CASE /\ x \in Flags /\ p + 1 = Len(w[o])
             /\ r = Scan(o + 1, 1, <<>>, x, x)
    <3>1. /\ ReadWell(w, o + 1, 1)
          /\ LettersTo(w, o + 1, 1) = LettersTo(w, o, p) \cup {x}
          /\ \A c \in TakesArgument : Asking(c, w, o + 1) = Asking(c, w, o)
      BY <1>1, <1>4, <1>6, <2>1, ReadsLastFlag DEF x
    <3>2. r.c = x /\ r.optind = o + 1 /\ r.sp = 1 /\ x \notin {"EOF", "?"}
      BY <2>1, ScanChanged DEF Flags
    <3>3. Understood(w, o + 1, 1) = Taken(Understood(w, o, p), r)
      BY <2>1, <3>1, <3>2, UnderstandsFlag
    <3> QED BY <1>2, <3>1, <3>2, <3>3
  <2>2. CASE /\ x \in Flags /\ p + 1 # Len(w[o])
             /\ r = Scan(o, p + 1, <<>>, x, x)
    <3>1. /\ ReadWell(w, o, p + 1)
          /\ LettersTo(w, o, p + 1) = LettersTo(w, o, p) \cup {x}
      BY <1>1, <1>4, <1>6, <2>2, ReadsFlag DEF x
    <3>2. r.c = x /\ r.optind = o /\ r.sp = p + 1 /\ x \notin {"EOF", "?"}
      BY <2>2, ScanChanged DEF Flags
    <3>3. Understood(w, o, p + 1) = Taken(Understood(w, o, p), r)
      BY <2>2, <3>1, <3>2, UnderstandsFlag
    <3> QED BY <1>2, <3>1, <3>2, <3>3
  <2>3. CASE /\ x \in TakesArgument /\ ~NoArgument(w, o)
             /\ r = Scan(o + 2, 1, w[o + 1], x, x)
    <3>1. /\ ReadWell(w, o + 2, 1)
          /\ LettersTo(w, o + 2, 1) = LettersTo(w, o, p) \cup {x}
          /\ \A c \in TakesArgument :
                Asking(c, w, o + 2) = Asking(c, w, o) \cup (IF c = x THEN {o} ELSE {})
      BY <1>1, <1>4, <1>6, <2>3, ReadsArgument DEF x
    <3>2. /\ r.c = x /\ r.optind = o + 2 /\ r.sp = 1 /\ r.optarg = w[o + 1]
          /\ x \notin {"EOF", "?"}
      BY <2>3, ScanChanged DEF TakesArgument
    <3>3. WordsOf(w) \subseteq Int
      BY WordsOfRead, FirstWord
    <3>4. Understood(w, o + 2, 1) = Taken(Understood(w, o, p), r)
      BY <1>3, <2>3, <3>1, <3>2, <3>3, UnderstandsArgument
    <3> QED BY <1>2, <3>1, <3>2, <3>4
  <2>4. CASE /\ \/ x \notin Flags \cup TakesArgument
                \/ x \in TakesArgument /\ NoArgument(w, o)
             /\ r.c = "?"
    <3>1. ~Legal(w, First(w))
      BY <1>1, <1>4, <1>6, <2>4, RefusesOption DEF x
    <3> QED BY <2>4, <3>1
  <2>5. \/ /\ x \in Flags /\ p + 1 = Len(w[o])
           /\ r = Scan(o + 1, 1, <<>>, x, x)
        \/ /\ x \in Flags /\ p + 1 # Len(w[o])
           /\ r = Scan(o, p + 1, <<>>, x, x)
        \/ /\ x \in TakesArgument /\ ~NoArgument(w, o)
           /\ r = Scan(o + 2, 1, w[o + 1], x, x)
        \/ /\ \/ x \notin Flags \cup TakesArgument
              \/ x \in TakesArgument /\ NoArgument(w, o)
           /\ r.c = "?"
    BY <1>3, <1>6, ScanChanged DEF Turned, x
  <2> QED BY <2>1, <2>2, <2>3, <2>4, <2>5
<1> QED BY <1>5, <1>6

-----------------------------------------------------------------------------
(* The line as it is read.                                                 *)

DirectoriesTaken(w, d, d2) ==
    /\ ~RefusedDirectory(w)
    /\ d = GetDirectory[w[1]]
    /\ d2 = IF HasSecond(w) THEN GetDirectory[w[2]] ELSE NoDirectory

\* What an instance at `at' has made of its line w.
Reading(w, at, s, d, d2, b, o, r) ==
    /\ at = "start" => o = Defaults /\ b = FALSE /\ d2 = NoDirectory
    /\ at \in {"start", "options"} => r = Running
    /\ at = "options" =>
          /\ DirectoriesTaken(w, d, d2)
          /\ ReadWell(w, s.optind, s.sp)
          /\ o = Understood(w, s.optind, s.sp)
          /\ b = ("b" \in LettersTo(w, s.optind, s.sp))
    /\ at \in {"probe", "probed", "open", "run"} \/ r = 0 =>
          /\ DirectoriesTaken(w, d, d2)
          /\ Legal(w, First(w))
          /\ o = Meant(w)
          /\ b = ("b" \in Asked(w))
    /\ r = -1 => ~Accepted(w)

ReadsOf(i) ==
    Reading(args[i], pc[i], scan[i], strDir[i], strDir2[i], batch[i], opt[i], ret[i])

Reads ==
    /\ opt = [i \in started |-> opt[i]]
    /\ \A i \in started : ReadsOf(i)

LEMMA InitReads == Init => Reads
<1> SUFFICES ASSUME Init PROVE Reads
  OBVIOUS
<1>1. ASSUME NEW i \in started PROVE ReadsOf(i)
  <2>1. /\ pc[i] = "start" /\ opt[i] = Defaults /\ batch[i] = FALSE
        /\ strDir2[i] = NoDirectory /\ ret[i] = Running
    BY DEF Init
  <2>2. Running # 0 /\ Running # -1
    BY DEF Running
  <2> QED BY <2>1, <2>2 DEF ReadsOf, Reading
<1>2. opt = [i \in started |-> opt[i]]
  BY DEF Init
<1> QED BY <1>1, <1>2 DEF Reads

\* An instance's step leaves what the others have read.
LEMMA ReadsByOne ==
    ASSUME TypeOK, Scans, Reads, NEW i \in started, Step(i) \/ Key(i) \/ Crash(i)
    PROVE  /\ args' = args /\ started' = started
           /\ opt' = [j \in started |-> opt'[j]]
           /\ \A j \in started \ {i} : ReadsOf(j)'
<1>1. args' = args /\ started' = started
  BY DEF Step, Key, Crash, BadDirectory, Refuse, options, Directories, Option,
         BadOption, Options, Probe, NextName, NameFound, Open,
         ProbeRefused, OpenRefused, Finish, started
<1>2. /\ \/ scan' = scan
         \/ \E x : scan' = [scan EXCEPT ![i] = x]
      /\ \/ pc' = pc
         \/ \E x : pc' = [pc EXCEPT ![i] = x]
      /\ \/ opt' = opt
         \/ \E x : opt' = [opt EXCEPT ![i] = x]
      /\ \/ batch' = batch
         \/ \E x : batch' = [batch EXCEPT ![i] = x]
      /\ \/ ret' = ret
         \/ \E x : ret' = [ret EXCEPT ![i] = x]
      /\ \/ strDir' = strDir
         \/ \E x : strDir' = [strDir EXCEPT ![i] = x]
      /\ \/ strDir2' = strDir2
         \/ \E x : strDir2' = [strDir2 EXCEPT ![i] = x]
  <2>1. CASE Directories(i)
    <3>1. ASSUME NEW n, scan' = [scan EXCEPT ![i].optind = n]
          PROVE  \E x : scan' = [scan EXCEPT ![i] = x]
      <4>1. scan' = [scan EXCEPT ![i] = [scan[i] EXCEPT !.optind = n]]
        BY <3>1
      <4> QED BY <4>1
    <3> QED BY <2>1, <3>1 DEF Directories
  <2>2. CASE Option(i)
    <3>1. opt' = [opt EXCEPT ![i] = Taken(opt[i], GetOpt(scan[i], args[i]))]
      BY <2>2 DEF Option
    <3>2. batch' = [batch EXCEPT ![i] = (batch[i] \/ GetOpt(scan[i], args[i]).c = "b")]
      BY <2>2 DEF Option
    <3>3. /\ scan' = [scan EXCEPT ![i] = GetOpt(scan[i], args[i])]
          /\ pc' = pc /\ ret' = ret /\ strDir' = strDir /\ strDir2' = strDir2
      BY <2>2 DEF Option, directories
    <3>4. \E x : opt' = [opt EXCEPT ![i] = x]
      BY <3>1
    <3>5. \E x : batch' = [batch EXCEPT ![i] = x]
      BY <3>2
    <3> QED BY <3>3, <3>4, <3>5
  <2>3. CASE BadOption(i) \/ Options(i)
    BY <2>3 DEF BadOption, Options, Leave, directories
  <2>4. CASE BadDirectory(i) \/ Probe(i) \/ NextName(i) \/ NameFound(i) \/ Open(i)
                \/ ProbeRefused(i) \/ OpenRefused(i) \/ Finish(i) \/ Key(i) \/ Crash(i)
    BY <2>4 DEF BadDirectory, Refuse, Probe, NextName, NameFound, Open,
         ProbeRefused, OpenRefused, Finish, Key,
                Crash, Leave, options, directories
  <2> QED BY <2>1, <2>2, <2>3, <2>4 DEF Step
<1>3. opt' = [j \in started |-> opt'[j]]
  BY <1>2 DEF Reads
<1>4. ASSUME NEW j \in started \ {i} PROVE ReadsOf(j)'
  <2>1. scan'[j] = scan[j]
    BY <1>2 DEF Scans
  <2>2. pc'[j] = pc[j] /\ batch'[j] = batch[j] /\ ret'[j] = ret[j]
    BY <1>2 DEF TypeOK
  <2>3. opt'[j] = opt[j]
    BY <1>2 DEF Reads
  <2>4. strDir'[j] = strDir[j] /\ strDir2'[j] = strDir2[j]
    BY <1>2 DEF TypeOK
  <2>5. ReadsOf(j)
    BY DEF Reads
  <2> QED BY <1>1, <2>1, <2>2, <2>3, <2>4, <2>5 DEF ReadsOf
<1> QED BY <1>1, <1>3, <1>4

LEMMA ReadsStep ==
    ASSUME TypeOK, Scans, Reads, NEW i \in started, Step(i) \/ Key(i) \/ Crash(i)
    PROVE  Reads'
<1>1. /\ args' = args /\ started' = started
      /\ opt' = [j \in started |-> opt'[j]]
      /\ \A j \in started \ {i} : ReadsOf(j)'
  BY ReadsByOne
<1> DEFINE w == args[i]
<1>2. w \in Seq(Word)
  BY LineWords DEF TypeOK
<1>3. Reading(w, pc[i], scan[i], strDir[i], strDir2[i], batch[i], opt[i], ret[i])
  BY DEF Reads, ReadsOf
<1>4. SUFFICES Reading(w, pc'[i], scan'[i], strDir'[i], strDir2'[i], batch'[i], opt'[i], ret'[i])
  <2>1. ReadsOf(i)'
    BY <1>1, <1>4 DEF ReadsOf
  <2>2. \A j \in started : ReadsOf(j)'
    BY <1>1, <2>1
  <2> QED BY <1>1, <2>2 DEF Reads
<1>5. /\ pc \in [started -> {"start", "options", "probe", "probed", "open",
                            "run", "pause", "exit"}]
      /\ batch \in [started -> BOOLEAN]
      /\ ret \in [started -> {Running, -1, 0}]
      /\ strDir = [j \in started |-> strDir[j]] /\ strDir2 = [j \in started |-> strDir2[j]]
      /\ scan = [j \in started |-> scan[j]] /\ opt = [j \in started |-> opt[j]]
      /\ Running # 0 /\ Running # -1
  BY DEF TypeOK, Scans, Reads, Running
<1>6. CASE BadDirectory(i)
  <2>1. pc'[i] \in {"exit", "pause"} /\ ret'[i] = -1 /\ RefusedDirectory(w)
    BY <1>5, <1>6 DEF BadDirectory, Refuse, Leave
  <2> QED BY <2>1 DEF Reading, Accepted
<1>7. CASE Directories(i)
  <2>1. ~RefusedDirectory(w) /\ pc[i] = "start" /\ pc'[i] = "options"
    BY <1>5, <1>7 DEF Directories
  <2>2. w # <<>>
    BY <2>1 DEF RefusedDirectory
  <2>3. DirectoriesTaken(w, strDir'[i], strDir2'[i])
    <3>1. strDir'[i] = GetDirectory[w[1]]
      BY <1>5, <1>7 DEF Directories
    <3>2. CASE HasSecond(w)
      <4>1. strDir2'[i] = GetDirectory[w[2]]
        BY <1>5, <1>7, <3>2 DEF Directories
      <4> QED BY <2>1, <3>1, <3>2, <4>1 DEF DirectoriesTaken
    <3>3. CASE ~HasSecond(w)
      <4>1. strDir2'[i] = NoDirectory
        BY <1>3, <1>7, <2>1, <3>3 DEF Directories, Reading
      <4> QED BY <2>1, <3>1, <3>3, <4>1 DEF DirectoriesTaken
    <3> QED BY <3>2, <3>3
  <2>4. scan'[i].optind = First(w) /\ scan'[i].sp = 1
    <3>1. scan' = [scan EXCEPT ![i].optind = First(w)]
      BY <1>7 DEF Directories, First
    <3>2. scan[i] = Scan(1, 1, <<>>, "unset", "unset")
      BY <2>1 DEF Scans, Scan0, Scan
    <3>3. PICK s : s = scan[i]
      OBVIOUS
    <3>4. PICK t : t = [s EXCEPT !.optind = First(w)]
      OBVIOUS
    <3>5. scan'[i] = t
      BY <1>5, <3>1, <3>3, <3>4
    <3>6. t = Scan(First(w), 1, <<>>, "unset", "unset")
      BY <3>2, <3>3, <3>4, ScanChanged
    <3> QED BY <3>5, <3>6, ScanChanged
  <2>5. /\ opt'[i] = Defaults /\ batch'[i] = FALSE /\ ret'[i] = Running
    BY <1>3, <1>7, <2>1 DEF Directories, Reading
  <2>6. /\ ReadWell(w, First(w), 1)
        /\ LettersTo(w, First(w), 1) = {}
        /\ Understood(w, First(w), 1) = Defaults
    BY <1>2, <2>2, NothingRead
  <2>7. batch'[i] = ("b" \in LettersTo(w, First(w), 1))
    <3>1. ("b" \in LettersTo(w, First(w), 1)) = FALSE
      BY <2>6
    <3> QED BY <2>5, <3>1
  <2> HIDE DEF w
  <2> QED BY <1>5, <2>1, <2>3, <2>4, <2>5, <2>6, <2>7 DEF Reading
<1>8. CASE Option(i) \/ BadOption(i) \/ Options(i)
  <2>1. PICK r : r = GetOpt(scan[i], w)
    OBVIOUS
  <2>2. /\ pc[i] = "options" /\ ret[i] = Running
        /\ DirectoriesTaken(w, strDir[i], strDir2[i])
        /\ ReadWell(w, scan[i].optind, scan[i].sp)
        /\ opt[i] = Understood(w, scan[i].optind, scan[i].sp)
        /\ batch[i] = ("b" \in LettersTo(w, scan[i].optind, scan[i].sp))
    BY <1>3, <1>8 DEF Option, BadOption, Options, Reading
  <2>3. w # <<>> /\ Follows(scan[i], w)
    BY <2>2 DEF DirectoriesTaken, RefusedDirectory, Scans
  <2>4. /\ r.c \notin {"EOF", "?"} =>
              /\ ReadWell(w, r.optind, r.sp)
              /\ Understood(w, r.optind, r.sp)
                     = Taken(Understood(w, scan[i].optind, scan[i].sp), r)
              /\ "b" \in LettersTo(w, r.optind, r.sp) <=>
                     "b" \in LettersTo(w, scan[i].optind, scan[i].sp) \/ r.c = "b"
        /\ r.c = "?" \/ (r.c = "EOF" /\ r.optind <= Len(w)) => ~Legal(w, First(w))
        /\ r.c = "EOF" /\ r.optind > Len(w) =>
              /\ Legal(w, First(w))
              /\ Understood(w, scan[i].optind, scan[i].sp) = Meant(w)
              /\ LettersTo(w, scan[i].optind, scan[i].sp) = Asked(w)
    BY <1>2, <2>1, <2>2, <2>3, TurnReads
  <2>5. CASE Option(i)
    <3>1. /\ r.c \notin {"EOF", "?"} /\ pc' = pc /\ ret' = ret
          /\ strDir' = strDir /\ strDir2' = strDir2
      BY <2>1, <2>5 DEF Option, directories
    <3>2. scan'[i] = r
      BY <1>5, <2>1, <2>5 DEF Option
    <3>3. opt'[i] = Taken(opt[i], r)
      BY <1>5, <2>1, <2>5 DEF Option
    <3>4. batch'[i] = (batch[i] \/ r.c = "b")
      BY <1>5, <2>1, <2>5 DEF Option
    <3>5. batch'[i] = ("b" \in LettersTo(w, r.optind, r.sp))
      <4>1. ("b" \in LettersTo(w, r.optind, r.sp))
                = ("b" \in LettersTo(w, scan[i].optind, scan[i].sp) \/ r.c = "b")
        BY <2>4, <3>1
      <4> QED BY <2>2, <3>4, <4>1, Zenon
    <3>6. opt'[i] = Understood(w, r.optind, r.sp)
      BY <2>2, <2>4, <3>1, <3>3
    <3> HIDE DEF w
    <3> QED BY <1>5, <2>2, <2>4, <3>1, <3>2, <3>5, <3>6 DEF Reading
  <2>6. CASE BadOption(i)
    <3>1. r.c = "?" \/ (r.c = "EOF" /\ r.optind <= Len(w))
      BY <2>1, <2>6 DEF BadOption
    <3>2. pc'[i] \in {"exit", "pause"} /\ ret'[i] = -1
      BY <1>5, <2>6 DEF BadOption, Leave
    <3> QED BY <2>4, <3>1, <3>2 DEF Reading, Accepted
  <2>7. CASE Options(i)
    <3>1. r.c = "EOF" /\ r.optind > Len(w)
      BY <2>1, <2>7 DEF Options
    <3>2. /\ pc'[i] = "probe" /\ ret' = ret /\ strDir' = strDir /\ strDir2' = strDir2
          /\ opt' = opt /\ batch' = batch
      BY <1>5, <2>7 DEF Options, directories
    <3>3. opt'[i] = Meant(w) /\ Legal(w, First(w)) /\ batch'[i] = ("b" \in Asked(w))
      BY <2>2, <2>4, <3>1, <3>2
    <3> HIDE DEF w
    <3> QED BY <1>5, <2>2, <3>2, <3>3 DEF Reading
  <2> QED BY <1>8, <2>5, <2>6, <2>7
<1>9. CASE Probe(i) \/ NextName(i) \/ NameFound(i) \/ Open(i) \/ ProbeRefused(i)
            \/ OpenRefused(i) \/ Finish(i) \/ Key(i) \/ Crash(i)
  <2>1. strDir' = strDir /\ strDir2' = strDir2 /\ batch' = batch /\ opt' = opt
    BY <1>9 DEF Probe, NextName, NameFound, Open,
         ProbeRefused, OpenRefused, Finish, Key, Crash, options, directories
  <2>2. \/ ret'[i] = ret[i] /\ pc'[i] = "exit"
        \/ pc'[i] \in {"pause", "exit"} /\ ret'[i] = 0 /\ pc[i] = "run"
        \/ /\ ret'[i] = ret[i]
           /\ pc[i] \in {"probe", "probed", "open", "run"}
           /\ pc'[i] \in {"probe", "probed", "open", "run"}
    BY <1>5, <1>9 DEF Probe, NextName, NameFound, Open,
         ProbeRefused, OpenRefused, Finish, Key, Crash, Leave
  <2> HIDE DEF w
  <2> QED BY <1>3, <1>5, <2>1, <2>2 DEF Reading
<1> QED BY <1>6, <1>7, <1>8, <1>9 DEF Step

LEMMA ReadsHold == Spec => []Reads
<1>1. IInv /\ Reads /\ [Next]_vars => Reads'
  <2> SUFFICES ASSUME IInv, Reads, [Next]_vars PROVE Reads'
    OBVIOUS
  <2>1. CASE UNCHANGED vars
    BY <2>1 DEF vars, options, directories, Reads, ReadsOf, started
  <2>2. CASE Next
    <3>1. PICK i \in started : Step(i) \/ Key(i) \/ Crash(i)
      BY <2>2 DEF Next
    <3> QED BY <3>1, ReadsStep DEF IInv
  <2> QED BY <2>1, <2>2
<1> QED BY <1>1, InitReads, IInvHolds, PTL DEF Spec

-----------------------------------------------------------------------------
(* The directories.                                                        *)

LEMMA FrontOfAppend ==
    ASSUME NEW T, NEW s \in Seq(T), NEW x
    PROVE  Front(Append(s, x)) = s /\ Last(Append(s, x)) = x
<1>0. PICK U : T \subseteq U /\ x \in U
  <2>1. T \subseteq T \cup {x} /\ x \in T \cup {x}
    OBVIOUS
  <2> QED BY <2>1
<1>1. s \in Seq(U) /\ x \in U
  BY <1>0
<1>2. PICK t \in Seq(U) : t = Append(s, x)
  <2>1. Append(s, x) \in Seq(U)
    BY <1>1
  <2> QED BY <2>1
<1>3. /\ Len(t) = Len(s) + 1 /\ Len(s) \in Nat
      /\ \A k \in 1..Len(s) : t[k] = s[k]
      /\ t[Len(s) + 1] = x
  BY <1>1, <1>2
<1>4. t # <<>>
  BY <1>3
<1>5. /\ Front(t) \in Seq(U) /\ Len(Front(t)) = Len(s)
      /\ \A k \in 1..Len(s) : Front(t)[k] = s[k]
      /\ Last(t) = x
  BY <1>3, <1>4, FrontRange
<1>6. PICK f \in Seq(U) : f = Front(t)
  BY <1>5
<1>7. f = s
  BY <1>1, <1>5, <1>6
<1> QED BY <1>2, <1>5, <1>6, <1>7

\* GetDirectory: the directory named, or the one around it.
LEMMA NamedOrAround ==
    ASSUME NEW w \in Word, GetDirectory[w] # NoDirectory, IsPlain(w)
    PROVE  LET named == Named(w)
           IN \/ GetDirectory[w] = named
              \/ /\ GetDirectory[w] = Front(named)
                 /\ "." \in Range(Last(named))
                 /\ ~FindsFolder(Last(named))
<1> DEFINE p == Split(w)
           from == IF p.drive = NoDrive THEN Here ELSE <<p.drive>>
           name == IF IsMask(p.last) THEN <<>> ELSE p.last
           Base(x) == from \o (p.dir \o x)
<1>1. p.rooted <=> p.drive # NoDrive
  BY DEF IsPlain
<1>2. \E T : p.dir \in Seq(T) /\ from \in Seq(T)
  <2>1. \E A : p.dir \in Seq(A)
    <3>1. CASE w \in DOMAIN Parts
      BY <3>1, PathAssumption DEF Split
    <3>2. CASE w \notin DOMAIN Parts
      BY <3>2 DEF Split
    <3> QED BY <3>1, <3>2
  <2>2. \E B : from \in Seq(B)
    <3>1. CASE p.drive = NoDrive
      BY <3>1, PathAssumption DEF Here
    <3>2. CASE p.drive # NoDrive
      <4>1. PICK d : d = p.drive
        OBVIOUS
      <4>2. <<d>> \in Seq({d})
        OBVIOUS
      <4> QED BY <3>2, <4>1, <4>2
    <3> QED BY <3>1, <3>2
  <2>3. PICK A, B : p.dir \in Seq(A) /\ from \in Seq(B)
    BY <2>1, <2>2
  <2> HIDE DEF p, from
  <2>4. p.dir \in Seq(A \cup B) /\ from \in Seq(A \cup B)
    BY <2>3
  <2> QED BY <2>4
<1>3. PICK T : p.dir \in Seq(T) /\ from \in Seq(T)
  BY <1>2
<1>4. GetDirectory[w] = from \o Names(p, name)
  <2>1. GetDirectory[w] = FullPath(p, name)
    <3>1. GetDirectory[w] = IF LowerCase(Last(FullPath(p, name))) \in Blocked
                            THEN NoDirectory ELSE FullPath(p, name)
      BY DEF GetDirectory
    <3> QED BY <3>1
  <2>2. CASE p.drive = NoDrive
    <3>1. FullPath(p, name) = (Here \o <<>>) \o Names(p, name)
      BY <1>1, <2>2 DEF FullPath
    <3>2. Here \o <<>> = Here
      BY <1>3, <2>2
    <3> QED BY <2>1, <2>2, <3>1, <3>2
  <2>3. CASE p.drive # NoDrive
    BY <1>1, <2>1, <2>3 DEF FullPath
  <2> QED BY <2>2, <2>3
<1>5. Named(w) = from \o Names(p, p.last)
  BY <1>1 DEF Named, Start, Here
<1> HIDE DEF p, from
<1>6. CASE ~IsMask(p.last)
  BY <1>4, <1>5, <1>6
<1>7. CASE IsMask(p.last)
  <2>1. "." \in Range(p.last) /\ ~FindsFolder(p.last) /\ name = <<>>
    BY <1>7 DEF IsMask
  <2>2. p.last # <<>>
    BY <2>1 DEF Range
  <2>3. PICK x : x = p.last
    OBVIOUS
  <2>4. GetDirectory[w] = from \o p.dir
    <3>1. Names(p, name) = p.dir \o <<>>
      BY <2>1 DEF Names
    <3>2. p.dir \o <<>> = p.dir
      BY <1>3
    <3> QED BY <1>4, <3>1, <3>2
  <2>5. Named(w) = Append(from \o p.dir, x)
    <3>1. Named(w) = from \o (p.dir \o <<x>>)
      BY <1>5, <2>2, <2>3 DEF Names
    <3>2. p.dir \in Seq(T \cup {x}) /\ from \in Seq(T \cup {x}) /\ x \in T \cup {x}
      BY <1>3
    <3>3. from \o (p.dir \o <<x>>) = Append(from \o p.dir, x)
      BY <3>2
    <3> QED BY <3>1, <3>3
  <2>6. from \o p.dir \in Seq(T)
    BY <1>3
  <2>7. Front(Named(w)) = from \o p.dir /\ Last(Named(w)) = x
    BY <2>5, <2>6, FrontOfAppend
  <2> QED BY <2>1, <2>3, <2>4, <2>7
<1> QED BY <1>6, <1>7

LEMMA ReadsSearched == TypeOK /\ Reads => SearchedOrAround
<1> SUFFICES ASSUME TypeOK, Reads, NEW i \in started, NEW s \in Searches(i),
                    IsPlain(s[1])
             PROVE  LET named == Named(s[1])
                    IN \/ s[2] = named
                       \/ /\ s[2] = Front(named)
                          /\ "." \in Range(Last(named))
                          /\ ~FindsFolder(Last(named))
  BY DEF SearchedOrAround
<1>1. args[i] \in Seq(Word)
  BY LineWords DEF TypeOK
<1>2. DirectoriesTaken(args[i], strDir[i], strDir2[i])
  BY DEF Searches, Searching, Reads, ReadsOf, Reading
<1>3. args[i] # <<>> /\ \A d \in Dirs(args[i]) : GetDirectory[d] # NoDirectory
  BY <1>2 DEF DirectoriesTaken, RefusedDirectory
<1>4. \/ s[1] = args[i][1] /\ s[2] = GetDirectory[args[i][1]]
      \/ HasSecond(args[i]) /\ s[1] = args[i][2] /\ s[2] = GetDirectory[args[i][2]]
  BY <1>2 DEF Searches, DirectoriesTaken
<1>5. s[1] \in Dirs(args[i]) /\ s[1] \in Word
  <2>1. 1 \in DOMAIN args[i] /\ (HasSecond(args[i]) => 2 \in DOMAIN args[i])
    BY <1>1, <1>3 DEF HasSecond
  <2>2. args[i][1] \in Word /\ (HasSecond(args[i]) => args[i][2] \in Word)
    BY <1>1, <2>1
  <2> QED BY <1>4, <2>1, <2>2 DEF Dirs
<1>6. s[2] = GetDirectory[s[1]] /\ GetDirectory[s[1]] # NoDirectory
  BY <1>3, <1>4, <1>5
<1> QED BY <1>5, <1>6, NamedOrAround

\* _tmain with getopt and GetDirectory: whatever the words, who searches has
\* been given options with their arguments and nothing else, and has taken
\* them as a reader of whole words would; who is refused has not.  It holds
\* at every step though the scanner stops after each letter.
THEOREM LineTakenAsMeant == Spec => []TakenAsMeant
<1>1. TypeOK /\ Reads => TakenAsMeant
  <2> SUFFICES ASSUME TypeOK, Reads, NEW i \in started
               PROVE  /\ Searching(i) => /\ Accepted(args[i])
                                         /\ opt[i] = Meant(args[i])
                                         /\ batch[i] = ("b" \in Asked(args[i]))
                                         /\ strDir2[i] # NoDirectory <=> HasSecond(args[i])
                      /\ ret[i] = -1 => ~Accepted(args[i])
    BY ReadsSearched DEF TakenAsMeant
  <2>1. ret[i] = -1 => ~Accepted(args[i])
    BY DEF Reads, ReadsOf, Reading
  <2>2. ASSUME Searching(i)
        PROVE  /\ DirectoriesTaken(args[i], strDir[i], strDir2[i])
               /\ Legal(args[i], First(args[i]))
               /\ opt[i] = Meant(args[i])
               /\ batch[i] = ("b" \in Asked(args[i]))
    BY <2>2 DEF Searching, Reads, ReadsOf, Reading
  <2>3. ASSUME Searching(i), HasSecond(args[i]) PROVE strDir2[i] # NoDirectory
    <3>1. 2 \in DOMAIN args[i]
      BY <2>3, LineWords DEF HasSecond, TypeOK
    <3>2. args[i][2] \in Dirs(args[i])
      BY <2>3, <3>1 DEF Dirs
    <3> QED BY <2>2, <2>3, <3>2 DEF DirectoriesTaken, RefusedDirectory
  <2> QED BY <2>1, <2>2, <2>3 DEF Accepted, DirectoriesTaken
<1>2. IInv => TypeOK
  BY DEF IInv
<1> QED BY <1>1, <1>2, IInvHolds, ReadsHold, PTL

-----------------------------------------------------------------------------
(* The mask and its entries.                                               *)

\* Sequences of one length and the same elements are the same.
LEMMA SameElements ==
    ASSUME NEW T, NEW a \in Seq(T), NEW b \in Seq(T), Len(a) = Len(b)
    PROVE  a = b <=> \A j \in 1..Len(a) : a[j] = b[j]
OBVIOUS

LEMMA ReverseIsSeq ==
    ASSUME NEW T, NEW s \in Seq(T)
    PROVE  Reverse(s) \in Seq(T)
<1>1. Len(s) \in Nat
  OBVIOUS
<1>2. \A j \in 1..Len(s) : s[(Len(s) - j) + 1] \in T
  BY <1>1
<1>3. [j \in 1..Len(s) |-> s[(Len(s) - j) + 1]] \in Seq(T)
  BY <1>1, <1>2
<1> QED BY <1>3 DEF Reverse

LEMMA SuffixIs ==
    ASSUME NEW T, NEW s \in Seq(T), NEW t \in Seq(T)
    PROVE  IsSuffix(s, t) <=>
              /\ Len(s) <= Len(t)
              /\ \A j \in 1..Len(s) : s[j] = t[Len(t) - Len(s) + j]
<1> DEFINE m == Len(s)
           n == Len(t)
<1>0. m \in Nat /\ n \in Nat
  OBVIOUS
<1>1. PICK u \in Seq(T) : u = Reverse(s)
  <2>1. Reverse(s) \in Seq(T)
    BY ReverseIsSeq
  <2> QED BY <2>1
<1>2. PICK v \in Seq(T) : v = Reverse(t)
  <2>1. Reverse(t) \in Seq(T)
    BY ReverseIsSeq
  <2> QED BY <2>1
<1>3. /\ Len(u) = m /\ \A j \in 1..m : u[j] = s[(m - j) + 1]
      /\ Len(v) = n /\ \A j \in 1..n : v[j] = t[(n - j) + 1]
  BY <1>1, <1>2 DEF Reverse
<1>4. IsSuffix(s, t) <=> m <= n /\ SubSeq(u, 1, m) = SubSeq(v, 1, m)
  BY <1>1, <1>2, <1>3 DEF IsSuffix, IsPrefix
<1> HIDE DEF m, n
<1>5. ASSUME m <= n
      PROVE  SubSeq(u, 1, m) = SubSeq(v, 1, m) <=> \A j \in 1..m : u[j] = v[j]
  <2>1. SubSeq(u, 1, m) \in Seq(T) /\ SubSeq(v, 1, m) \in Seq(T)
    BY <1>0, <1>3, <1>5
  <2>2. PICK a \in Seq(T), b \in Seq(T) : a = SubSeq(u, 1, m) /\ b = SubSeq(v, 1, m)
    BY <2>1
  <2>3. /\ Len(a) = m /\ Len(b) = m
        /\ \A j \in 1..m : a[j] = u[j] /\ b[j] = v[j]
    BY <1>0, <1>3, <1>5, <2>2
  <2>4. a = b <=> \A j \in 1..m : a[j] = b[j]
    BY <2>3, SameElements
  <2> QED BY <2>2, <2>3, <2>4
<1>6. ASSUME m <= n
      PROVE  (\A j \in 1..m : u[j] = v[j]) <=> \A j \in 1..m : s[j] = t[n - m + j]
  <2>1. ASSUME \A j \in 1..m : u[j] = v[j], NEW j \in 1..m PROVE s[j] = t[n - m + j]
    <3>1. (m - j) + 1 \in 1..m /\ (m - j) + 1 \in 1..n
      BY <1>0, <1>6
    <3>2. (m - ((m - j) + 1)) + 1 = j /\ (n - ((m - j) + 1)) + 1 = n - m + j
      BY <1>0
    <3>3. u[(m - j) + 1] = v[(m - j) + 1]
      BY <2>1, <3>1
    <3>4. u[(m - j) + 1] = s[(m - ((m - j) + 1)) + 1]
      BY <1>3, <3>1
    <3>5. v[(m - j) + 1] = t[(n - ((m - j) + 1)) + 1]
      BY <1>3, <3>1
    <3> QED BY <3>2, <3>3, <3>4, <3>5
  <2>2. ASSUME \A j \in 1..m : s[j] = t[n - m + j], NEW j \in 1..m PROVE u[j] = v[j]
    <3>1. (m - j) + 1 \in 1..m /\ j \in 1..n
      BY <1>0, <1>6
    <3>2. n - m + ((m - j) + 1) = (n - j) + 1
      BY <1>0
    <3>3. s[(m - j) + 1] = t[n - m + ((m - j) + 1)]
      BY <2>2, <3>1
    <3> QED BY <1>3, <3>1, <3>2, <3>3
  <2> QED BY <2>1, <2>2
<1> QED BY <1>4, <1>5, <1>6 DEF m, n

LEMMA PartIs ==
    ASSUME NEW T, NEW s \in Seq(T), NEW y \in Seq(T), NEW k \in 0..(Len(s) - Len(y))
    PROVE  SubSeq(s, k + 1, k + Len(y)) = y <=> \A j \in 1..Len(y) : s[k + j] = y[j]
<1>0. Len(s) \in Nat /\ Len(y) \in Nat
  OBVIOUS
<1>1. SubSeq(s, k + 1, k + Len(y)) \in Seq(T)
  BY <1>0
<1>2. PICK a \in Seq(T) : a = SubSeq(s, k + 1, k + Len(y))
  BY <1>1
<1>3. Len(a) = Len(y) /\ \A j \in 1..Len(y) : a[j] = s[k + j]
  <2>1. PICK n \in Nat : n = Len(y)
    BY <1>0
  <2>2. /\ Len(SubSeq(s, k + 1, k + n)) = n
        /\ \A j \in 1..n : SubSeq(s, k + 1, k + n)[j] = s[k + j]
    <3>1. PICK c, d \in Nat : c = k + 1 /\ d = k + n
      <4>1. k + 1 \in Nat /\ k + n \in Nat
        BY <2>1
      <4> QED BY <4>1
    <3>2. c \in 1..(Len(s) + 1) /\ d \in 0..Len(s) /\ d - c + 1 = n /\ c <= d + 1
      BY <1>0, <2>1, <3>1
    <3>3. /\ Len(SubSeq(s, c, d)) = d - c + 1
          /\ \A j \in 1..(d - c + 1) : SubSeq(s, c, d)[j] = s[c + j - 1]
      BY <1>0, <3>1, <3>2
    <3>4. \A j \in 1..n : c + j - 1 = k + j
      BY <2>1, <3>1
    <3> QED BY <3>1, <3>2, <3>3, <3>4
  <2> QED BY <1>2, <2>1, <2>2
<1>4. a = y <=> \A j \in 1..Len(y) : a[j] = y[j]
  BY <1>3, SameElements
<1> QED BY <1>2, <1>3, <1>4

\* The mask ends in a semicolon, and is what was given before that.
LEMMA MaskEnds ==
    ASSUME NEW T, Semicolon \in T, NEW w \in Seq(T), w # <<>>
    PROVE  /\ Mask(w) \in Seq(T)
           /\ Len(w) >= 1 /\ Len(Mask(w)) \in {Len(w), Len(w) + 1}
           /\ \A k \in 1..Len(w) : Mask(w)[k] = w[k]
           /\ Mask(w)[Len(Mask(w))] = Semicolon
           /\ w[Len(w)] # Semicolon => Len(Mask(w)) = Len(w) + 1
<1>1. Len(w) \in Nat /\ Len(w) # 0
  OBVIOUS
<1>2. CASE w[Len(w)] = Semicolon
  BY <1>1, <1>2 DEF Mask
<1>3. CASE w[Len(w)] # Semicolon
  <2>1. PICK m \in Seq(T) : m = Append(w, Semicolon)
    <3>1. Append(w, Semicolon) \in Seq(T)
      OBVIOUS
    <3> QED BY <3>1
  <2>2. /\ Len(m) = Len(w) + 1 /\ m[Len(w) + 1] = Semicolon
        /\ \A k \in 1..Len(w) : m[k] = w[k]
    BY <2>1
  <2>3. Mask(w) = m
    BY <1>3, <2>1 DEF Mask
  <2> QED BY <1>1, <1>3, <2>2, <2>3
<1> QED BY <1>2, <1>3

LEMMA EntryIs ==
    ASSUME NEW w, NEW a \in 1..Len(w), NEW b \in 1..Len(w),
           a = 1 \/ w[a - 1] = Semicolon, b = Len(w) \/ w[b + 1] = Semicolon,
           \A k \in a..b : w[k] # Semicolon
    PROVE  SubSeq(w, a, b) \in Entries(w)
<1>1. <<a, b>> \in {q \in (1..Len(w)) \X (1..Len(w)) :
                  /\ q[1] = 1 \/ w[q[1] - 1] = Semicolon
                  /\ q[2] = Len(w) \/ w[q[2] + 1] = Semicolon
                  /\ \A k \in q[1]..q[2] : w[k] # Semicolon}
  OBVIOUS
<1> QED BY <1>1 DEF Entries

LEMMA EntryWas ==
    ASSUME NEW w, NEW e \in Entries(w)
    PROVE  \E a, b \in 1..Len(w) :
              /\ e = SubSeq(w, a, b)
              /\ a = 1 \/ w[a - 1] = Semicolon
              /\ b = Len(w) \/ w[b + 1] = Semicolon
              /\ \A k \in a..b : w[k] # Semicolon
BY DEF Entries

\* Looking for x and a semicolon in the mask is looking for an entry of what
\* was given that ends in x.
LEMMA MaskByEntries ==
    ASSUME NEW T, Semicolon \in T, NEW w \in Seq(T), w # <<>>,
           NEW x \in Seq(T), x # <<>>, \A j \in 1..Len(x) : x[j] # Semicolon
    PROVE  (\E k \in 0..(Len(Mask(w)) - Len(Append(x, Semicolon))) :
               SubSeq(Mask(w), k + 1, k + Len(Append(x, Semicolon))) = Append(x, Semicolon))
           <=> \E e \in Entries(w) : IsSuffix(x, e)
<1>1. PICK m \in Seq(T) : m = Mask(w)
  BY MaskEnds
<1>2. PICK y \in Seq(T) : y = Append(x, Semicolon)
  <2>1. Append(x, Semicolon) \in Seq(T)
    OBVIOUS
  <2> QED BY <2>1
<1> DEFINE n == Len(x)
           N == Len(w)
           M == Len(m)
<1>3. /\ Len(y) = n + 1 /\ y[n + 1] = Semicolon /\ \A j \in 1..n : y[j] = x[j]
      /\ n \in Nat /\ n >= 1 /\ N \in Nat /\ N >= 1 /\ M \in Nat
  <2>1. Len(x) \in Nat /\ Len(x) # 0 /\ Len(w) \in Nat /\ Len(w) # 0
    OBVIOUS
  <2> QED BY <1>2, <2>1
<1>4. /\ M \in {N, N + 1} /\ \A k \in 1..N : m[k] = w[k]
      /\ m[M] = Semicolon
      /\ w[N] # Semicolon => M = N + 1
  BY <1>1, MaskEnds
<1>5. \A j \in 1..(n + 1) : j \in 1..n \/ j = n + 1
  BY <1>3
<1> HIDE DEF n, N, M
<1>6. ASSUME NEW k \in 0..(M - (n + 1)), SubSeq(m, k + 1, k + (n + 1)) = y
      PROVE  \E e \in Entries(w) : IsSuffix(x, e)
  <2>1. \A j \in 1..(n + 1) : m[k + j] = y[j]
    BY <1>3, <1>6, PartIs DEF M
  <2>2. k + n \in 1..N /\ k + (n + 1) <= M /\ k \in Nat
    BY <1>3, <1>4
  <2>3. \A j \in 1..n : k + j \in 1..N /\ w[k + j] = x[j] /\ w[k + j] # Semicolon
    <3> SUFFICES ASSUME NEW j \in 1..n
                 PROVE  k + j \in 1..N /\ w[k + j] = x[j] /\ w[k + j] # Semicolon
      OBVIOUS
    <3>1. k + j \in 1..N /\ j \in 1..(n + 1)
      BY <1>3, <2>2
    <3>2. m[k + j] = y[j] /\ y[j] = x[j] /\ m[k + j] = w[k + j]
      BY <1>3, <1>4, <2>1, <3>1
    <3>3. x[j] # Semicolon
      BY DEF n
    <3> QED BY <3>1, <3>2, <3>3
  <2>4. k + n = N \/ w[k + n + 1] = Semicolon
    <3>1. m[k + (n + 1)] = Semicolon
      <4>1. n + 1 \in 1..(n + 1)
        BY <1>3
      <4> QED BY <1>3, <2>1, <4>1
    <3>2. k + (n + 1) = k + n + 1
      BY <1>3
    <3>3. k + n = N \/ k + n + 1 \in 1..N
      BY <1>3, <2>2
    <3> QED BY <1>4, <3>1, <3>2, <3>3
  <2>5. PICK a \in 1..(k + 1) :
            /\ a = 1 \/ w[a - 1] = Semicolon
            /\ \A j \in a..k : w[j] # Semicolon
    <3> DEFINE Clear == {a \in Nat : a \in 1..(k + 1) /\ \A j \in a..k : w[j] # Semicolon}
    <3>1. k + 1 \in Clear
      BY <2>2
    <3>2. Clear \in SUBSET Nat /\ Clear # {}
      BY <3>1
    <3>3. PICK a \in Clear : \A b \in Clear : a <= b
      <4> HIDE DEF Clear
      <4> QED BY <3>2, Least
    <3>4. a = 1 \/ w[a - 1] = Semicolon
      <4>1. SUFFICES ASSUME a # 1, w[a - 1] # Semicolon PROVE FALSE
        OBVIOUS
      <4>2. a - 1 \in 1..(k + 1) /\ a - 1 \in Nat /\ a \in Nat
        BY <2>2, <4>1
      <4>3. \A j \in (a - 1)..k : j = a - 1 \/ j \in a..k
        BY <2>2, <4>2
      <4>4. \A j \in (a - 1)..k : w[j] # Semicolon
        BY <4>1, <4>3
      <4>5. a - 1 \in Clear
        BY <4>2, <4>4
      <4>6. a <= a - 1
        <5> HIDE DEF Clear
        <5> QED BY <3>3, <4>5
      <4> QED BY <4>2, <4>6
    <3> QED BY <3>3, <3>4
  <2>6. \A j \in a..(k + n) : w[j] # Semicolon
    <3>1. ASSUME NEW j \in a..(k + n) PROVE w[j] # Semicolon
      <4>1. CASE j <= k
        BY <2>2, <2>5, <4>1
      <4>2. CASE ~(j <= k)
        <5>1. j - k \in 1..n /\ k + (j - k) = j
          BY <1>3, <2>2, <4>2
        <5> QED BY <2>3, <5>1
      <4> QED BY <4>1, <4>2
    <3> QED BY <3>1
  <2>7. a \in 1..N /\ k + n \in 1..N
    BY <1>3, <2>2
  <2>8. SubSeq(w, a, k + n) \in Entries(w)
    BY <2>4, <2>5, <2>6, <2>7, EntryIs DEF N
  <2>9. IsSuffix(x, SubSeq(w, a, k + n))
    <3>1. PICK e \in Seq(T) : e = SubSeq(w, a, k + n)
      <4>1. SubSeq(w, a, k + n) \in Seq(T)
        BY <2>7 DEF N
      <4> QED BY <4>1
    <3>2. Len(e) = k + n - a + 1 /\ \A j \in 1..(k + n - a + 1) : e[j] = w[a + j - 1]
      BY <1>3, <2>2, <2>7, <3>1 DEF N
    <3>3. n <= Len(e)
      BY <1>3, <2>2, <3>2
    <3>4. ASSUME NEW j \in 1..n PROVE x[j] = e[Len(e) - n + j]
      <4>1. Len(e) - n + j \in 1..(k + n - a + 1) /\ a + (Len(e) - n + j) - 1 = k + j
        BY <1>3, <2>2, <3>2
      <4>2. e[Len(e) - n + j] = w[k + j]
        BY <3>2, <4>1
      <4> QED BY <2>3, <4>2
    <3>5. IsSuffix(x, e)
      BY <3>3, <3>4, SuffixIs DEF n
    <3> QED BY <3>1, <3>5
  <2> QED BY <2>8, <2>9
<1>7. ASSUME NEW e \in Entries(w), IsSuffix(x, e)
      PROVE  \E k \in 0..(M - (n + 1)) : SubSeq(m, k + 1, k + (n + 1)) = y
  <2>1. PICK a \in 1..N, b \in 1..N :
            /\ e = SubSeq(w, a, b)
            /\ b = N \/ w[b + 1] = Semicolon
            /\ \A j \in a..b : w[j] # Semicolon
    BY EntryWas DEF N
  <2>2. PICK d \in Seq(T) : d = SubSeq(w, a, b)
    <3>1. SubSeq(w, a, b) \in Seq(T)
      BY <2>1 DEF N
    <3> QED BY <3>1
  <2>3. /\ Len(d) = IF a <= b THEN b - a + 1 ELSE 0
        /\ \A j \in 1..Len(d) : d[j] = w[a + j - 1]
    BY <1>3, <2>1, <2>2 DEF N
  <2>4. n <= Len(d) /\ \A j \in 1..n : x[j] = d[Len(d) - n + j]
    BY <1>7, <2>1, <2>2, SuffixIs DEF n
  <2>5. a <= b /\ Len(d) = b - a + 1
    BY <1>3, <2>1, <2>3, <2>4
  <2> DEFINE k == b - n
  <2>6. k \in Nat /\ k + n = b /\ k + (n + 1) = b + 1
    BY <1>3, <2>1, <2>4, <2>5
  <2>7. b + 1 <= M /\ m[b + 1] = Semicolon
    <3>1. CASE b = N
      <4>1. w[N] # Semicolon
        BY <2>1, <2>5, <3>1
      <4> QED BY <1>4, <3>1, <4>1
    <3>2. CASE b # N
      <4>1. b + 1 \in 1..N /\ w[b + 1] = Semicolon
        BY <1>3, <2>1, <3>2
      <4> QED BY <1>3, <1>4, <4>1
    <3> QED BY <3>1, <3>2
  <2> HIDE DEF k
  <2>8. ASSUME NEW j \in 1..(n + 1) PROVE m[k + j] = y[j]
    <3>1. CASE j = n + 1
      BY <1>3, <2>6, <2>7, <3>1
    <3>2. CASE j \in 1..n
      <4>1. k + j \in 1..N
        BY <1>3, <2>1, <2>6, <3>2
      <4>2. Len(d) - n + j \in 1..Len(d) /\ a + (Len(d) - n + j) - 1 = k + j
        BY <1>3, <2>1, <2>4, <2>5, <2>6, <3>2
      <4>3. x[j] = w[k + j]
        BY <2>3, <2>4, <3>2, <4>2
      <4> QED BY <1>3, <1>4, <3>2, <4>1, <4>3
    <3> QED BY <1>5, <3>1, <3>2
  <2>9. k \in 0..(M - (n + 1))
    BY <1>3, <2>6, <2>7
  <2>10. SubSeq(m, k + 1, k + (n + 1)) = y
    BY <1>3, <2>8, <2>9, PartIs DEF M
  <2> QED BY <2>9, <2>10
<1>8. (\E k \in 0..(M - (n + 1)) : SubSeq(m, k + 1, k + (n + 1)) = y)
          <=> \E e \in Entries(w) : IsSuffix(x, e)
  BY <1>6, <1>7
<1> QED BY <1>1, <1>2, <1>3, <1>8 DEF M

\* An option with an argument on a legal line has one.
LEMMA ArgumentIsWord ==
    ASSUME NEW w \in Seq(Word), w # <<>>, Legal(w, First(w)), NEW c \in TakesArgument, NEW d
    PROVE  \/ ArgumentOf(c, w, First(w), d) = d
           \/ \E p \in 1..Len(w) : ArgumentOf(c, w, First(w), d) = w[p]
<1> DEFINE S == {q \in WordsOf(w) : c \in Letters(w[q])}
           n == Len(w)
<1>1. ArgumentOf(c, w, First(w), d) = AfterLast(S, w, d)
  BY DEF ArgumentOf, AfterLast, WordsOf
<1>2. n \in Nat /\ WordsOf(w) \subseteq 1..n
  BY WordsOfRead, FirstWord
<1>3. S \subseteq 1..n /\ \A q \in S : q + 1 \in 1..n
  <2>1. ASSUME NEW q \in S PROVE q \in 1..n /\ q + 1 \in 1..n
    <3>1. Takes(w, q) /\ q \in 1..n
      BY <1>2 DEF Takes
    <3>2. q # n
      BY <3>1, LegalIs
    <3> QED BY <1>2, <3>1, <3>2
  <2> QED BY <2>1
<1> HIDE DEF S, n
<1>4. CASE S = {}
  BY <1>1, <1>4 DEF AfterLast
<1>5. CASE S # {}
  <2> DEFINE Below == {m \in Nat : n - m \in S}
  <2>1. PICK q0 \in S : TRUE
    BY <1>5
  <2>2. n - q0 \in Nat /\ n - (n - q0) = q0
    BY <1>2, <1>3
  <2>3. n - q0 \in Below
    BY <2>1, <2>2
  <2>4. Below \in SUBSET Nat /\ Below # {}
    BY <2>3
  <2>5. PICK m \in Below : \A k \in Below : m <= k
    <3> HIDE DEF Below
    <3> QED BY <2>4, Least
  <2>6. m \in Nat /\ n - m \in S
    OBVIOUS
  <2>7. \A q \in S : q <= n - m
    <3> SUFFICES ASSUME NEW q \in S PROVE q <= n - m
      OBVIOUS
    <3>1. q \in 1..n /\ n - q \in Nat /\ n - (n - q) = q
      BY <1>2, <1>3
    <3>2. n - q \in Below
      BY <3>1
    <3>3. m <= n - q
      BY <2>5, <3>2
    <3> QED BY <1>2, <2>6, <3>1, <3>3
  <2>8. PICK p : p = CHOOSE v \in S : \A q \in S : q <= v
    OBVIOUS
  <2>9. p \in S
    BY <2>6, <2>7, <2>8
  <2>10. ArgumentOf(c, w, First(w), d) = w[p + 1]
    BY <1>1, <1>5, <2>8 DEF AfterLast
  <2> QED BY <1>3, <2>9, <2>10 DEF n
<1> QED BY <1>4, <1>5

\* SearchFiles and -e: looking for the extension and a semicolon in the mask is
\* looking through the entries of the word after -e, the last one with or
\* without a semicolon; only an extension that has a semicolon itself could be
\* found across two entries.  The mask is the one given last, or the default.
THEOREM MaskIsEntries == Spec => []MaskTakesEntries
<1>1. TypeOK /\ Reads => MaskTakesEntries
  <2> SUFFICES ASSUME TypeOK, Reads, NEW i \in started, NEW x \in Extension,
                      pc[i] = "run", Semicolon \notin Range(x)
               PROVE  LET w == ArgumentOf("e", args[i], First(args[i]), DefaultMask)
                      IN Accepts(opt[i].strMaskExt, x) <=>
                           \/ w = <<>>
                           \/ x # <<>> /\ \E e \in Entries(w) : IsSuffix(LowerCase(x), e)
    BY DEF MaskTakesEntries
  <2> DEFINE w == ArgumentOf("e", args[i], First(args[i]), DefaultMask)
             y == LowerCase(x)
  <2>1. /\ ~RefusedDirectory(args[i])
        /\ Legal(args[i], First(args[i])) /\ opt[i] = Meant(args[i])
    BY DEF Reads, ReadsOf, Reading, DirectoriesTaken
  <2>2. args[i] \in Seq(Word) /\ args[i] # <<>>
    BY <2>1, LineWords DEF TypeOK, RefusedDirectory
  <2>3. opt[i].strMaskExt = Mask(w)
    BY <2>1 DEF Meant
  <2>4. \E T : w \in Seq(T)
    <3>1. w = DefaultMask \/ \E p \in 1..Len(args[i]) : w = args[i][p]
      <4>1. "e" \in TakesArgument
        BY DEF TakesArgument
      <4> QED BY <2>1, <2>2, <4>1, ArgumentIsWord
    <3>2. DefaultMask \in Seq({".", "j", "p", Semicolon})
      BY DEF DefaultMask
    <3>3. \A p \in 1..Len(args[i]) : args[i][p] \in Seq(Range(args[i][p]))
      BY <2>2, WordIsSeq
    <3> HIDE DEF w
    <3> QED BY <3>1, <3>2, <3>3
  <2>5. PICK T1 : w \in Seq(T1)
    BY <2>4
  <2>6. PICK T2 : /\ x \in Seq(T2) /\ y \in Seq(T2) /\ Len(y) = Len(x)
                  /\ \A j \in 1..Len(y) : y[j] # Semicolon
    <3>1. x \in Seq(Range(x)) /\ Semicolon \notin Range(Lower)
      BY StartupAssumption
    <3> DEFINE n == Len(x)
    <3>2. n \in Nat /\ DOMAIN x = 1..n /\ \A j \in 1..n : x[j] \in Range(x)
      BY <3>1
    <3>3. y = [j \in 1..n |-> IF x[j] \in DOMAIN Lower THEN Lower[x[j]] ELSE x[j]]
      BY <3>2 DEF LowerCase
    <3>4. \A a \in DOMAIN Lower : Lower[a] \in Range(Lower)
      BY DEF Range
    <3>5. \A j \in 1..n : y[j] \in Range(x) \cup Range(Lower) /\ y[j] # Semicolon
      <4> HIDE DEF n
      <4> QED BY <3>1, <3>2, <3>3, <3>4
    <3> HIDE DEF n
    <3>6. y \in Seq(Range(x) \cup Range(Lower)) /\ Len(y) = n
      BY <3>2, <3>3, <3>5
    <3>7. x \in Seq(Range(x) \cup Range(Lower))
      BY <3>1
    <3> HIDE DEF y
    <3> QED BY <3>5, <3>6, <3>7 DEF n
  <2>7. PICK T : T1 \subseteq T /\ T2 \subseteq T /\ Semicolon \in T
    <3>1. /\ T1 \subseteq T1 \cup T2 \cup {Semicolon}
          /\ T2 \subseteq T1 \cup T2 \cup {Semicolon}
          /\ Semicolon \in T1 \cup T2 \cup {Semicolon}
      OBVIOUS
    <3> QED BY <3>1
  <2>8. w \in Seq(T) /\ y \in Seq(T)
    BY <2>5, <2>6, <2>7
  <2>9. x = <<>> <=> y = <<>>
    <3> HIDE DEF y
    <3> QED BY <2>6
  <2> HIDE DEF w
  <2>10. CASE w = <<>>
    <3>1. Mask(w) = <<>>
      BY <2>10 DEF Mask
    <3> QED BY <2>3, <2>10, <3>1 DEF Accepts, w
  <2>11. CASE w # <<>>
    <3>1. Mask(w) # <<>>
      <4>1. Mask(w) \in Seq(T) /\ Len(w) >= 1 /\ Len(Mask(w)) \in {Len(w), Len(w) + 1}
        BY <2>7, <2>8, <2>11, MaskEnds
      <4>2. Len(w) \in Nat
        BY <2>8
      <4> QED BY <4>1, <4>2
    <3>2. CASE x = <<>>
      BY <2>3, <2>11, <3>1, <3>2 DEF Accepts, w
    <3>3. CASE x # <<>>
      <4> HIDE DEF y
      <4>1. (\E k \in 0..(Len(Mask(w)) - Len(Append(y, Semicolon))) :
               SubSeq(Mask(w), k + 1, k + Len(Append(y, Semicolon))) = Append(y, Semicolon))
              <=> \E e \in Entries(w) : IsSuffix(y, e)
        BY <2>6, <2>7, <2>8, <2>9, <2>11, <3>3, MaskByEntries
      <4>2. Accepts(Mask(w), x)
              <=> (\E k \in 0..(Len(Mask(w)) - Len(Append(y, Semicolon))) :
               SubSeq(Mask(w), k + 1, k + Len(Append(y, Semicolon))) = Append(y, Semicolon))
        BY <3>1, <3>3 DEF Accepts, y
      <4>3. Accepts(Mask(w), x) <=> \E e \in Entries(w) : IsSuffix(y, e)
        BY <4>1, <4>2
      <4> QED BY <2>3, <2>11, <3>3, <4>3 DEF w, y
    <3> QED BY <3>2, <3>3
  <2> QED BY <2>10, <2>11
<1>2. IInv => TypeOK
  BY DEF IInv
<1> QED BY <1>1, <1>2, IInvHolds, ReadsHold, PTL

=============================================================================
