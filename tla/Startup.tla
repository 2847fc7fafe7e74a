------------------------------ MODULE Startup -------------------------------
(***************************************************************************)
(* _tmain (Tst/ImageComparerCmd.cpp) outside the search itself: several    *)
(* instances of the program are started in one directory, each reads its   *)
(* command line, looks for the name of a new log file, opens it, searches  *)
(* (the step between Open and Finish; see ImageComparerCmd) and ends.      *)
(*                                                                         *)
(* A file opened with _wfopen_s for writing is not shared, one opened for  *)
(* reading is shared with readers only.                                    *)
(***************************************************************************)
EXTENDS GetOpt, GetDirectory

CONSTANTS
    Instance,    \* the processes
    Lines,       \* command lines: each gives some instances their words
    Number,      \* what _wtof reads from the words that begin with a number
    Extension,   \* extensions of the files on the disk
    Earlier,     \* bound: how many logs there may be at first
    Unlucky      \* the processes that the system may refuse to open a log

NoFile == "no file"
Old == "an earlier run"
NULL == -1      \* no file is open
Running == 1    \* _tmain has not returned
Semicolon == ";"    \* ends an entry of the mask

ASSUME StartupAssumption ==
    /\ IsFiniteSet(Instance) /\ Instance \cap {NoFile, Old} = {}
    /\ \A w \in Word : w \in Seq(Range(w))
    /\ \A line \in Lines :
          DOMAIN line \subseteq Instance /\ line \in [DOMAIN line -> Seq(Word)]
    /\ \A x \in Extension : x \in Seq(Range(x))
    /\ Semicolon \notin Range(Lower)
    /\ Earlier \in Nat
    /\ Unlucky \subseteq Instance

\* The numbers of log files there is room for.
LogName == 0..(Earlier + Cardinality(Instance))

VARIABLES
    args,      \* the instances started and their words
    pc,
    strDir, strDir2,   \* the directories to be searched; the second may lack
    batch, opt, scan,  \* the options, and getopt's state
    ret,       \* what _tmain returned; Running before
    log,       \* the log files: which instance wrote one
    logNum,    \* the number of the name an instance probes or opens
    logFile,   \* the number of the file an instance has open for writing
    met,       \* history: who had that name open since, or while, i probed it
    refused    \* history: the calls of i that failed for no file in use

started == DOMAIN args
directories == <<strDir, strDir2>>
options == <<args, directories, batch, opt, scan>>
logs == <<log, logNum, logFile, met, refused>>
vars == <<options, pc, ret, logs>>

-----------------------------------------------------------------------------
DefaultMask ==     \* two entries stand for sixteen
    <<".", "j", Semicolon, ".", "p", Semicolon>>
Defaults ==
    [MoveSmaller |-> FALSE, UseLists |-> FALSE, ImageCanBeRotated |-> FALSE,
     eQuality |-> 5, strMaskExt |-> DefaultMask]

Init ==
    /\ args \in Lines
    /\ pc = [i \in started |-> "start"]
    /\ batch = [i \in started |-> FALSE]
    /\ opt = [i \in started |-> Defaults]
    /\ strDir = [i \in started |-> NoDirectory]
    /\ strDir2 = [i \in started |-> NoDirectory]
    /\ scan = [i \in started |-> Scan0]
    /\ ret = [i \in started |-> Running]
    /\ \E n \in 0..Earlier : log = [k \in LogName |-> IF k < n THEN Old ELSE NoFile]
    /\ logNum = [i \in started |-> 0]
    /\ logFile = [i \in started |-> NULL]
    /\ met = [i \in started |-> {}]
    /\ refused = [i \in started |-> {}]

\* _tmain returns; without -b it waits for a key first.
Leave(i, value) ==
    /\ pc' = [pc EXCEPT ![i] = IF batch[i] THEN "exit" ELSE "pause"]
    /\ ret' = [ret EXCEPT ![i] = value]

Refuse(i) == Leave(i, -1) /\ UNCHANGED <<options, logs>>

-----------------------------------------------------------------------------
(* The directories and the options.                                        *)

HasSecond(w) == Len(w) > 1 /\ ~Dash(w[2])

\* The words that name directories.
Dirs(w) == {w[p] : p \in {q \in DOMAIN w : q = 1 \/ (q = 2 /\ HasSecond(w))}}

RefusedDirectory(w) == w = <<>> \/ NoDirectory \in {GetDirectory[d] : d \in Dirs(w)}

BadDirectory(i) ==
    /\ pc[i] = "start"
    /\ RefusedDirectory(args[i])
    /\ Refuse(i)

Directories(i) ==
    LET w == args[i]
    IN /\ pc[i] = "start"
       /\ ~RefusedDirectory(w)
       /\ pc' = [pc EXCEPT ![i] = "options"]
       /\ strDir' = [strDir EXCEPT ![i] = GetDirectory[w[1]]]
       /\ IF HasSecond(w)
          THEN /\ strDir2' = [strDir2 EXCEPT ![i] = GetDirectory[w[2]]]
               /\ scan' = [scan EXCEPT ![i].optind = 3]
          ELSE /\ scan' = [scan EXCEPT ![i].optind = 2]
               /\ UNCHANGED strDir2
       /\ UNCHANGED <<args, batch, opt, ret, logs>>

Wtof(w) == IF w \in DOMAIN Number THEN Number[w] ELSE 0

\* Mutant of Mask: the last entry is left open.
MaskAsGiven(w) == w

\* -e: the list gets a final semicolon if it has none.
Mask(w) == IF w # <<>> /\ w[Len(w)] # Semicolon THEN Append(w, Semicolon) ELSE w

\* The switch of _tmain.
Taken(o, s) ==
    CASE s.c = "s" -> [o EXCEPT !.MoveSmaller = TRUE]
      [] s.c = "l" -> [o EXCEPT !.UseLists = TRUE]
      [] s.c = "r" -> [o EXCEPT !.ImageCanBeRotated = TRUE]
      [] s.c = "q" -> [o EXCEPT !.eQuality = Wtof(s.optarg)]
      [] s.c = "e" -> [o EXCEPT !.strMaskExt = Mask(s.optarg)]
      [] s.c = "b" -> o

Option(i) ==
    LET s == GetOpt(scan[i], args[i])
    IN /\ pc[i] = "options"
       /\ s.c \notin {"EOF", "?"}
       /\ scan' = [scan EXCEPT ![i] = s]
       /\ opt' = [opt EXCEPT ![i] = Taken(@, s)]
       /\ batch' = [batch EXCEPT ![i] = @ \/ s.c = "b"]
       /\ UNCHANGED <<args, pc, directories, ret, logs>>

\* An option is unknown or lacks its argument, or a word is no option.
BadOption(i) ==
    LET s == GetOpt(scan[i], args[i])
    IN /\ pc[i] = "options"
       /\ \/ s.c = "?"
          \/ s.c = "EOF" /\ s.optind <= Len(args[i])
       /\ scan' = [scan EXCEPT ![i] = s]
       /\ Leave(i, -1)
       /\ UNCHANGED <<args, directories, batch, opt, logs>>

Options(i) ==
    LET s == GetOpt(scan[i], args[i])
    IN /\ pc[i] = "options"
       /\ s.c = "EOF"
       /\ s.optind > Len(args[i])
       /\ scan' = [scan EXCEPT ![i] = s]
       /\ pc' = [pc EXCEPT ![i] = "probe"]
       /\ UNCHANGED <<args, directories, batch, opt, ret, logs>>

-----------------------------------------------------------------------------
(* The log.                                                                *)

Writers(n) == {i \in started : logFile[i] = n}
Readers(n) == {i \in started : pc[i] = "probed" /\ logNum[i] = n}
Holders(n) == Writers(n) \cup Readers(n)

\* i has opened n: whoever means to open it, too, has met i.
Meet(i, n) ==
    [j \in started |->
        IF j # i /\ pc[j] = "open" /\ logNum[j] = n THEN met[j] \cup {i}
        ELSE met[j]]

\* The file exists and nobody writes it.
Readable(n) == log[n] # NoFile /\ Writers(n) = {}

\* The name is taken: the file could be opened for reading.
Probe(i) ==
    /\ pc[i] = "probe"
    /\ Readable(logNum[i])
    /\ pc' = [pc EXCEPT ![i] = "probed"]
    /\ met' = Meet(i, logNum[i])
    /\ UNCHANGED <<options, ret, log, logNum, logFile, refused>>

\* Mutant of NextName: the second name is not probed.
NextNameUnprobed(i) ==
    /\ pc[i] = "probed"
    /\ logNum' = [logNum EXCEPT ![i] = @ + 1]
    /\ pc' = [pc EXCEPT ![i] = "open"]
    /\ UNCHANGED <<options, ret, log, logFile, met, refused>>

\* Mutant of NextName: the number is not advanced.
SameName(i) ==
    /\ pc[i] = "probed"
    /\ pc' = [pc EXCEPT ![i] = "probe"]
    /\ UNCHANGED <<options, ret, logs>>

\* It is closed again, and the next name is made.
NextName(i) ==
    /\ pc[i] = "probed"
    /\ logNum' = [logNum EXCEPT ![i] = @ + 1]
    /\ pc' = [pc EXCEPT ![i] = "probe"]
    /\ UNCHANGED <<options, ret, log, logFile, met, refused>>

\* The file could not be opened for reading: its name is taken for free, be
\* it that there is no such file or that another instance is writing it.
NameFound(i) ==
    /\ pc[i] = "probe"
    /\ ~Readable(logNum[i])
    /\ pc' = [pc EXCEPT ![i] = "open"]
    /\ met' = [met EXCEPT ![i] = Holders(logNum[i])]
    /\ UNCHANGED <<options, ret, log, logNum, logFile, refused>>

\* It could not, though nobody was writing it: another program has it, or the
\* system does not allow it.
ProbeRefused(i) ==
    /\ i \in Unlucky
    /\ pc[i] = "probe"
    /\ Readable(logNum[i])
    /\ pc' = [pc EXCEPT ![i] = "open"]
    /\ met' = [met EXCEPT ![i] = Holders(logNum[i])]
    /\ refused' = [refused EXCEPT ![i] = @ \cup {"probe"}]
    /\ UNCHANGED <<options, ret, log, logNum, logFile>>

\* Mutant of Open: the file is opened for reading only, never made.
OpenNothing(i) ==
    /\ pc[i] = "open"
    /\ pc' = [pc EXCEPT ![i] = "run"]
    /\ UNCHANGED <<options, ret, logs>>

\* The log is made, or emptied, unless someone has it open; the run goes on
\* without one then.
Open(i) ==
    LET n == logNum[i]
    IN /\ pc[i] = "open"
       /\ pc' = [pc EXCEPT ![i] = "run"]
       /\ IF Holders(n) = {}
          THEN /\ log' = [log EXCEPT ![n] = i]
               /\ logFile' = [logFile EXCEPT ![i] = n]
               /\ met' = Meet(i, n)
          ELSE UNCHANGED <<log, logFile, met>>
       /\ UNCHANGED <<options, ret, logNum, refused>>

\* It cannot be made for another reason: the directory may not be written to,
\* the disk is full.
OpenRefused(i) ==
    /\ i \in Unlucky
    /\ pc[i] = "open"
    /\ pc' = [pc EXCEPT ![i] = "run"]
    /\ refused' = [refused EXCEPT ![i] = @ \cup {"open"}]
    /\ UNCHANGED <<options, ret, log, logNum, logFile, met>>

Finish(i) ==
    /\ pc[i] = "run"
    /\ logFile' = [logFile EXCEPT ![i] = NULL]
    /\ Leave(i, 0)
    /\ UNCHANGED <<options, log, logNum, met, refused>>

-----------------------------------------------------------------------------
\* system("PAUSE"): someone presses a key.
Key(i) ==
    /\ pc[i] = "pause"
    /\ pc' = [pc EXCEPT ![i] = "exit"]
    /\ UNCHANGED <<options, ret, logs>>

\* The process is stopped; the system closes its file.
Crash(i) ==
    /\ pc[i] \in {"probe", "probed", "open", "run"}
    /\ pc' = [pc EXCEPT ![i] = "exit"]
    /\ logFile' = [logFile EXCEPT ![i] = NULL]
    /\ UNCHANGED <<options, ret, log, logNum, met, refused>>

Step(i) ==
    \/ BadDirectory(i) \/ Directories(i)
    \/ Option(i) \/ BadOption(i) \/ Options(i)
    \/ Probe(i) \/ NextName(i) \/ NameFound(i) \/ Open(i)
    \/ ProbeRefused(i) \/ OpenRefused(i)
    \/ Finish(i)

Next == \E i \in started : Step(i) \/ Key(i) \/ Crash(i)

\* Every process is scheduled, and a search comes to an end; nobody has to
\* press a key, and a crash need not happen.
Fairness == \A i \in Instance : WF_vars(i \in started /\ Step(i))

Spec == Init /\ [][Next]_vars /\ Fairness

-----------------------------------------------------------------------------
\* The next character getopt reads is one of the word's, wherever it stopped
\* before; between two words the next one may be missing but for argc itself.
ScanInBounds ==
    \A i \in started :
        pc[i] = "options" =>
            \/ scan[i].sp = 1 /\ scan[i].optind <= Len(args[i]) + 1
            \/ /\ scan[i].sp > 1
               /\ scan[i].optind <= Len(args[i])
               /\ scan[i].sp < Len(args[i][scan[i].optind])

TypeOK ==
    /\ args \in Lines
    /\ pc \in [started -> {"start", "options", "probe", "probed", "open",
                           "run", "pause", "exit"}]
    /\ batch \in [started -> BOOLEAN]
    /\ ScanInBounds
    /\ {strDir, strDir2} \subseteq [started -> {NoDirectory} \cup Range(GetDirectory)]
    /\ ret \in [started -> {Running, -1, 0}]
    /\ log \in [LogName -> Instance \cup {Old, NoFile}]
    /\ logNum \in [started -> LogName]
    /\ logFile \in [started -> LogName \cup {NULL}]
    /\ met \in [started -> SUBSET Instance]
    /\ refused \in [started -> SUBSET {"probe", "open"}]

First(w) == IF HasSecond(w) THEN 3 ELSE 2
Accepted(w) == ~RefusedDirectory(w) /\ Legal(w, First(w))
Asked(w) == Given(w, First(w))
Meant(w) ==
    [MoveSmaller |-> "s" \in Asked(w),
     UseLists |-> "l" \in Asked(w),
     ImageCanBeRotated |-> "r" \in Asked(w),
     eQuality |-> IF "q" \notin Asked(w) THEN 5
                  ELSE Wtof(ArgumentOf("q", w, First(w), <<>>)),
     strMaskExt |-> Mask(ArgumentOf("e", w, First(w), DefaultMask))]

Searching(i) == pc[i] \in {"probe", "probed", "open", "run"} \/ ret[i] = 0

\* The words that name a directory, each with the directory searched for it.
Searches(i) ==
    IF ~Searching(i) THEN {}
    ELSE {<<args[i][1], strDir[i]>>} \cup
         (IF HasSecond(args[i]) THEN {<<args[i][2], strDir2[i]>>} ELSE {})

\* A directory named on the line, by a full path or from the current directory,
\* is the one that is searched.
SearchedAsNamed ==
    \A i \in started : \A s \in Searches(i) :
        IsPlain(s[1]) /\ Named(s[1]) \in Folders => s[2] = Named(s[1])

\* The same but for the directory around a last name with a dot for which no
\* directory is found where the program runs.  Nothing of the kind holds of a
\* word with a drive and no slash, or with a slash at the front and no drive:
\* the code does not ask for the current directory of a drive nor for the
\* drive of the current directory.
SearchedOrAround ==
    \A i \in started : \A s \in Searches(i) :
        LET named == Named(s[1])
        IN IsPlain(s[1]) =>
             \/ s[2] = named
             \/ /\ s[2] = Front(named)
                /\ "." \in Range(Last(named))
                /\ ~FindsFolder(Last(named))

\* Letter by letter, with a place kept between the calls, the program takes
\* what a reader of the whole words would: it refuses the lines that are not
\* options with their arguments, and no other, and the last -q and -e count.
TakenAsMeant ==
    /\ SearchedOrAround
    /\ \A i \in started :
         /\ Searching(i) => /\ Accepted(args[i])
                            /\ opt[i] = Meant(args[i])
                            /\ batch[i] = ("b" \in Asked(args[i]))
                            /\ strDir2[i] # NoDirectory <=> HasSecond(args[i])
         /\ ret[i] = -1 => ~Accepted(args[i])

\* SearchFiles looks for the extension with a semicolon anywhere in the mask.
Accepts(mask, x) ==
    \/ mask = <<>>
    \/ /\ x # <<>>
       /\ LET y == Append(LowerCase(x), Semicolon)
          IN \E k \in 0..(Len(mask) - Len(y)) : SubSeq(mask, k + 1, k + Len(y)) = y

Entries(w) ==
    {SubSeq(w, p[1], p[2]) :
        p \in {q \in (1..Len(w)) \X (1..Len(w)) :
                  /\ q[1] = 1 \/ w[q[1] - 1] = Semicolon
                  /\ q[2] = Len(w) \/ w[q[2] + 1] = Semicolon
                  /\ \A k \in q[1]..q[2] : w[k] # Semicolon}}

\* Looking for a part of the mask is looking through its entries: the last one
\* counts with or without a semicolon, none is found across two of them unless
\* the file's extension has a semicolon itself, and case is folded in the file's
\* extension only.
MaskTakesEntries ==
    \A i \in started, x \in Extension :
        pc[i] = "run" /\ Semicolon \notin Range(x) =>
            LET w == ArgumentOf("e", args[i], First(args[i]), DefaultMask)
            IN Accepts(opt[i].strMaskExt, x) <=>
                 \/ w = <<>>
                 \/ x # <<>> /\ \E e \in Entries(w) : IsSuffix(LowerCase(x), e)

\* An instance nobody meets at its log has a log, and it is its own, unless the
\* system refuses to make the file.
AloneHasLog ==
    \A i \in started :
        pc[i] = "run" /\ met[i] = {} /\ "open" \notin refused[i] =>
            logFile[i] = logNum[i] /\ log[logNum[i]] = i

\* A log, finished or not, is emptied only by an instance that looked for its
\* name before its writer opened it or while it was written, or that was not
\* let read it and took its name for free: what an earlier run left stays else,
\* and the race is lost by the two that meet only.
KeepsLogs ==
    [][\A n \in LogName :
          log[n] \notin {NoFile, log'[n]} =>
              /\ log'[n] \in started
              /\ log[n] \in met[log'[n]] \/ "probe" \in refused[log'[n]]]_vars

\* Every instance ends, though others go on taking names; it waits for a key
\* only if its line was refused or does not ask for batch mode.
Ends ==
    \A i \in Instance :
        <>(i \in started =>
              \/ pc[i] = "exit"
              \/ /\ pc[i] = "pause"
                 /\ ret[i] = -1 \/ "b" \notin Asked(args[i]))

=============================================================================
