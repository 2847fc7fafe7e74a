---------------------------- MODULE HashThreads -----------------------------
(***************************************************************************)
(* ph_dct_image_hashes (pHash/pHash.cpp): an array of count names is cut   *)
(* into slices, and a thread hashes each; ph_dct_video_hashes divides its  *)
(* names the same way.  A thread that leaves the array ends the model      *)
(* ("undefined").                                                          *)
(***************************************************************************)
EXTENDS Integers, FiniteSets

CONSTANTS
    ThreadChoices,   \* values of the parameter threads
    Cpus             \* what ph_num_threads returns

ASSUME ThreadsAssumption ==
    /\ ThreadChoices \subseteq Int
    /\ Cpus \in Nat \ {0}

VARIABLES
    pcH,        \* where the caller is
    size,       \* the parameter count
    threads,    \* num_threads
    made,       \* how many threads were created
    start,      \* start[n], n < made: where the slice of thread n begins
    progress,   \* how many names of its slice thread n has hashed
    hashes      \* the names hashed, by index: what hashes[i]->hash was made of

threadVars == <<pcH, size, threads, made, start, progress, hashes>>

Garbage == 0   \* the bits of an uninitialised hash

\* With threads <= 0 the number of processors, be it larger than count.
NumThreads(asked, cnt) ==
    IF asked > cnt THEN cnt ELSE IF asked > 0 THEN asked ELSE Cpus

Rem(cnt, t) == cnt % t

\* Mutant of Off: the remainder is taken to last one thread longer.
OffGenerous(cnt, t, n) ==
    (cnt \div t) + (IF n <= Rem(cnt, t) THEN t - Rem(cnt, t) ELSE 0)

\* The length of slice n: for the first count % t slices the bottom of the
\* quotient is raised by t - count % t.
Off(cnt, t, n) ==
    (cnt \div t) + (IF n < Rem(cnt, t) THEN t - Rem(cnt, t) ELSE 0)

HashThreadsIdle ==
    /\ pcH = "idle"
    /\ size = 0
    /\ threads = 0
    /\ made = 0
    /\ start = <<>>
    /\ progress = <<>>
    /\ hashes = <<>>

\* The call: NULL without names, else the array of hashes is made.
CallHashes(cnt, asked) ==
    /\ pcH = "idle"
    /\ size' = cnt
    /\ IF cnt <= 0
       THEN pcH' = "none" /\ UNCHANGED threads
       ELSE pcH' = "create" /\ threads' = NumThreads(asked, cnt)
    /\ UNCHANGED <<made, start, progress, hashes>>

\* Where slice n begins: the sum of the slices before it.
Begin(n) == IF n = 0 THEN 0 ELSE start[n - 1] + Off(size, threads, n - 1)

\* Mutant of Create: start is not advanced.
CreateAtFront ==
    /\ pcH = "create"
    /\ made < threads
    /\ start' = [n \in 0..made |-> 0]
    /\ progress' = [n \in 0..made |-> IF n = made THEN 0 ELSE progress[n]]
    /\ made' = made + 1
    /\ UNCHANGED <<pcH, size, threads, hashes>>

\* A slice is filled in and its thread created.
Create ==
    /\ pcH = "create"
    /\ made < threads
    /\ start' = [n \in 0..made |-> IF n = made THEN Begin(n) ELSE start[n]]
    /\ progress' = [n \in 0..made |-> IF n = made THEN 0 ELSE progress[n]]
    /\ made' = made + 1
    /\ UNCHANGED <<pcH, size, threads, hashes>>

\* A thread has gone through its slice.
Finished(n) == progress[n] = Off(size, threads, n)

\* Mutant of Joined: the last thread is not waited for.
JoinedButOne ==
    /\ pcH = "create"
    /\ made = threads
    /\ \A n \in 0..(made - 2) : Finished(n)
    /\ pcH' = "hashed"
    /\ UNCHANGED <<size, threads, made, start, progress, hashes>>

\* All threads were created and have ended.
Joined ==
    /\ pcH = "create"
    /\ made = threads
    /\ \A n \in 0..(made - 1) : Finished(n)
    /\ pcH' = "hashed"
    /\ UNCHANGED <<size, threads, made, start, progress, hashes>>

Turn(n, value) ==
    LET i == start[n] + progress[n]
    IN /\ n < made
       /\ ~Finished(n)
       /\ IF i < size
          THEN /\ hashes' = [k \in DOMAIN hashes \cup {i} |->
                               IF k = i THEN value ELSE hashes[k]]
               /\ progress' = [progress EXCEPT ![n] = @ + 1]
               /\ UNCHANGED pcH
          ELSE /\ pcH' = "undefined"
               /\ UNCHANGED <<hashes, progress>>
       /\ UNCHANGED <<size, threads, made, start>>

\* One turn of thread n: that ph_dct_imagehash could not load the file is not
\* looked at, and what is in hash then is stored.
Hash(n, name, loaded) ==
    /\ pcH = "create"
    /\ Turn(n, IF loaded THEN name ELSE Garbage)

-----------------------------------------------------------------------------
\* The slices fit: the remainder is 0 or one less than the number of threads.
Fits(cnt, t) == Rem(cnt, t) \in {0, t - 1}

=============================================================================
