----------------------------- MODULE MCStartup ------------------------------
(***************************************************************************)
(* Instances of Startup: one process with any command line of few words,   *)
(* or three processes that look for a log at the same time.                *)
(***************************************************************************)
EXTENDS Startup

MCInstance == {"A", "B", "C"}
MCUnlucky == {"A"}

Dir == <<"p">>
Ok == <<"O", "K">>
Five == <<"5">>
Words ==
    {Dir, Ok, Five, <<"-">>, <<"-", "-">>, <<"-", "b">>, <<"-", "z">>,
     <<"-", "s", "r", "l">>, <<"-", "s", "q">>, <<"-", "q", "b">>,
     <<"-", "e">>, <<".", "j">>, <<"x", ".", "J", ";", ".", "p", ";">>, <<>>}

\* The program runs in C:\h, and the current directory of D: is D:\e.  In C:\h
\* are p and v.1, in p are a.1 and OK, in C:\ is p as well, and in D:\ and D:\e.
C == <<"C", ":">>
D == <<"D", ":">>
V1 == <<"v", ".", "1">>
A1 == <<"a", ".", "1">>
H == <<"h">>
E == <<"e">>
All == <<"*", ".", "*">>
MCCurrent == C :> <<C, H>> @@ D :> <<D, E>>
MCFolders ==
    {<<C>>, <<C, H>>, <<C, Dir>>, <<C, H, V1>>, <<C, H, Dir>>, <<C, H, Dir, A1>>,
     <<C, H, Dir, Ok>>, <<D>>, <<D, Dir>>, <<D, E>>, <<D, E, Dir>>}
MCWild == {All}

\* The words with a slash or a drive.
Part(drive, rooted, dir, last) ==
    [drive |-> drive, rooted |-> rooted, dir |-> dir, last |-> last]
MCParts ==
    <<"p", "\\">> :> Part(NoDrive, FALSE, <<Dir>>, <<>>)
    @@ <<"p", "\\", "v", ".", "1">> :> Part(NoDrive, FALSE, <<Dir>>, V1)
    @@ <<"p", "\\", "a", ".", "1">> :> Part(NoDrive, FALSE, <<Dir>>, A1)
    @@ <<"p", "\\", "o", "k">> :> Part(NoDrive, FALSE, <<Dir>>, <<"o", "k">>)
    @@ <<"\\", "p">> :> Part(NoDrive, TRUE, <<>>, Dir)
    @@ <<"C", ":", "p">> :> Part(C, FALSE, <<>>, Dir)
    @@ <<"D", ":", "p", "\\", "p">> :> Part(D, FALSE, <<Dir>>, Dir)
    @@ <<"D", ":", "\\", "p">> :> Part(D, TRUE, <<>>, Dir)
    @@ <<"C", ":", "\\", "h", "\\", "v", ".", "1">> :> Part(C, TRUE, <<H>>, V1)
MCBlocked == {<<"o", "k">>}
MCNumber == [w \in {Five} |-> 2]
MCLower == "J" :> "j" @@ "O" :> "o" @@ "K" :> "k"
MCExtension ==
    {<<>>, <<".", "j">>, <<".", "J">>, <<".", "p">>, <<".", "x">>, <<"j">>,
     <<".", "j", Semicolon, ".", "p">>}

\* Three words after a directory, or two after two, for a single process.
AnyLine ==
    {<<>>} \cup {<<d>> \o w : d \in {Dir, Ok}, w \in BoundedSeq(Words, 3)}
        \cup {<<Dir, Dir>> \o w : w \in [1..2 -> Words]}
Alone == {[i \in {"A"} |-> w] : w \in AnyLine}

\* Two processes and three, each with -b or without.
Together ==
    UNION {[S -> {<<Dir>>, <<Dir, <<"-", "b">>>>}] :
              S \in {MCInstance, {"A", "B"}}}

\* One directory or two, in every form.
Paths == DOMAIN MCParts \cup {Dir, Ok, V1, A1, All, <<>>}
OfPaths == {[i \in {"A"} |-> w] : w \in [1..1 -> Paths] \cup [1..2 -> Paths]}

MCWord == Words \cup Paths
MCLines == Alone \cup Together \cup OfPaths

=============================================================================
