---------------------------- MODULE MCDedupList -----------------------------
(***************************************************************************)
(* Instances of DedupList.  Hashes are two-bit numbers and eQuality is 1:  *)
(* 0-1, 1-3, 3-2 and 2-0 are near, 0-3 and 1-2 are not, so that similarity *)
(* is not transitive.                                                      *)
(***************************************************************************)
EXTENDS DedupList

MCHash == 0..3
Bits(x) == {b \in {1, 2} : (x \div b) % 2 = 1}
MCNear ==
    {<<x, y>> \in MCHash \X MCHash :
        Cardinality((Bits(x) \cup Bits(y)) \ (Bits(x) \cap Bits(y))) <= 1}

MCPic == {1}
MCCode == [k \in MCPic \X Turn |-> 1]

Img(hash, rot, dims, size) ==
    [iHash |-> hash, ImageCanBeRotated |-> rot,
     iWidth |-> dims[1], iHeight |-> dims[2], fSize |-> size, fDate |-> 1]

Plain(h) == [i \in Turn |-> IF i = 0 THEN h ELSE 0]

MCFile == 1..4
InListOrder == [i \in MCFile |-> i]

\* Equal dimensions and dimensions each of which is smaller one way; sizes
\* differ where -s matters.
PlainImages ==
    {Img(Plain(h), FALSE, d[1], d[2]) :
        h \in {0, 1, 3},
        d \in {<<<<2, 2>>, 1>>, <<<<2, 2>>, 2>>, <<<<1, 3>>, 1>>}}
\* Exchanging the hashes 0 and 3 changes no similarity, so one of each two
\* lists is enough: the first hash other than 1 is 0.
ZeroFirst(f) ==
    \A p \in MCFile : f[p].iHash[0] = 3 => \E q \in 1..p : f[q].iHash[0] = 0
PlainInputs ==
    [list : {InListOrder}, img : {f \in [MCFile -> PlainImages] : ZeroFirst(f)}]

\* Records made with and without -r side by side; without it only the first
\* hash was computed.  The fourth shares the flag of the third.
MixedHashes(rot) ==
    IF rot THEN {<<1, 0, 0, 0>>, <<3, 1, 1, 1>>, <<2, 2, 3, 2>>}
           ELSE {<<1, 0, 0, 0>>, <<3, 0, 0, 0>>}
MixedImages ==
    UNION {{Img([i \in Turn |-> h[i + 1]], rot, d, 1) :
               h \in MixedHashes(rot), d \in {<<1, 1>>, <<2, 1>>}} :
           rot \in BOOLEAN}
WithFourth(f) ==
    [i \in MCFile |->
        IF i < 4 THEN f[i]
        ELSE LET rot == f[3].ImageCanBeRotated
                 h == [t \in Turn |-> IF t > 0 /\ rot THEN 3 ELSE 0]
             IN Img(h, rot, <<2, 1>>, 2)]
MixedInputs ==
    [list : {InListOrder}, img : {WithFourth(f) : f \in [1..3 -> MixedImages]}]

MCInputs == PlainInputs \cup MixedInputs

=============================================================================
