------------------------------- MODULE GetOpt -------------------------------
(***************************************************************************)
(* getopt (Tst/wingetopt.cpp), as the program calls it: the options are    *)
(* "sblrq:e:".  A word of the command line is a sequence of characters.    *)
(* args[i] is argv[i], so that argc is Len(args) + 1; the character        *)
(* argv[i][j] is args[i][j + 1].                                           *)
(*                                                                         *)
(* The scanner keeps its place between calls: sp, a static variable, is    *)
(* the place in the word argv[optind], 1 at its first letter.              *)
(***************************************************************************)
EXTENDS Integers, Sequences

Flags == {"s", "b", "l", "r"}
TakesArgument == {"q", "e"}

\* What getopt leaves behind: its result c, and optopt and optarg, which are
\* not initialised.
Scan0 == [optind |-> 1, sp |-> 1, optarg |-> <<>>, optopt |-> "unset", c |-> "unset"]

Dash(w) == w # <<>> /\ w[1] = "-"

\* Between two words, at something that is no option.
AtEnd(s, args) ==
    /\ s.sp = 1
    /\ \/ s.optind > Len(args)
       \/ ~Dash(args[s.optind])
       \/ Len(args[s.optind]) = 1

AtEndMark(s, args) == s.sp = 1 /\ args[s.optind] = <<"-", "-">>

Letter(s, args) == args[s.optind][s.sp + 1]

\* On to the next letter, or to the next word.
Forward(s, args) ==
    IF s.sp + 1 = Len(args[s.optind])
    THEN [s EXCEPT !.optind = @ + 1, !.sp = 1]
    ELSE [s EXCEPT !.sp = @ + 1]

\* Mutant of Argument: the place in the word is not reset.
ArgumentKeepingPlace(s, args) ==
    LET next == s.optind + 1
    IN IF next > Len(args) \/ Dash(args[next])
       THEN [s EXCEPT !.optind = next, !.c = "?"]
       ELSE [s EXCEPT !.optind = next + 1, !.optarg = args[next]]

\* Mutant of Argument: the rest of the word is the argument, if there is any.
ArgumentAttached(s, args) ==
    LET w == args[s.optind]
        next == s.optind + 1
    IN IF s.sp + 1 < Len(w)
       THEN [s EXCEPT !.optind = next, !.sp = 1,
                      !.optarg = SubSeq(w, s.sp + 2, Len(w))]
       ELSE IF next > Len(args) \/ Dash(args[next])
       THEN [s EXCEPT !.optind = next, !.sp = 1, !.c = "?"]
       ELSE [s EXCEPT !.optind = next + 1, !.sp = 1, !.optarg = args[next]]

\* The argument is the next word, whatever is left of this one; a word that
\* begins with a dash is none.
Argument(s, args) ==
    LET next == s.optind + 1
    IN IF next > Len(args) \/ Dash(args[next])
       THEN [s EXCEPT !.optind = next, !.sp = 1, !.c = "?"]
       ELSE [s EXCEPT !.optind = next + 1, !.sp = 1, !.optarg = args[next]]

GetOpt(s, args) ==
    IF AtEnd(s, args)
    THEN [s EXCEPT !.c = "EOF"]
    ELSE IF AtEndMark(s, args)
    THEN [s EXCEPT !.optind = @ + 1, !.c = "EOF"]
    ELSE LET c == Letter(s, args)
             taken == [s EXCEPT !.optopt = c, !.c = c]
         IN CASE c \in Flags -> [Forward(taken, args) EXCEPT !.optarg = <<>>]
              [] c \in TakesArgument -> Argument(taken, args)
              [] OTHER -> [Forward(taken, args) EXCEPT !.c = "?"]

-----------------------------------------------------------------------------
(* What a command line means, read word by word from `first' on.           *)

\* The letters of an option word that are looked at: up to the first that
\* takes an argument.
Looked(w) ==
    {k \in 2..Len(w) : \A j \in 2..(k - 1) : w[j] \notin TakesArgument}
Letters(w) == {w[k] : k \in Looked(w)}
IsOptionWord(w) == Dash(w) /\ Len(w) > 1 /\ w # <<"-", "-">>

\* The words that are read as options rather than as arguments: p is one if
\* all before it are options with their arguments.
OptionWords(args, first) ==
    LET read[p \in Int] ==
            /\ p \in first..Len(args)
            /\ IsOptionWord(args[p])
            /\ \/ p = first
               \/ read[p - 1] /\ Letters(args[p - 1]) \cap TakesArgument = {}
               \/ read[p - 2] /\ Letters(args[p - 2]) \cap TakesArgument # {}
    IN {p \in first..Len(args) : read[p]}

\* The option words whose argument is missing.
Deprived(args, words) ==
    {p \in words : /\ Letters(args[p]) \cap TakesArgument # {}
                   /\ p = Len(args) \/ Dash(args[p + 1])}

\* Everything is an option or an argument, a closing "--" aside.
Legal(args, first) ==
    LET words == OptionWords(args, first)
        arguments ==
            {p + 1 : p \in {q \in words :
                                Letters(args[q]) \cap TakesArgument # {}}}
        rest == (first..Len(args)) \ (words \cup arguments)
    IN /\ \A p \in words : Letters(args[p]) \subseteq Flags \cup TakesArgument
       /\ Deprived(args, words) = {}
       /\ \/ rest = {}
          \/ rest = {Len(args)} /\ args[Len(args)] = <<"-", "-">>

Given(args, first) == UNION {Letters(args[p]) : p \in OptionWords(args, first)}

\* The last argument given to an option; `default' if none is.
ArgumentOf(c, args, first, default) ==
    LET words == {p \in OptionWords(args, first) : c \in Letters(args[p])}
    IN IF words = {} THEN default
       ELSE args[(CHOOSE p \in words : \A q \in words : q <= p) + 1]

=============================================================================
