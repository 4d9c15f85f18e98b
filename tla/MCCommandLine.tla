---------------------------- MODULE MCCommandLine ----------------------------
(***************************************************************************)
(* Instances of CommandLine: all argument lists of up to HeapArgs          *)
(* arguments over the heap and index options and all of up to              *)
(* AppendOnlyArgs over the append-only ones.                               *)
(***************************************************************************)
EXTENDS CommandLine

CONSTANTS HeapArgs, AppendOnlyArgs

Blank == [kind |-> "word", flag |-> "", letters |-> <<>>, name |-> "",
          num |-> -1, types |-> FALSE, opens |-> FALSE, segment |-> 0]
Flag(f) == [Blank EXCEPT !.kind = "valued", !.flag = f]
Sw(letters) == [Blank EXCEPT !.kind = "switches", !.letters = letters]
Word(name) == [Blank EXCEPT !.name = name]
(* A number is also the name of a file that can be opened.                 *)
Number(k) == [Blank EXCEPT !.num = k, !.opens = TRUE, !.segment = 0]
Segment(k) == [Word("segment") EXCEPT !.opens = TRUE, !.segment = k]
Types == [Word("types") EXCEPT !.types = TRUE]

RelationWords ==
  {Flag("R"), Flag("S"), Flag("n"), Flag("s"), Flag("D"), Types, Number(0),
   Number(2), Segment(1), Sw(<<"x", "y">>), Sw(<<"k">>), Sw(<<"q", "b">>),
   Sw(<<"d">>), Sw(<<"h">>), Sw(<<"c", "f">>), Sw(<<"z">>), Sw(<<>>)}

AppendOnlyWords ==
  {Flag("T"), Flag("L"), Flag("O"), Sw(<<"z", "v", "M">>), Sw(<<"v">>),
   Word("none"), Word("zlib"), Word("row"), Word("column"), Number(4), Number(5),
   Number(15), Number(16)}

Lists(vocabulary, length) == UNION {[1..k -> vocabulary] : k \in 0..length}

MCArgLists ==
  Lists(RelationWords, HeapArgs) \cup Lists(AppendOnlyWords, AppendOnlyArgs)
MCCompressions == {"zlib"}
=============================================================================
