----------------------------- MODULE CommandLine -----------------------------
(***************************************************************************)
(* ConsumeOptions and main (src/pg_filedump.c): the argument list is read  *)
(* left to right into option words, the words are masked, and main picks   *)
(* a buffer size and a dump function, or shows the usage text.             *)
(*                                                                         *)
(* args[1] is the first argument after the program name.  An argument is   *)
(* a record: "valued" (exactly -R, -S, -s, -D, -n, -T, -L or -O),          *)
(* "switches" (any other string that starts with '-', one letter each) or  *)
(* a "word".  What the program can find out about it is in its fields.     *)
(***************************************************************************)
EXTENDS Integers, Sequences

CONSTANTS
  ArgLists,        \* argument lists considered
  Compressions,    \* what the build supports beside "none"
  ControlFileSize, \* sizeof(ControlFileData)
  AppendOnlySize,  \* DEFAULT_APPENDONLY_BLOCK_SIZE
  BlockZeroSize    \* what GetBlockSize answers

ValuedFlags == {"R", "S", "s", "D", "n", "T", "L", "O"}

(* "num" is GetOptionValue (-1: not all digits), "types" whether           *)
(* ParseAttributeTypesString takes it, "opens" whether fopen does,         *)
(* "segment" GetSegmentNumberFromFileName.                                 *)
Arg == [kind : {"valued", "switches", "word"}, flag : ValuedFlags \cup {""},
        letters : Seq(STRING), name : STRING, num : Nat \cup {-1},
        types : BOOLEAN, opens : BOOLEAN, segment : Nat]

IsArg(a) ==
  /\ a \in Arg
  /\ a.kind = "valued" <=> a.flag # ""
  /\ a.kind # "word" => a.num = -1

ASSUME ArgListsAssumption ==
  \A list \in ArgLists : list \in Seq(Arg) /\ \A i \in 1..Len(list) : IsArg(list[i])
ASSUME SizesAssumption ==
  /\ ControlFileSize \in Nat
  /\ AppendOnlySize \in Nat
  /\ BlockZeroSize \in Nat
ASSUME CompressionsAssumption == Compressions \subseteq {"zlib", "quicklz", "zstd"}

(* The option words and the switches each holds.                           *)
Words == {"block", "item", "control", "gpdb", "segment", "verbose"}
SwitchWord ==
  [c \in {"a", "b", "c", "d", "f", "i", "k", "o", "t", "v", "x", "y", "M", "z"} |->
     IF c \in {"i", "x", "y"} THEN "item"
     ELSE IF c = "c" THEN "control"
     ELSE IF c \in {"M", "z"} THEN "gpdb"
     ELSE IF c = "v" THEN "verbose" ELSE "block"]
FlagWord ==
  [f \in {"R", "S", "s", "D", "n"} |->
     IF f \in {"s", "n"} THEN "segment" ELSE "block"]
Letters == DOMAIN SwitchWord \cup DOMAIN FlagWord

LevelMax == 15     \* GPDB_COMPRESS_LEVEL_MAX: the field has 4 bits

VARIABLES
  args,            \* the arguments
  pc,              \* where ConsumeOptions or main stands
  x,               \* number of the argument looked at
  y,               \* number of the switch looked at in a switches argument
  rc,              \* the option return code
  options,         \* blockOptions, itemOptions, ...: word -> letters set
  blockStart,      \* -R
  blockEnd,
  blockSize,       \* -S, then the size of the buffer
  segmentNumber,   \* -n, else from the file name
  compressType,    \* -T
  compressLevel,   \* -L
  orientation,     \* -O
  fileOpen,        \* fp
  exitCode,
  dump             \* the dump function main has called

range  == <<blockStart, blockEnd>>
fields == <<compressType, compressLevel, orientation>>
vars == <<args, pc, x, y, rc, options, range, blockSize, segmentNumber,
          fields, fileOpen, exitCode, dump>>

n == Len(args)

Init ==
  /\ args \in ArgLists
  /\ pc = IF n = 0 THEN "dispatch" ELSE "next"
  /\ rc = IF n = 0 THEN "copyright" ELSE "valid"
  /\ x = 1
  /\ y = 1
  /\ options = [w \in Words |-> {}]
  /\ blockStart = -1
  /\ blockEnd = -1
  /\ blockSize = 0
  /\ segmentNumber = 0
  /\ compressType = "none"
  /\ compressLevel = 0
  /\ orientation = "row"
  /\ fileOpen = FALSE
  /\ exitCode = 0
  /\ dump = "none"

(* Leave the argument loop with a return code; "told" says whether the     *)
(* place also sets exitCode.                                               *)
Refuse(code, told) ==
  /\ rc' = code
  /\ exitCode' = IF told THEN 1 ELSE exitCode
  /\ pc' = "check"

(* SET_OPTION: a bit already set is a duplicate.                           *)
\* Variant: a repeated option is let pass.
SetOptionAgain(w, c) ==
  /\ options' = [options EXCEPT ![w] = @ \cup {c}]
  /\ UNCHANGED rc

SetOption(w, c) ==
  IF c \in options[w]
    THEN rc' = "duplicate" /\ UNCHANGED options
    ELSE options' = [options EXCEPT ![w] = @ \cup {c}] /\ UNCHANGED rc

(***************************************************************************)
(* Options with a value                                                    *)
(***************************************************************************)

AtFlag(f) ==
  /\ pc = "next" /\ x <= n
  /\ args[x].kind = "valued" /\ args[x].flag = f

(* "Only accept the option once": a bit set earlier, or a duplicate met    *)
(* before that has not ended the loop.                                     *)
Repeated(f) ==
  \/ rc = "duplicate"
  \/ f \in DOMAIN FlagWord /\ f \in options[FlagWord[f]]

(* The bit of -R, -S, -s, -D and -n is set before anything else.           *)
MarkFlag(f) ==
  options' = IF f \in DOMAIN FlagWord
               THEN [options EXCEPT ![FlagWord[f]] = @ \cup {f}]
               ELSE options

\* Variant: the value may be the last argument.
MissingLate == x >= n

(* The last argument is the file, so the value must come before it.        *)
Missing == x >= n - 1

Value == args[x + 1]

(* GPDB_COMPRESS_LEVEL_MAX bounds the level.                               *)
\* Variant: any positive level is taken.
ValueOKAnyLevel(f) ==
  \/ f = "R" /\ Value.num >= 0
  \/ f \in {"S", "s", "n", "L"} /\ Value.num > 0
  \/ f = "D" /\ Value.types
  \/ f = "T" /\ Value.name \in Compressions \cup {"none"}
  \/ f = "O" /\ Value.name \in {"row", "column"}

ValueOK(f) ==
  \/ f = "R" /\ Value.num >= 0
  \/ f \in {"S", "s", "n"} /\ Value.num > 0
  \/ f = "L" /\ Value.num > 0 /\ Value.num <= LevelMax
  \/ f = "D" /\ Value.types
  \/ f = "T" /\ Value.name \in Compressions \cup {"none"}
  \/ f = "O" /\ Value.name \in {"row", "column"}

FlagRepeated(f) ==
  /\ AtFlag(f)
  /\ Repeated(f)
  /\ MarkFlag(f)
  /\ Refuse("duplicate", FALSE)
  /\ UNCHANGED <<args, x, y, range, blockSize, segmentNumber, fields, fileOpen,
                 dump>>

(* -S, -T, -L and -O report a missing value without setting exitCode.      *)
ValueMissing(f) ==
  /\ AtFlag(f)
  /\ ~Repeated(f)
  /\ MarkFlag(f)
  /\ Missing
  /\ Refuse("invalid", f \in {"R", "s", "D", "n"})
  /\ UNCHANGED <<args, x, y, range, blockSize, segmentNumber, fields, fileOpen,
                 dump>>

(* So do -T, -L and -O with a value they do not know.                      *)
ValueRefused(f) ==
  /\ AtFlag(f)
  /\ ~Repeated(f)
  /\ MarkFlag(f)
  /\ ~Missing
  /\ ~ValueOK(f)
  /\ x' = x + 1
  /\ Refuse("invalid", f \in DOMAIN FlagWord)
  /\ UNCHANGED <<args, y, range, blockSize, segmentNumber, fields, fileOpen, dump>>

TakeValue(f) ==
  /\ AtFlag(f)
  /\ ~Repeated(f)
  /\ MarkFlag(f)
  /\ ~Missing
  /\ ValueOK(f)

(* A second number before the file ends the range.                         *)
HasEnd == x + 2 < n /\ args[x + 2].num >= 0

RangeEndOK == HasEnd => Value.num <= args[x + 2].num

RangeOption ==
  /\ TakeValue("R")
  /\ blockStart' = Value.num
  /\ IF RangeEndOK
       THEN /\ blockEnd' = IF HasEnd THEN args[x + 2].num ELSE Value.num
            /\ x' = x + (IF HasEnd THEN 3 ELSE 2)
            /\ UNCHANGED <<pc, rc, exitCode>>
       ELSE /\ blockEnd' = Value.num
            /\ x' = x + 1
            /\ Refuse("invalid", TRUE)
  /\ UNCHANGED <<args, y, blockSize, segmentNumber, fields, fileOpen, dump>>

BlockSizeOption ==
  /\ TakeValue("S")
  /\ blockSize' = Value.num
  /\ x' = x + 2
  /\ UNCHANGED <<args, pc, y, rc, range, segmentNumber, fields, fileOpen,
                 exitCode, dump>>

(* -s sets segmentSize, -D the attribute decoders.                         *)
SegmentSizeOrDecodeOption ==
  /\ TakeValue("s") \/ TakeValue("D")
  /\ x' = x + 2
  /\ UNCHANGED <<args, pc, y, rc, range, blockSize, segmentNumber, fields,
                 fileOpen, exitCode, dump>>

SegmentNumberOption ==
  /\ TakeValue("n")
  /\ segmentNumber' = Value.num
  /\ x' = x + 2
  /\ UNCHANGED <<args, pc, y, rc, range, blockSize, fields, fileOpen, exitCode,
                 dump>>

(* GPDB_SET_OPTION: a field that is not 0 is a duplicate; "none" is 0 for  *)
(* the compression and "row" is 0 for the orientation.  The loop goes on.  *)
CompressTypeOption ==
  /\ TakeValue("T")
  /\ IF compressType # "none"
       THEN rc' = "duplicate" /\ UNCHANGED compressType
       ELSE compressType' = Value.name /\ UNCHANGED rc
  /\ x' = x + 2
  /\ UNCHANGED <<args, pc, y, range, blockSize, segmentNumber, compressLevel,
                 orientation, fileOpen, exitCode, dump>>

CompressLevelOption ==
  /\ TakeValue("L")
  /\ IF compressLevel # 0
       THEN rc' = "duplicate" /\ UNCHANGED compressLevel
       ELSE compressLevel' = Value.num /\ UNCHANGED rc
  /\ x' = x + 2
  /\ UNCHANGED <<args, pc, y, range, blockSize, segmentNumber, compressType,
                 orientation, fileOpen, exitCode, dump>>

OrientationOption ==
  /\ TakeValue("O")
  /\ IF orientation # "row"
       THEN rc' = "duplicate" /\ UNCHANGED orientation
       ELSE orientation' = Value.name /\ UNCHANGED rc
  /\ x' = x + 2
  /\ UNCHANGED <<args, pc, y, range, blockSize, segmentNumber, compressType,
                 compressLevel, fileOpen, exitCode, dump>>

(***************************************************************************)
(* The file name, switches and stray words                                 *)
(***************************************************************************)

\* Variant: the file name decides the segment number, -n or not.
FileNameWins ==
  /\ pc = "next" /\ x = n
  /\ args[x].kind = "word"
  /\ args[x].opens
  /\ fileOpen' = TRUE
  /\ segmentNumber' = args[x].segment
  /\ x' = x + 1
  /\ UNCHANGED <<args, pc, y, rc, options, range, blockSize, fields, exitCode,
                 dump>>

FileName ==
  /\ pc = "next" /\ x = n
  /\ args[x].kind = "word"
  /\ args[x].opens
  /\ fileOpen' = TRUE
  /\ segmentNumber' = IF "n" \in options["segment"] THEN segmentNumber
                      ELSE args[x].segment
  /\ x' = x + 1
  /\ UNCHANGED <<args, pc, y, rc, options, range, blockSize, fields, exitCode,
                 dump>>

(* The last argument does not open, or is no file name at all; a last -h   *)
(* asks for the usage text.                                                *)
NoFile ==
  /\ pc = "next" /\ x = n
  /\ \/ args[x].kind = "word" /\ ~args[x].opens /\ Refuse("file", TRUE)
     \/ args[x].kind = "switches" /\ args[x].letters # <<"h">>
        /\ Refuse("file", TRUE)
     \/ args[x].kind = "switches" /\ args[x].letters = <<"h">>
        /\ Refuse("copyright", FALSE)
  /\ UNCHANGED <<args, x, y, options, range, blockSize, segmentNumber, fields,
                 fileOpen, dump>>

StrayWord ==
  /\ pc = "next" /\ x < n
  /\ args[x].kind = "word"
  /\ Refuse("invalid", TRUE)
  /\ UNCHANGED <<args, x, y, options, range, blockSize, segmentNumber, fields,
                 fileOpen, dump>>

Switches ==
  /\ pc = "next" /\ x < n
  /\ args[x].kind = "switches"
  /\ y' = 1
  /\ IF args[x].letters = <<>>
       THEN x' = x + 1 /\ UNCHANGED pc
       ELSE pc' = "switch" /\ UNCHANGED x
  /\ UNCHANGED <<args, rc, options, range, blockSize, segmentNumber, fields,
                 fileOpen, exitCode, dump>>

(* After each switch the inner loop ends if anything is wrong by now: the  *)
(* rest of this argument is dropped, the following arguments are not.      *)
AfterSwitch ==
  IF rc' # "valid" \/ y = Len(args[x].letters)
    THEN pc' = "next" /\ x' = x + 1 /\ UNCHANGED y
    ELSE y' = y + 1 /\ UNCHANGED <<pc, x>>

Other == [c \in {"x", "y"} |-> IF c = "x" THEN "y" ELSE "x"]

SetSwitch(c) ==
  IF c \in {"x", "y"} /\ Other[c] \in options["item"]
    THEN /\ options' = [options EXCEPT !["item"] = @ \cup {c}]
         /\ rc' = "invalid"
         /\ exitCode' = 1
    ELSE SetOption(SwitchWord[c], c) /\ UNCHANGED exitCode

Switch ==
  /\ pc = "switch"
  /\ LET c == args[x].letters[y]
     IN \/ /\ c \in DOMAIN SwitchWord \ {"v"}
           /\ SetSwitch(c)
        \/ /\ c = "v"
           /\ options' = [options EXCEPT !["verbose"] = {"v"}]
           /\ UNCHANGED <<rc, exitCode>>
        \/ /\ c = "h"
           /\ rc' = "copyright"
           /\ UNCHANGED <<options, exitCode>>
        \/ /\ c \notin DOMAIN SwitchWord \cup {"h"}
           /\ rc' = "invalid"
           /\ exitCode' = 1
           /\ UNCHANGED options
  /\ AfterSwitch
  /\ UNCHANGED <<args, range, blockSize, segmentNumber, fields, fileOpen, dump>>

ArgumentsDone ==
  /\ pc = "next" /\ x > n
  /\ pc' = "check"
  /\ UNCHANGED <<args, x, y, rc, options, range, blockSize, segmentNumber,
                 fields, fileOpen, exitCode, dump>>

(***************************************************************************)
(* After the loop                                                          *)
(***************************************************************************)

ControlRefused ==
  /\ options["control"] # {}
  /\ \/ options["block"] \ {"f", "S"} # {}
     \/ options["item"] # {}

(* What is left of the option words in each mode.                          *)
Masked ==
  IF options["control"] # {}
    THEN [options EXCEPT !["control"] = @ \cup options["block"],
                         !["block"] = {}, !["item"] = {}]
  ELSE IF "z" \in options["gpdb"]
    THEN [options EXCEPT !["block"] = @ \cap {"k"}, !["item"] = {}]
  ELSE IF "b" \in options["block"]
    THEN [options EXCEPT !["block"] = @ \cap {"b", "R", "S"}, !["item"] = {}]
  ELSE IF "d" \in options["block"]
    THEN [options EXCEPT !["block"] = @ \cap {"d", "a", "R", "S"},
                         !["item"] = {}]
  ELSE options

Check ==
  /\ pc = "check"
  /\ pc' = "dispatch"
  /\ IF rc = "valid" /\ ~ControlRefused
       THEN options' = Masked /\ UNCHANGED <<rc, exitCode>>
       ELSE /\ rc' = IF rc = "valid" THEN "invalid" ELSE rc
            /\ exitCode' = IF rc \in {"valid", "duplicate"} THEN 1 ELSE exitCode
            /\ UNCHANGED options
  /\ UNCHANGED <<args, x, y, range, blockSize, segmentNumber, fields, fileOpen,
                 dump>>

(* main: DisplayOptions, or size the buffer and dump the file.  What the   *)
(* dump function returns becomes the exit code.                            *)
Usage ==
  /\ pc = "dispatch"
  /\ rc # "valid"
  /\ pc' = "exit"
  /\ UNCHANGED <<args, x, y, rc, options, range, blockSize, segmentNumber,
                 fields, fileOpen, exitCode, dump>>

Dispatch ==
  /\ pc = "dispatch"
  /\ rc = "valid"
  /\ pc' = "exit"
  /\ blockSize' =
       IF options["control"] # {}
         THEN IF "S" \in options["control"] THEN blockSize ELSE ControlFileSize
       ELSE IF "z" \in options["gpdb"] THEN AppendOnlySize
       ELSE IF "S" \in options["block"] THEN blockSize ELSE BlockZeroSize
  /\ dump' = IF "z" \in options["gpdb"] THEN "appendOnly"
             ELSE IF options["control"] # {} THEN "control" ELSE "relation"
  /\ exitCode' \in {0, 1}
  /\ UNCHANGED <<args, x, y, rc, options, range, segmentNumber, fields,
                 fileOpen>>

Exited ==
  /\ pc = "exit"
  /\ UNCHANGED vars

Next ==
  \/ \E f \in ValuedFlags : FlagRepeated(f) \/ ValueMissing(f) \/ ValueRefused(f)
  \/ RangeOption \/ BlockSizeOption \/ SegmentSizeOrDecodeOption
  \/ SegmentNumberOption \/ CompressTypeOption \/ CompressLevelOption
  \/ OrientationOption
  \/ FileName \/ NoFile \/ StrayWord \/ Switches \/ Switch
  \/ ArgumentsDone \/ Check \/ Usage \/ Dispatch \/ Exited

Spec == Init /\ [][Next]_vars
(***************************************************************************)
(* Properties                                                              *)
(***************************************************************************)

(* Every variable keeps its type: the level fits its 4 bits, the loop      *)
(* never runs past the arguments.                                          *)
TypeOK ==
  /\ args \in Seq(Arg)
  /\ pc \in {"next", "switch", "check", "dispatch", "exit"}
  /\ x \in 1..(n + 1)
  /\ y \in Nat \ {0}
  /\ rc \in {"valid", "invalid", "file", "duplicate", "copyright"}
  /\ options \in [Words -> SUBSET Letters]
  /\ blockStart \in Nat \cup {-1}
  /\ blockEnd \in Nat \cup {-1}
  /\ blockSize \in Nat
  /\ segmentNumber \in Nat
  /\ compressType \in Compressions \cup {"none"}
  /\ compressLevel \in 0..LevelMax
  /\ orientation \in {"row", "column"}
  /\ fileOpen \in BOOLEAN
  /\ exitCode \in {0, 1}
  /\ dump \in {"none", "relation", "control", "appendOnly"}

(* A dump function is never entered without an open file, the last         *)
(* argument, nor with a range that is not one: no option takes the file    *)
(* for its value, no error is forgotten before the end.                    *)
DumpReady ==
  pc = "dispatch" /\ rc = "valid" =>
    /\ fileOpen
    /\ args[n].kind = "word" /\ args[n].opens
    /\ "R" \in options["block"] => 0 <= blockStart /\ blockStart <= blockEnd

(* The grammar of the command line, stated on the whole list.  An option   *)
(* starts at argument 1 and where the one before it ends.                  *)
Width(j) ==
  IF args[j].kind # "valued" THEN 1
  ELSE IF args[j].flag = "R" /\ j + 2 < n /\ args[j + 2].num >= 0 THEN 3 ELSE 2

Starts ==
  LET start[j \in 1..n] ==
        j = 1 \/ \E i \in 1..(j - 1) : start[i] /\ i + Width(i) = j
  IN {j \in 1..n : start[j]}

(* The places where one thing is said, the name of an option or a letter   *)
(* of a group, and where each letter is given.                             *)
Places ==
  UNION {{j} \X (IF args[j].kind = "switches" THEN 1..Len(args[j].letters) ELSE {0}) :
           j \in Starts}
LetterAt(p) == IF p[2] = 0 THEN args[p[1]].flag ELSE args[p[1]].letters[p[2]]
Given(c) == {p \in Places : LetterAt(p) = c}
IsGiven(c) == Given(c) # {}

(* "Compression level (1-4)" in the usage text; the field holds more.      *)
LevelNamed == 4

GoodValue(j) ==
  LET v == args[j + 1]
  IN CASE args[j].flag = "R" -> v.num >= 0 /\ (Width(j) = 3 => v.num <= args[j + 2].num)
       [] args[j].flag = "D" -> v.types
       [] args[j].flag = "T" -> v.name \in Compressions \cup {"none"}
       [] args[j].flag = "O" -> v.name \in {"row", "column"}
       [] args[j].flag = "L" -> v.num \in 1..LevelNamed
       [] OTHER -> v.num > 0

AllOptions == Letters \cup {"T", "L", "O"}

(* The line as the usage text and the comments have it: known options with *)
(* good values and the file at the end, each option once, -x without -y,   *)
(* and "Only options <Sf> may be used with <c>".                           *)
WellFormed ==
  /\ n \in Starts
  /\ args[n].kind = "word" /\ args[n].opens
  /\ \A j \in Starts \ {n} :
       /\ args[j].kind # "word"
       /\ args[j].kind = "valued" => j + 2 <= n /\ GoodValue(j)
       /\ args[j].kind = "switches" =>
            \A k \in 1..Len(args[j].letters) :
              args[j].letters[k] \in DOMAIN SwitchWord
  /\ \A c \in AllOptions : \A p, q \in Given(c) : p = q
  /\ ~(IsGiven("x") /\ IsGiven("y"))
  /\ IsGiven("c") => \A c \in AllOptions : IsGiven(c) => c \in {"c", "f", "S"}

(* What the code lets pass nevertheless: an option that is repeated and    *)
(* leaves no trace the first time (-v, -T none, -O row),                   *)
RepeatUnseen ==
  \/ \E p, q \in Given("v") : p # q
  \/ \E i, j \in Starts :
       /\ i < j /\ args[i].flag = args[j].flag
       /\ \/ args[i].flag = "T" /\ args[i + 1].name = "none"
          \/ args[i].flag = "O" /\ args[i + 1].name = "row"

(* a level above those the usage text names,                               *)
HighLevel ==
  \E j \in Starts :
    args[j].flag = "L" /\ args[j + 1].num \in (LevelNamed + 1)..LevelMax

(* and, beside -c, the options kept in other words than those it looks at. *)
ControlWithOthers ==
  IsGiven("c") /\ \E c \in {"M", "z", "v", "s", "n", "T", "L", "O"} : IsGiven(c)

(* ConsumeOptions accepts every well-formed line, and no other but for the *)
(* three departures, although it goes on after some errors and drops the   *)
(* rest of an argument after others.                                       *)
AcceptsGrammar ==
  pc = "dispatch" =>
    /\ n > 0 /\ WellFormed => rc = "valid"
    /\ rc = "valid" => /\ n > 0
                       /\ \/ WellFormed
                          \/ RepeatUnseen \/ HighLevel \/ ControlWithOthers

(* The values in force are those the line gives, -n before the file name.  *)
ReadAsGiven ==
  pc = "dispatch" /\ rc = "valid" =>
    /\ \A j \in Starts :
         /\ args[j].flag = "R" => /\ blockStart = args[j + 1].num
                                  /\ blockEnd = args[j + Width(j) - 1].num
         /\ args[j].flag = "S" => blockSize = args[j + 1].num
         /\ args[j].flag = "n" => segmentNumber = args[j + 1].num
         /\ args[j].flag = "L" => compressLevel = args[j + 1].num
    /\ ~IsGiven("n") => segmentNumber = args[n].segment
    /\ orientation = "column" <=>
         \E j \in Starts : args[j].flag = "O" /\ args[j + 1].name = "column"
=============================================================================
