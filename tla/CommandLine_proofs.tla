------------------------- MODULE CommandLine_proofs -------------------------
(***************************************************************************)
(* Proofs about CommandLine for every argument list.                       *)
(***************************************************************************)
EXTENDS CommandLine, Recursion, TLAPS

(* The last argument was a file and has been opened.                       *)
FileRead ==
  /\ n >= 1
  /\ fileOpen
  /\ args[n].kind = "word" /\ args[n].opens

(* The strengthening: while nothing is wrong, the loop can pass the last   *)
(* argument only by opening it, and a -R that was marked has its range.    *)
Clean ==
  rc = "valid" =>
    /\ pc \in {"check", "dispatch"} \/ (pc = "next" /\ x > n) => FileRead
    /\ "R" \in options["block"] => 0 <= blockStart /\ blockStart <= blockEnd

IInv ==
  /\ TypeOK
  /\ pc = "switch" => x < n
  /\ Clean

(* The words the letters belong to.                                        *)
LEMMA WordsOfLetters ==
  /\ \A f \in DOMAIN FlagWord : FlagWord[f] \in Words /\ f \in Letters
  /\ \A c \in DOMAIN SwitchWord : SwitchWord[c] \in Words /\ c \in Letters
  /\ DOMAIN FlagWord = {"R", "S", "s", "D", "n"}
  BY DEF FlagWord, SwitchWord, Words, Letters

(* The length of the argument list is a number, and x stays within it.     *)
LEMMA Bounds ==
  ASSUME TypeOK
  PROVE  n \in Nat /\ x \in 1..(n + 1)
  BY DEF TypeOK, n

(* Marking a flag keeps the option words' type.                            *)
LEMMA MarkType ==
  ASSUME TypeOK, NEW f \in ValuedFlags, MarkFlag(f)
  PROVE  /\ options' \in [Words -> SUBSET Letters]
         /\ f # "R" => ("R" \in options'["block"] => "R" \in options["block"])
<1>1. options \in [Words -> SUBSET Letters] /\ "block" \in Words
  BY DEF TypeOK, Words
<1>2. CASE f \in DOMAIN FlagWord
  <2>1. options' = [options EXCEPT ![FlagWord[f]] = @ \cup {f}]
    BY <1>2 DEF MarkFlag
  <2>2. FlagWord[f] \in Words /\ f \in Letters
    BY <1>2, WordsOfLetters
  <2> QED
    BY <1>1, <2>1, <2>2
<1>3. CASE f \notin DOMAIN FlagWord
  BY <1>1, <1>3 DEF MarkFlag
<1> QED
  BY <1>2, <1>3

(* The argument after a flag that has a value is an argument.              *)
LEMMA ValueType ==
  ASSUME TypeOK, x <= n, ~Missing
  PROVE  Value \in Arg /\ Value.num \in Nat \cup {-1} /\ x + 2 <= n
<1>1. n \in Nat /\ x \in 1..(n + 1) /\ args \in Seq(Arg) /\ n = Len(args)
  BY Bounds DEF TypeOK, n
<1>2. x + 1 \in 1..n
  BY <1>1 DEF Missing
<1>3. Value \in Arg
  BY <1>1, <1>2 DEF Value
<1>4. Value.num \in Nat \cup {-1}
  BY <1>3 DEF Arg
<1>5. x + 2 <= n
  BY <1>1 DEF Missing
<1> QED
  BY <1>3, <1>4, <1>5

(* The initial state.                                                      *)
LEMMA InitIInv == Init => IInv
<1> SUFFICES ASSUME Init PROVE IInv
  OBVIOUS
<1>1. args \in Seq(Arg) /\ n \in Nat
  BY ArgListsAssumption DEF Init, n
<1>2. TypeOK
  <2>1. x \in 1..(n + 1) /\ y \in Nat \ {0} /\ compressLevel \in 0..LevelMax
        /\ blockSize \in Nat /\ segmentNumber \in Nat /\ exitCode \in {0, 1}
        /\ blockStart \in Nat \cup {-1} /\ blockEnd \in Nat \cup {-1}
    BY <1>1 DEF Init, LevelMax
  <2>2. options \in [Words -> SUBSET Letters]
    BY DEF Init
  <2>3. /\ pc \in {"next", "switch", "check", "dispatch", "exit"}
        /\ rc \in {"valid", "invalid", "file", "duplicate", "copyright"}
        /\ compressType \in Compressions \cup {"none"}
        /\ orientation \in {"row", "column"}
        /\ dump \in {"none", "relation", "control", "appendOnly"}
    BY DEF Init
  <2>4. fileOpen \in BOOLEAN
    BY DEF Init
  <2> QED
    BY <1>1, <2>1, <2>2, <2>3, <2>4 DEF TypeOK
<1>3. Clean
  BY <1>1 DEF Init, Clean, Words
<1> QED
  BY <1>2, <1>3 DEF Init, IInv

(* Leaving the loop with an error keeps the invariant, whatever has been   *)
(* marked.                                                                 *)
LEMMA RefusalKeeps ==
  ASSUME IInv, NEW code \in {"invalid", "file", "duplicate", "copyright"},
         NEW told \in BOOLEAN, Refuse(code, told),
         options' \in [Words -> SUBSET Letters], x' \in 1..(n + 1),
         blockStart' \in Nat \cup {-1}, blockEnd' \in Nat \cup {-1},
         UNCHANGED <<args, y, blockSize, segmentNumber, fields, fileOpen, dump>>
  PROVE  IInv'
<1>1. exitCode' \in {0, 1} /\ rc' = code /\ pc' = "check"
  BY DEF Refuse, IInv, TypeOK
<1>2. n' = n
  BY DEF n
<1>3. TypeOK'
  BY <1>1, <1>2 DEF IInv, TypeOK, fields
<1> QED
  BY <1>1, <1>3 DEF IInv, Clean

(* Going on with a later argument keeps it as long as the file has not     *)
(* been passed over.                                                       *)
LEMMA OnwardKeeps ==
  ASSUME IInv, pc = "next", pc' = "next", UNCHANGED <<args, y, exitCode, dump>>,
         x' \in 1..n,
         rc' \in {"valid", "invalid", "file", "duplicate", "copyright"},
         options' \in [Words -> SUBSET Letters],
         rc' = "valid" => rc = "valid",
         "R" \in options'["block"] =>
           "R" \in options["block"] /\ UNCHANGED range,
         blockStart' \in Nat \cup {-1}, blockEnd' \in Nat \cup {-1},
         blockSize' \in Nat, segmentNumber' \in Nat, fileOpen' \in BOOLEAN,
         compressType' \in Compressions \cup {"none"},
         compressLevel' \in 0..LevelMax, orientation' \in {"row", "column"}
  PROVE  IInv'
<1>1. n' = n /\ n \in Nat
  BY Bounds DEF n, IInv
<1>2. TypeOK'
  BY <1>1 DEF IInv, TypeOK
<1>3. Clean'
  BY <1>1 DEF IInv, Clean, range
<1> QED
  BY <1>2, <1>3 DEF IInv

(* Errors of an option with a value.                                       *)
LEMMA FlagErrorKeeps ==
  ASSUME IInv, NEW f \in ValuedFlags,
         FlagRepeated(f) \/ ValueMissing(f) \/ ValueRefused(f)
  PROVE  IInv'
<1>1. TypeOK /\ n \in Nat /\ x \in 1..(n + 1) /\ x <= n
  BY Bounds DEF IInv, FlagRepeated, ValueMissing, ValueRefused, AtFlag
<1>2. options' \in [Words -> SUBSET Letters]
  BY <1>1, MarkType DEF FlagRepeated, ValueMissing, ValueRefused
<1>3. UNCHANGED <<args, y, range, blockSize, segmentNumber, fields, fileOpen,
                  dump>>
  BY DEF FlagRepeated, ValueMissing, ValueRefused
<1>4. blockStart' \in Nat \cup {-1} /\ blockEnd' \in Nat \cup {-1}
  BY <1>1, <1>3 DEF TypeOK, range
<1>5. CASE FlagRepeated(f)
  <2>1. Refuse("duplicate", FALSE) /\ x' = x
    BY <1>5 DEF FlagRepeated
  <2>2. x' \in 1..(n + 1)
    BY <1>1, <2>1
  <2> QED
    BY <1>2, <1>3, <1>4, <2>1, <2>2, RefusalKeeps
<1>6. CASE ValueMissing(f)
  <2> DEFINE told == f \in {"R", "s", "D", "n"}
  <2>1. Refuse("invalid", told) /\ x' = x
    BY <1>6 DEF ValueMissing
  <2>2. x' \in 1..(n + 1)
    BY <1>1, <2>1
  <2>3. told \in BOOLEAN
    OBVIOUS
  <2> QED
    BY <1>2, <1>3, <1>4, <2>1, <2>2, <2>3, RefusalKeeps
<1>7. CASE ValueRefused(f)
  <2> DEFINE told == f \in DOMAIN FlagWord
  <2>1. Refuse("invalid", told) /\ x' = x + 1
    BY <1>7 DEF ValueRefused
  <2>2. x' \in 1..(n + 1)
    BY <1>1, <2>1
  <2>3. told \in BOOLEAN
    OBVIOUS
  <2> QED
    BY <1>2, <1>3, <1>4, <2>1, <2>2, <2>3, RefusalKeeps
<1> QED
  BY <1>5, <1>6, <1>7

(* Options with a value that is taken, other than -R.                      *)
LEMMA ValueTakenKeeps ==
  ASSUME IInv,
         \/ BlockSizeOption \/ SegmentSizeOrDecodeOption \/ SegmentNumberOption
         \/ CompressTypeOption \/ CompressLevelOption \/ OrientationOption
  PROVE  IInv'
<1>0. PICK f \in ValuedFlags \ {"R"} : TakeValue(f) /\
        \/ f = "S" /\ BlockSizeOption
        \/ f \in {"s", "D"} /\ SegmentSizeOrDecodeOption
        \/ f = "n" /\ SegmentNumberOption
        \/ f = "T" /\ CompressTypeOption
        \/ f = "L" /\ CompressLevelOption
        \/ f = "O" /\ OrientationOption
  BY DEF BlockSizeOption, SegmentSizeOrDecodeOption, SegmentNumberOption,
         CompressTypeOption, CompressLevelOption, OrientationOption, ValuedFlags
<1>1. TypeOK /\ n \in Nat /\ x \in 1..(n + 1) /\ x <= n /\ ~Missing /\ pc = "next"
  BY <1>0, Bounds DEF IInv, TakeValue, AtFlag
<1>2. Value \in Arg /\ Value.num \in Nat \cup {-1} /\ x + 2 <= n
  BY <1>1, ValueType
<1>3. ValueOK(f) /\ MarkFlag(f)
  BY <1>0 DEF TakeValue
<1>4. /\ options' \in [Words -> SUBSET Letters]
      /\ "R" \in options'["block"] => "R" \in options["block"]
  BY <1>0, <1>1, <1>3, MarkType
<1>5. /\ UNCHANGED <<args, y, exitCode, dump, range, fileOpen, pc>>
      /\ x' = x + 2
  BY <1>0 DEF BlockSizeOption, SegmentSizeOrDecodeOption, SegmentNumberOption,
              CompressTypeOption, CompressLevelOption, OrientationOption
<1>6. x' \in 1..n
  BY <1>1, <1>2, <1>5
<1>7. rc' \in {rc, "duplicate"}
  BY <1>0 DEF BlockSizeOption, SegmentSizeOrDecodeOption, SegmentNumberOption,
              CompressTypeOption, CompressLevelOption, OrientationOption
<1>8. /\ rc' \in {"valid", "invalid", "file", "duplicate", "copyright"}
      /\ rc' = "valid" => rc = "valid"
  BY <1>1, <1>7 DEF TypeOK
<1>9. blockSize' \in Nat
  BY <1>0, <1>1, <1>2, <1>3
     DEF BlockSizeOption, SegmentSizeOrDecodeOption, SegmentNumberOption,
         CompressTypeOption, CompressLevelOption, OrientationOption, ValueOK,
         TypeOK
<1>10. segmentNumber' \in Nat
  BY <1>0, <1>1, <1>2, <1>3
     DEF BlockSizeOption, SegmentSizeOrDecodeOption, SegmentNumberOption,
         CompressTypeOption, CompressLevelOption, OrientationOption, ValueOK,
         TypeOK
<1>11. compressType' \in Compressions \cup {"none"}
  BY <1>0, <1>1, <1>3
     DEF BlockSizeOption, SegmentSizeOrDecodeOption, SegmentNumberOption,
         CompressTypeOption, CompressLevelOption, OrientationOption, ValueOK,
         TypeOK, fields
<1>12. compressLevel' \in 0..LevelMax
  <2>1. CASE f = "L"
    <3>1. compressLevel' = compressLevel \/ compressLevel' = Value.num
      BY <1>0, <2>1 DEF CompressLevelOption
    <3>2. Value.num \in 0..LevelMax
      BY <1>2, <1>3, <2>1 DEF ValueOK, LevelMax
    <3> QED
      BY <1>1, <3>1, <3>2 DEF TypeOK
  <2>2. CASE f # "L"
    <3>1. compressLevel' = compressLevel
      BY <1>0, <2>2 DEF BlockSizeOption, SegmentSizeOrDecodeOption,
         SegmentNumberOption, CompressTypeOption, OrientationOption, fields
    <3> QED
      BY <1>1, <3>1 DEF TypeOK
  <2> QED
    BY <2>1, <2>2
<1>13. orientation' \in {"row", "column"}
  BY <1>0, <1>1, <1>3
     DEF BlockSizeOption, SegmentSizeOrDecodeOption, SegmentNumberOption,
         CompressTypeOption, CompressLevelOption, OrientationOption, ValueOK,
         TypeOK, fields
<1>14. blockStart' \in Nat \cup {-1} /\ blockEnd' \in Nat \cup {-1}
  BY <1>1, <1>5 DEF TypeOK, range
<1>15. fileOpen' \in BOOLEAN
  BY <1>1, <1>5 DEF TypeOK
<1>16. pc' = "next"
  BY <1>1, <1>5
<1> QED
  BY <1>1, <1>4, <1>5, <1>6, <1>8, <1>9, <1>10, <1>11, <1>12, <1>13, <1>14,
     <1>15, <1>16, OnwardKeeps

(* A range that is taken is one.                                           *)
LEMMA RangeKeeps == ASSUME IInv, RangeOption PROVE IInv'
<1>0. TakeValue("R") /\ "R" \in ValuedFlags
  BY DEF RangeOption, ValuedFlags
<1>1. TypeOK /\ n \in Nat /\ x \in 1..(n + 1) /\ x <= n /\ ~Missing /\ pc = "next"
  BY <1>0, Bounds DEF IInv, TakeValue, AtFlag
<1>2. Value \in Arg /\ Value.num \in Nat \cup {-1} /\ x + 2 <= n
  BY <1>1, ValueType
<1>3. Value.num \in Nat /\ MarkFlag("R")
  BY <1>0, <1>2 DEF TakeValue, ValueOK
<1>4. options' \in [Words -> SUBSET Letters]
  BY <1>0, <1>1, <1>3, MarkType
<1>5. HasEnd => args[x + 2].num \in Nat /\ x + 3 <= n
  <2> SUFFICES ASSUME HasEnd PROVE args[x + 2].num \in Nat /\ x + 3 <= n
    OBVIOUS
  <2>1. x + 3 <= n /\ args[x + 2].num >= 0
    BY <1>1 DEF HasEnd
  <2>2. args \in Seq(Arg) /\ x + 2 \in 1..Len(args)
    BY <1>1, <1>2 DEF TypeOK, n
  <2>3. args[x + 2] \in Arg
    BY <2>2
  <2>4. args[x + 2].num \in Nat \cup {-1}
    BY <2>3 DEF Arg
  <2> QED
    BY <2>1, <2>4
<1>6. /\ blockStart' = Value.num
      /\ UNCHANGED <<args, y, blockSize, segmentNumber, fields, fileOpen, dump>>
  BY DEF RangeOption
<1>7. CASE ~RangeEndOK
  <2>1. blockEnd' = Value.num /\ x' = x + 1 /\ Refuse("invalid", TRUE)
    BY <1>7 DEF RangeOption
  <2>2. x' \in 1..(n + 1)
    BY <1>1, <2>1
  <2> QED
    BY <1>3, <1>4, <1>6, <2>1, <2>2, RefusalKeeps
<1>8. CASE RangeEndOK
  <2>1. /\ blockEnd' = IF HasEnd THEN args[x + 2].num ELSE Value.num
        /\ x' = x + (IF HasEnd THEN 3 ELSE 2)
        /\ UNCHANGED <<pc, rc, exitCode>>
    BY <1>8 DEF RangeOption
  <2>2. blockEnd' \in Nat /\ blockStart' \in Nat /\ blockStart' <= blockEnd'
    BY <1>3, <1>5, <1>6, <1>8, <2>1 DEF RangeEndOK
  <2>3. x' \in 1..n /\ n' = n
    BY <1>1, <1>2, <1>5, <1>6, <2>1 DEF n
  <2>4. TypeOK'
    BY <1>1, <1>4, <1>6, <2>1, <2>2, <2>3 DEF TypeOK, fields
  <2>5. Clean'
    BY <1>1, <2>1, <2>2, <2>3 DEF Clean
  <2> QED
    BY <1>1, <2>1, <2>4, <2>5 DEF IInv
<1> QED
  BY <1>7, <1>8

(* The last argument is opened, or is no file, or a word is astray.        *)
LEMMA WordKeeps ==
  ASSUME IInv, FileName \/ NoFile \/ StrayWord PROVE IInv'
<1>1. TypeOK /\ n \in Nat /\ x \in 1..(n + 1) /\ pc = "next"
  BY Bounds DEF IInv, FileName, NoFile, StrayWord
<1>2. CASE FileName
  <2>1. /\ x = n /\ x' = x + 1 /\ n' = n /\ fileOpen' = TRUE
        /\ args[n].kind = "word" /\ args[n].opens
        /\ UNCHANGED <<args, pc, y, rc, options, range, blockSize, fields,
                       exitCode, dump>>
    BY <1>2 DEF FileName, n
  <2>2. segmentNumber' \in Nat
    <3>1. args[n] \in Arg
      BY <1>1, <2>1 DEF TypeOK, n
    <3>2. args[n].segment \in Nat
      BY <3>1 DEF Arg
    <3> QED
      BY <1>1, <1>2, <2>1, <3>2 DEF FileName, TypeOK
  <2>3. TypeOK'
    <3>1. fileOpen' \in BOOLEAN
      BY <2>1
    <3>2. x' \in 1..(n' + 1)
      BY <1>1, <2>1
    <3> QED
      BY <1>1, <2>1, <2>2, <3>1, <3>2 DEF TypeOK, range, fields
  <2>4. FileRead'
    BY <1>1, <2>1 DEF FileRead
  <2>5. Clean'
    BY <2>1, <2>4 DEF IInv, Clean, range
  <2> QED
    BY <1>1, <2>1, <2>3, <2>5 DEF IInv
<1>3. CASE NoFile \/ StrayWord
  <2>1. \E code \in {"invalid", "file", "copyright"} :
          Refuse(code, TRUE) \/ Refuse(code, FALSE)
    BY <1>3 DEF NoFile, StrayWord
  <2>2. UNCHANGED <<args, x, y, options, range, blockSize, segmentNumber,
                    fields, fileOpen, dump>>
    BY <1>3 DEF NoFile, StrayWord
  <2>3. /\ options' \in [Words -> SUBSET Letters] /\ x' \in 1..(n + 1)
        /\ blockStart' \in Nat \cup {-1} /\ blockEnd' \in Nat \cup {-1}
    BY <1>1, <2>2 DEF TypeOK, range
  <2> QED
    BY <2>1, <2>2, <2>3, RefusalKeeps
<1> QED
  BY <1>2, <1>3

(* A switches argument is entered, or is empty: it is not the last one.    *)
LEMMA SwitchesKeeps == ASSUME IInv, Switches PROVE IInv'
<1>1. TypeOK /\ n \in Nat /\ x \in 1..(n + 1) /\ x < n /\ pc = "next"
  BY Bounds DEF IInv, Switches
<1>2. /\ y' = 1 /\ n' = n
      /\ \/ x' = x + 1 /\ pc' = "next"
         \/ x' = x /\ pc' = "switch"
      /\ UNCHANGED <<args, rc, options, range, blockSize, segmentNumber, fields,
                     fileOpen, exitCode, dump>>
  BY <1>1 DEF Switches, n
<1>3. TypeOK'
  <2>1. x' \in 1..(n' + 1) /\ y' \in Nat \ {0}
    BY <1>1, <1>2
  <2> QED
    BY <1>1, <1>2, <2>1 DEF TypeOK, range, fields
<1>4. Clean'
  BY <1>1, <1>2 DEF IInv, Clean, range
<1>5. pc' = "switch" => x' < n'
  BY <1>1, <1>2
<1> QED
  BY <1>3, <1>4, <1>5 DEF IInv

(* One switch sets at most its own letter, which is never R.               *)
LEMMA SwitchKeeps == ASSUME IInv, Switch PROVE IInv'
<1>1. TypeOK /\ n \in Nat /\ x \in 1..(n + 1) /\ x < n /\ pc = "switch"
  BY Bounds DEF IInv, Switch
<1>2. options \in [Words -> SUBSET Letters]
  BY <1>1 DEF TypeOK
<1> DEFINE c == args[x].letters[y]
<1>3. /\ options' \in [Words -> SUBSET Letters]
      /\ "R" \in options'["block"] => "R" \in options["block"]
      /\ rc' \in {rc, "invalid", "duplicate", "copyright"}
      /\ exitCode' \in {exitCode, 1}
  <2>0. "R" \notin DOMAIN SwitchWord /\ "block" \in Words /\ "item" \in Words
        /\ "verbose" \in Words /\ "v" \in Letters
    BY DEF SwitchWord, Words, Letters
  <2>1. CASE c \in DOMAIN SwitchWord \ {"v"} /\ SetSwitch(c)
    <3>1. SwitchWord[c] \in Words /\ c \in Letters /\ c # "R"
      BY <2>0, <2>1, WordsOfLetters
    <3>2. \/ options' = options
          \/ options' = [options EXCEPT !["item"] = @ \cup {c}]
          \/ options' = [options EXCEPT ![SwitchWord[c]] = @ \cup {c}]
      BY <2>1 DEF SetSwitch, SetOption
    <3>3. options' \in [Words -> SUBSET Letters]
      BY <1>2, <2>0, <3>1, <3>2
    <3>4. "R" \in options'["block"] => "R" \in options["block"]
      BY <1>2, <2>0, <3>1, <3>2
    <3>5. /\ rc' \in {rc, "invalid", "duplicate", "copyright"}
          /\ exitCode' \in {exitCode, 1}
      BY <2>1 DEF SetSwitch, SetOption
    <3> QED
      BY <3>3, <3>4, <3>5
  <2>2. CASE options' = [options EXCEPT !["verbose"] = {"v"}]
             /\ UNCHANGED <<rc, exitCode>>
    BY <1>2, <2>0, <2>2
  <2>3. CASE /\ UNCHANGED options
             /\ rc' \in {"copyright", "invalid"}
             /\ exitCode' \in {exitCode, 1}
    BY <1>2, <2>3
  <2> QED
    BY <2>1, <2>2, <2>3 DEF Switch
<1>4. /\ \/ x' = x + 1 /\ pc' = "next" /\ y' = y
         \/ x' = x /\ pc' = "switch" /\ y' = y + 1
      /\ n' = n
      /\ UNCHANGED <<args, range, blockSize, segmentNumber, fields, fileOpen,
                     dump>>
  BY <1>1 DEF Switch, AfterSwitch, n
<1>5. TypeOK'
  <2>1. x' \in 1..(n' + 1) /\ y' \in Nat \ {0}
    BY <1>1, <1>4 DEF TypeOK
  <2>2. /\ rc' \in {"valid", "invalid", "file", "duplicate", "copyright"}
        /\ exitCode' \in {0, 1}
        /\ pc' \in {"next", "switch", "check", "dispatch", "exit"}
    BY <1>1, <1>3, <1>4 DEF TypeOK
  <2> QED
    BY <1>1, <1>3, <1>4, <2>1, <2>2 DEF TypeOK, range, fields
<1>6. Clean'
  <2>1. rc' = "valid" => rc = "valid"
    BY <1>3
  <2> QED
    BY <1>1, <1>3, <1>4, <2>1 DEF IInv, Clean, range
<1>7. pc' = "switch" => x' < n'
  BY <1>1, <1>4
<1> QED
  BY <1>5, <1>6, <1>7 DEF IInv

(* Masking only takes letters away from the block options.                 *)
LEMMA MaskedType ==
  ASSUME TypeOK
  PROVE  /\ Masked \in [Words -> SUBSET Letters]
         /\ "R" \in Masked["block"] => "R" \in options["block"]
<1>1. options \in [Words -> SUBSET Letters] /\ "block" \in Words
      /\ "item" \in Words /\ "control" \in Words
  BY DEF TypeOK, Words
<1> QED
  BY <1>1 DEF Masked

(* After the loop: the checks, then main.                                  *)
LEMMA AfterLoopKeeps ==
  ASSUME IInv, ArgumentsDone \/ Check \/ Usage \/ Dispatch PROVE IInv'
<1>1. TypeOK /\ n \in Nat
  BY Bounds DEF IInv
<1>2. CASE ArgumentsDone
  <2>1. /\ pc = "next" /\ x > n /\ pc' = "check" /\ n' = n
        /\ UNCHANGED <<args, x, y, rc, options, range, blockSize, segmentNumber,
                       fields, fileOpen, exitCode, dump>>
    BY <1>2 DEF ArgumentsDone, n
  <2>2. TypeOK'
    BY <1>1, <2>1 DEF TypeOK, range, fields
  <2>3. Clean'
    BY <1>1, <2>1 DEF IInv, Clean, FileRead, range
  <2> QED
    BY <2>1, <2>2, <2>3 DEF IInv
<1>3. CASE Check
  <2>1. /\ pc = "check" /\ pc' = "dispatch" /\ n' = n
        /\ UNCHANGED <<args, x, y, range, blockSize, segmentNumber, fields,
                       fileOpen, dump>>
    BY <1>3 DEF Check, n
  <2>2. /\ options' \in [Words -> SUBSET Letters]
        /\ "R" \in options'["block"] => "R" \in options["block"]
        /\ rc' = "valid" => rc = "valid"
        /\ rc' \in {"valid", "invalid", "file", "duplicate", "copyright"}
        /\ exitCode' \in {0, 1}
    BY <1>1, <1>3, MaskedType DEF Check, TypeOK
  <2>3. TypeOK'
    BY <1>1, <2>1, <2>2 DEF TypeOK, range, fields
  <2>4. Clean'
    BY <1>1, <2>1, <2>2 DEF IInv, Clean, FileRead, range
  <2> QED
    BY <2>1, <2>3, <2>4 DEF IInv
<1>4. CASE Usage \/ Dispatch
  <2>1. /\ pc' = "exit" /\ n' = n
        /\ UNCHANGED <<args, x, y, rc, options, range, segmentNumber, fields,
                       fileOpen>>
    BY <1>4 DEF Usage, Dispatch, n
  <2>2. /\ blockSize' \in Nat /\ exitCode' \in {0, 1}
        /\ dump' \in {"none", "relation", "control", "appendOnly"}
    BY <1>1, <1>4, SizesAssumption DEF Usage, Dispatch, TypeOK
  <2>3. TypeOK'
    BY <1>1, <2>1, <2>2 DEF TypeOK, range, fields
  <2>4. Clean'
    BY <1>1, <2>1 DEF IInv, Clean, range
  <2> QED
    BY <2>1, <2>3, <2>4 DEF IInv
<1> QED
  BY <1>2, <1>3, <1>4

(* Every step keeps the invariant.                                         *)
LEMMA NextKeeps == ASSUME IInv, [Next]_vars PROVE IInv'
<1>1. CASE UNCHANGED vars
  <2>1. TypeOK'
    BY <1>1 DEF IInv, TypeOK, vars, range, fields, n
  <2>2. Clean' /\ (pc = "switch" => x < n)'
    BY <1>1 DEF IInv, Clean, FileRead, vars, range, n
  <2> QED
    BY <2>1, <2>2 DEF IInv
<1>2. ASSUME NEW f \in ValuedFlags,
             FlagRepeated(f) \/ ValueMissing(f) \/ ValueRefused(f)
      PROVE  IInv'
  BY <1>2, FlagErrorKeeps
<1>3. CASE RangeOption
  BY <1>3, RangeKeeps
<1>4. CASE \/ BlockSizeOption \/ SegmentSizeOrDecodeOption \/ SegmentNumberOption
           \/ CompressTypeOption \/ CompressLevelOption \/ OrientationOption
  BY <1>4, ValueTakenKeeps
<1>5. CASE FileName \/ NoFile \/ StrayWord
  BY <1>5, WordKeeps
<1>6. CASE Switches \/ Switch
  BY <1>6, SwitchesKeeps, SwitchKeeps
<1>7. CASE ArgumentsDone \/ Check \/ Usage \/ Dispatch
  BY <1>7, AfterLoopKeeps
<1>8. CASE Exited
  BY <1>1, <1>8 DEF Exited
<1> QED
  BY <1>1, <1>2, <1>3, <1>4, <1>5, <1>6, <1>7, <1>8 DEF Next

LEMMA Invariance == Spec => []IInv
<1>1. IInv /\ [Next]_vars => IInv'
  BY NextKeeps
<1> QED
  BY <1>1, InitIInv, PTL DEF Spec

(* For every argument list the loop stays within the arguments and every   *)
(* field within its range.                                                 *)
THEOREM TypeCorrect == Spec => []TypeOK
<1>1. IInv => TypeOK
  BY DEF IInv
<1> QED
  BY <1>1, Invariance, PTL

(* For every argument list, a line that is accepted has opened its last    *)
(* argument and its block range is one.                                    *)
THEOREM AcceptedLinesAreReady == Spec => []DumpReady
<1>1. IInv => DumpReady
  BY DEF IInv, Clean, FileRead, DumpReady
<1> QED
  BY <1>1, Invariance, PTL

-----------------------------------------------------------------------------
(* The grammar: where options start.                                       *)

\* The first argument starts an option, and so does what follows one.
LEMMA StartsMeans ==
  ASSUME n \in Nat
  PROVE  /\ Starts \subseteq 1..n
         /\ n >= 1 => 1 \in Starts
         /\ \A i \in Starts : i + Width(i) <= n => i + Width(i) \in Starts
         /\ \A j \in Starts : j # 1 => \E i \in Starts : i < j /\ i + Width(i) = j
<1> DEFINE Follows(S) == /\ n >= 1 => 1 \in S
                         /\ \A i \in S : i + Width(i) <= n => i + Width(i) \in S
           L == {j \in 1..n : \A S \in SUBSET (1..n) : Follows(S) => j \in S}
           From(j, S) == j = 1 \/ \E i \in 1..(j - 1) : i \in S /\ i + Width(i) = j
           f == [j \in 1..n |-> j \in L]
           start == CHOOSE g : g = [j \in 1..n |->
                      j = 1 \/ \E i \in 1..(j - 1) : g[i] /\ i + Width(i) = j]
<1>0. \A i \in 1..n : Width(i) \in {1, 2, 3}
  BY DEF Width
<1>1. \A j \in 1..n : From(j, L) => j \in L
  <2> SUFFICES ASSUME NEW j \in 1..n, From(j, L),
                      NEW S \in SUBSET (1..n), Follows(S)
               PROVE  j \in S
    OBVIOUS
  <2>1. CASE j = 1
    BY <2>1
  <2>2. CASE j # 1
    <3>1. PICK i \in 1..(j - 1) : i \in L /\ i + Width(i) = j
      BY <2>2
    <3>2. i \in S
      BY <3>1
    <3> QED
      BY <3>1, <3>2
  <2> QED
    BY <2>1, <2>2
<1>2. \A j \in L : From(j, L)
  <2> SUFFICES ASSUME NEW j \in L, ~From(j, L) PROVE FALSE
    OBVIOUS
  <2> DEFINE S == L \ {j}
  <2>1. S \in SUBSET (1..n) /\ j \in 1..n /\ j # 1 /\ j \notin S
    OBVIOUS
  <2>2. n >= 1 => 1 \in S
    <3>1. n >= 1 => 1 \in L
      OBVIOUS
    <3> QED
      BY <2>1, <3>1
  <2>3. ASSUME NEW i \in S, i + Width(i) <= n PROVE i + Width(i) \in S
    <3>1. i \in L /\ i \in 1..n /\ i + Width(i) \in 1..n /\ i < i + Width(i)
      BY <1>0, <2>1, <2>3
    <3>2. i + Width(i) \in L
      <4> HIDE DEF L
      <4>1. i \in 1..((i + Width(i)) - 1)
        BY <1>0, <3>1
      <4> QED
        BY <1>1, <3>1, <4>1
    <3>3. i + Width(i) # j
      <4> SUFFICES ASSUME i + Width(i) = j PROVE FALSE
        OBVIOUS
      <4>1. i \in 1..(j - 1)
        BY <1>0, <2>1, <3>1
      <4> QED
        BY <3>1, <4>1
    <3> QED
      BY <3>2, <3>3
  <2>4. Follows(S)
    BY <2>2, <2>3
  <2> HIDE DEF S, Follows
  <2> QED
    BY <2>1, <2>4
<1>3. L \subseteq 1..n
  OBVIOUS
<1>4. \A j \in 1..n : (j \in L) <=> From(j, L)
  BY <1>1, <1>2
<1> HIDE DEF L
<1>5. f = [j \in 1..n |-> j = 1 \/ \E i \in 1..(j - 1) : f[i] /\ i + Width(i) = j]
  <2>1. \A i \in 1..n : f[i] <=> i \in L
    OBVIOUS
  <2>2. ASSUME NEW j \in 1..n
        PROVE  (j \in L) <=> (j = 1 \/ \E i \in 1..(j - 1) : f[i] /\ i + Width(i) = j)
    <3>1. \A i \in 1..(j - 1) : i \in 1..n
      OBVIOUS
    <3> HIDE DEF f
    <3> QED
      BY <1>4, <2>1, <2>2, <3>1
  <2> QED
    BY <2>2
<1>6. start = [j \in 1..n |->
                 j = 1 \/ \E i \in 1..(j - 1) : start[i] /\ i + Width(i) = j]
  <2> HIDE DEF f
  <2> QED
    BY <1>5
<1>7. Starts = {j \in 1..n : start[j]}
  BY DEF Starts
<1> HIDE DEF start
<1>8. ASSUME NEW j \in 1..n PROVE j \in Starts <=> From(j, Starts)
  <2>1. start[j] <=> (j = 1 \/ \E i \in 1..(j - 1) : start[i] /\ i + Width(i) = j)
    BY <1>6
  <2>2. \A i \in 1..(j - 1) : i \in 1..n
    OBVIOUS
  <2> QED
    BY <1>7, <2>1, <2>2
<1>9. Starts \subseteq 1..n
  BY <1>7
<1>10. ASSUME NEW i \in Starts, i + Width(i) <= n PROVE i + Width(i) \in Starts
  <2>1. i \in 1..n /\ i + Width(i) \in 1..n /\ i \in 1..((i + Width(i)) - 1)
    BY <1>0, <1>9, <1>10
  <2> QED
    BY <1>8, <1>10, <2>1
<1>11. ASSUME NEW j \in Starts, j # 1
       PROVE  \E i \in Starts : i < j /\ i + Width(i) = j
  <2>1. j \in 1..n /\ From(j, Starts)
    BY <1>8, <1>9
  <2>2. PICK i \in 1..(j - 1) : i \in Starts /\ i + Width(i) = j
    BY <1>11, <2>1
  <2> QED
    BY <2>1, <2>2
<1>12. n >= 1 => 1 \in Starts
  BY <1>8
<1> QED
  BY <1>9, <1>10, <1>11, <1>12

(* The options before x end before it.                                     *)
Reached(k) == \A j \in Starts : j < k => j + Width(j) <= k

\* Nothing starts inside an option.
LEMMA NoneWithin ==
  ASSUME n \in Nat, NEW k \in Starts, Reached(k)
  PROVE  /\ \A j \in Starts : j <= k \/ j >= k + Width(k)
         /\ Reached(k + Width(k))
<1>0. \A j \in Starts : j \in 1..n /\ Width(j) \in {1, 2, 3}
  BY StartsMeans DEF Width
<1>1. \A j \in Starts : j <= k \/ j >= k + Width(k)
  <2> DEFINE S == {j \in Starts : k < j /\ j < k + Width(k)}
  <2> SUFFICES ASSUME S # {} PROVE FALSE
    BY <1>0
  <2>1. PICK j \in S : \A m \in S : j <= m
    <3>1. S \subseteq Nat
      BY <1>0
    <3> HIDE DEF S
    <3> QED
      BY <3>1, LeastNumber
  <2>2. j \in Starts /\ k < j /\ j < k + Width(k) /\ j # 1
    BY <1>0, <2>1
  <2>3. PICK i \in Starts : i < j /\ i + Width(i) = j
    BY <2>2, StartsMeans
  <2>4. CASE i < k
    <3>1. i + Width(i) <= k
      BY <2>4 DEF Reached
    <3> QED
      BY <1>0, <2>2, <2>3, <3>1
  <2>5. CASE i = k
    BY <1>0, <2>2, <2>3, <2>5
  <2>6. CASE i > k
    <3>1. i \in S
      BY <1>0, <2>2, <2>3, <2>6
    <3>2. j <= i
      BY <2>1, <3>1
    <3> QED
      BY <1>0, <2>2, <2>3, <3>2
  <2> QED
    BY <1>0, <2>4, <2>5, <2>6
<1>2. ASSUME NEW j \in Starts, j < k + Width(k) PROVE j + Width(j) <= k + Width(k)
  <2>1. j < k \/ j = k
    BY <1>0, <1>1, <1>2
  <2>2. j < k => j + Width(j) <= k
    BY DEF Reached
  <2> QED
    BY <1>0, <2>1, <2>2
<1> QED
  BY <1>1, <1>2 DEF Reached

-----------------------------------------------------------------------------
(* What the loop has read is what the places it has passed say.            *)

InLoop == pc \in {"next", "switch", "check"}

(* The places before letter m of argument k.                               *)
Before(k, m) == {p \in Places : p[1] < k \/ (p[1] = k /\ p[2] < m)}
LetterNumber == IF pc = "switch" THEN y ELSE 0
Passed == Before(x, LetterNumber)

WordOf == [c \in Letters |->
             IF c \in DOMAIN SwitchWord THEN SwitchWord[c] ELSE FlagWord[c]]
(***************************************************************************)
(* The grammar as the code reads it: as WellFormed, but with every level   *)
(* the field holds, -v as often as one likes, a -T or -O again as long as  *)
(* the field is still at its default, and more options beside -c.          *)
(***************************************************************************)
GoodAsRead(j) ==
  IF args[j].flag = "L" THEN args[j + 1].num \in 1..LevelMax ELSE GoodValue(j)

NoRepeats ==
  /\ \A c \in (Letters \ {"v"}) \cup {"L"} : \A p, q \in Given(c) : p = q
  /\ \A i, j \in Starts :
       /\ i < j /\ args[i].flag = "T" /\ args[j].flag = "T" => args[i + 1].name = "none"
       /\ i < j /\ args[i].flag = "O" /\ args[j].flag = "O" => args[i + 1].name = "row"

AsRead ==
  /\ n \in Starts
  /\ args[n].kind = "word" /\ args[n].opens
  /\ \A j \in Starts \ {n} :
       /\ args[j].kind # "word"
       /\ args[j].kind = "valued" => j + 2 <= n /\ GoodAsRead(j)
       /\ args[j].kind = "switches" =>
            \A k \in 1..Len(args[j].letters) :
              args[j].letters[k] \in DOMAIN SwitchWord
  /\ NoRepeats
  /\ ~(IsGiven("x") /\ IsGiven("y"))
  /\ IsGiven("c") => \A c \in Letters : IsGiven(c) =>
                       c \in {"c", "f", "S", "M", "z", "s", "n", "v"}

AcceptsAsRead == pc = "dispatch" => (rc = "valid" <=> n > 0 /\ AsRead)

OnceLetters == (Letters \ {"v"}) \cup {"L"}
ValueAt(p) == args[p[1] + 1]

(* The loop is at the start of an option, or behind the file.              *)
AtStart ==
  /\ \/ x \in Starts /\ pc # "check"
     \/ x = n + 1 /\ n \in Starts /\ args[n].kind = "word" /\ args[n].opens
          /\ pc # "switch"
  /\ pc = "switch" => /\ args[x].kind = "switches"
                      /\ y \in 1..Len(args[x].letters)
  /\ Reached(x)

(* What the grammar asks of one place, unless it is the file.              *)
PlaceOK(p) ==
  LET a == args[p[1]]
  IN p[1] # n =>
       /\ a.kind # "word"
       /\ a.kind = "valued" => p[1] + 2 <= n /\ GoodAsRead(p[1])
       /\ a.kind = "switches" => LetterAt(p) \in DOMAIN SwitchWord

(* The option words hold the letters given, once each.                     *)
Collected(o, S) ==
  /\ \A w \in Words : \A c \in o[w] : c \in Letters /\ WordOf[c] = w
  /\ \A c \in Letters : c \in o[WordOf[c]] <=> \E p \in S : LetterAt(p) = c
OnceEach(S) ==
  \A p, q \in S : LetterAt(p) = LetterAt(q) /\ LetterAt(p) \in OnceLetters => p = q

(* The fields and numbers are those given.                                 *)
LevelRead(cl, S) ==
  /\ cl # 0 <=> \E p \in S : LetterAt(p) = "L"
  /\ \A p \in S : LetterAt(p) = "L" => cl = ValueAt(p).num
NameRead(f, v, default, S) ==
  /\ v # default <=> \E p \in S : LetterAt(p) = f /\ ValueAt(p).name # default
  /\ \A p, q \in S : p[1] < q[1] /\ LetterAt(p) = f /\ LetterAt(q) = f
                       => ValueAt(p).name = default
NumbersRead(bs, be, bz, sn, S) ==
  \A p \in S :
    /\ LetterAt(p) = "R" => /\ bs = ValueAt(p).num
                            /\ be = args[p[1] + Width(p[1]) - 1].num
    /\ LetterAt(p) = "S" => bz = ValueAt(p).num
    /\ LetterAt(p) = "n" => sn = ValueAt(p).num

Tracks ==
  rc = "valid" /\ InLoop =>
    /\ AtStart
    /\ \A p \in Passed : PlaceOK(p)
    /\ Collected(options, Passed) /\ OnceEach(Passed)
    /\ ~("x" \in options["item"] /\ "y" \in options["item"])
    /\ LevelRead(compressLevel, Passed)
    /\ NameRead("T", compressType, "none", Passed)
    /\ NameRead("O", orientation, "row", Passed)
    /\ NumbersRead(blockStart, blockEnd, blockSize, segmentNumber, Passed)
    /\ x = n + 1 /\ "n" \notin options["segment"] =>
         segmentNumber = args[n].segment

(* A line that follows the grammar is never given up.                      *)
Kept == InLoop /\ n > 0 /\ AsRead => rc = "valid"

GInv ==
  /\ args \in ArgLists
  /\ pc # "dispatch" /\ pc # "exit" => n > 0
  /\ Tracks /\ Kept /\ AcceptsAsRead /\ ReadAsGiven

\* The grammar only looks at the arguments.
LEMMA ArgsKept ==
  ASSUME args' = args
  PROVE  /\ n' = n /\ Starts' = Starts /\ Places' = Places
         /\ \A j : Width(j)' = Width(j)
         /\ \A j : GoodAsRead(j)' = GoodAsRead(j)
         /\ \A p : LetterAt(p)' = LetterAt(p)
         /\ \A p : ValueAt(p)' = ValueAt(p)
         /\ AsRead' <=> AsRead
<1>1. n' = n
  BY DEF n
<1>2. \A j : Width(j)' = Width(j)
  <2> SUFFICES ASSUME NEW j PROVE Width(j)' = Width(j)
    OBVIOUS
  <2>1. args[j]' = args[j] /\ args[j + 2]' = args[j + 2]
    OBVIOUS
  <2> QED
    BY <1>1, <2>1, Zenon DEF Width
<1>3. Starts' = Starts
  <2> DEFINE W(a, j) ==
               IF a[j].kind # "valued" THEN 1
               ELSE IF a[j].flag = "R" /\ j + 2 < Len(a) /\ a[j + 2].num >= 0
                 THEN 3 ELSE 2
             S(a) ==
               LET start[j \in 1..Len(a)] ==
                     j = 1 \/ \E i \in 1..(j - 1) : start[i] /\ i + W(a, i) = j
               IN {j \in 1..Len(a) : start[j]}
  <2>1. Starts = S(args)
    BY Zenon DEF Starts, Width, n
  <2>2. Starts' = S(args')
    BY Zenon DEF Starts, Width, n
  <2> HIDE DEF S
  <2> QED
    BY <2>1, <2>2
<1>4. Places' = Places
  BY <1>3, Zenon DEF Places
<1>5. \A p : LetterAt(p)' = LetterAt(p)
  BY DEF LetterAt
<1>6. \A p : ValueAt(p)' = ValueAt(p)
  BY DEF ValueAt
<1>7. \A j : GoodAsRead(j)' = GoodAsRead(j)
  <2> SUFFICES ASSUME NEW j PROVE GoodAsRead(j)' = GoodAsRead(j)
    OBVIOUS
  <2>1. Width(j)' = Width(j)
    BY <1>2
  <2> QED
    BY <2>1 DEF GoodAsRead, GoodValue
<1>8. \A c : Given(c)' = Given(c)
  BY <1>4, <1>5 DEF Given
<1>9. AsRead' <=> AsRead
  BY <1>1, <1>3, <1>7, <1>8 DEF AsRead, NoRepeats, IsGiven
<1> QED
  BY <1>1, <1>2, <1>3, <1>4, <1>5, <1>6, <1>7, <1>9

\* What a place is.
LEMMA PlaceMeans ==
  ASSUME args \in Seq(Arg), n \in Nat
  PROVE  /\ \A p \in Places :
              /\ p = <<p[1], p[2]>> /\ p[1] \in Starts /\ p[1] \in 1..n /\ p[2] \in Nat
              /\ args[p[1]].kind # "switches" => p[2] = 0
              /\ args[p[1]].kind = "switches" => p[2] \in 1..Len(args[p[1]].letters)
         /\ \A j \in Starts :
              /\ args[j].kind # "switches" => <<j, 0>> \in Places
              /\ args[j].kind = "switches" =>
                   \A m \in 1..Len(args[j].letters) : <<j, m>> \in Places
         /\ \A j \in Starts : j \in 1..n /\ Len(args[j].letters) \in Nat
<1>1. \A j \in Starts : j \in 1..n /\ Len(args[j].letters) \in Nat
  <2> SUFFICES ASSUME NEW j \in Starts PROVE j \in 1..n /\ Len(args[j].letters) \in Nat
    OBVIOUS
  <2>1. j \in 1..n
    BY StartsMeans
  <2>2. args[j] \in Arg
    BY <2>1 DEF n
  <2>3. args[j].letters \in Seq(STRING)
    BY <2>2 DEF Arg
  <2> QED
    BY <2>1, <2>3
<1> DEFINE Rows(j) == IF args[j].kind = "switches" THEN 1..Len(args[j].letters) ELSE {0}
<1>2. ASSUME NEW p \in Places
      PROVE  /\ p = <<p[1], p[2]>> /\ p[1] \in Starts /\ p[1] \in 1..n /\ p[2] \in Nat
             /\ args[p[1]].kind # "switches" => p[2] = 0
             /\ args[p[1]].kind = "switches" => p[2] \in 1..Len(args[p[1]].letters)
  <2>1. PICK j \in Starts : p \in {j} \X Rows(j)
    BY DEF Places
  <2>2. p = <<j, p[2]>> /\ p[1] = j /\ p[2] \in Rows(j)
    BY <2>1
  <2>3. p[2] \in Nat
    BY <1>1, <2>2
  <2> QED
    BY <1>1, <2>2, <2>3
<1>3. ASSUME NEW j \in Starts, NEW m \in Rows(j) PROVE <<j, m>> \in Places
  BY DEF Places
<1> QED
  BY <1>1, <1>2, <1>3

\* No place is before the first argument, and all are before the end.
LEMMA BeforeEnds ==
  ASSUME args \in Seq(Arg), n \in Nat
  PROVE  Before(1, 0) = {} /\ Before(n + 1, 0) = Places
<1>1. \A p \in Places : p[1] \in 1..n /\ p[2] \in Nat
  BY PlaceMeans
<1> QED
  BY <1>1 DEF Before

\* An option with a value, or the file, is one place.
LEMMA BeforeOption ==
  ASSUME args \in Seq(Arg), n \in Nat, NEW k \in Starts, Reached(k),
         args[k].kind # "switches"
  PROVE  /\ Before(k + Width(k), 0) = Before(k, 0) \cup {<<k, 0>>}
         /\ <<k, 0>> \in Places /\ <<k, 0>> \notin Before(k, 0)
<1>0. k \in 1..n /\ Width(k) \in {1, 2, 3}
  BY StartsMeans DEF Width
<1>1. <<k, 0>> \in Places
  BY PlaceMeans
<1>2. ASSUME NEW p \in Places
      PROVE  (p[1] < k + Width(k) \/ (p[1] = k + Width(k) /\ p[2] < 0)) <=>
                (p[1] < k \/ (p[1] = k /\ p[2] < 0)) \/ p = <<k, 0>>
  <2>1. /\ p = <<p[1], p[2]>> /\ p[1] \in Starts /\ p[1] \in 1..n /\ p[2] \in Nat
        /\ args[p[1]].kind # "switches" => p[2] = 0
    BY PlaceMeans
  <2>2. p[1] <= k \/ p[1] >= k + Width(k)
    BY <2>1, NoneWithin
  <2>3. p[1] = k => p = <<k, 0>>
    BY <2>1
  <2>4. p = <<k, 0>> => p[1] = k
    OBVIOUS
  <2> QED
    BY <1>0, <2>1, <2>2, <2>3, <2>4
<1>3. ~(<<k, 0>>[1] < k \/ (<<k, 0>>[1] = k /\ <<k, 0>>[2] < 0))
  BY <1>0
<1> QED
  BY <1>1, <1>2, <1>3 DEF Before

\* A group of switches is as many places as it has letters.
LEMMA BeforeSwitches ==
  ASSUME args \in Seq(Arg), n \in Nat, NEW k \in Starts, Reached(k),
         args[k].kind = "switches"
  PROVE  /\ Width(k) = 1 /\ Before(k, 1) = Before(k, 0)
         /\ Before(k + 1, 0) = Before(k, Len(args[k].letters) + 1)
         /\ \A m \in 1..Len(args[k].letters) :
              /\ Before(k, m + 1) = Before(k, m) \cup {<<k, m>>}
              /\ <<k, m>> \in Places /\ <<k, m>> \notin Before(k, m)
<1> DEFINE N == Len(args[k].letters)
<1>0. k \in 1..n /\ Width(k) = 1 /\ N \in Nat
  BY PlaceMeans DEF Width
<1>1. ASSUME NEW p \in Places
      PROVE  /\ p = <<p[1], p[2]>> /\ p[1] \in 1..n /\ p[2] \in Nat
             /\ p[1] = k => p[2] \in 1..N
             /\ p[1] <= k \/ p[1] >= k + 1
  <2>1. p[1] \in Starts
    BY PlaceMeans
  <2> QED
    BY <1>0, <2>1, PlaceMeans, NoneWithin
<1>2. Before(k, 1) = Before(k, 0)
  <2>1. \A p \in Places : (p[1] < k \/ (p[1] = k /\ p[2] < 1)) <=>
                          (p[1] < k \/ (p[1] = k /\ p[2] < 0))
    BY <1>0, <1>1
  <2> QED
    BY <2>1 DEF Before
<1>3. Before(k + 1, 0) = Before(k, N + 1)
  <2>1. \A p \in Places : (p[1] < k + 1 \/ (p[1] = k + 1 /\ p[2] < 0)) <=>
                          (p[1] < k \/ (p[1] = k /\ p[2] < N + 1))
    <3> HIDE DEF N
    <3> QED
      BY <1>0, <1>1
  <2> QED
    BY <2>1 DEF Before
<1>4. ASSUME NEW m \in 1..N
      PROVE  /\ Before(k, m + 1) = Before(k, m) \cup {<<k, m>>}
             /\ <<k, m>> \in Places /\ <<k, m>> \notin Before(k, m)
  <2>1. <<k, m>> \in Places
    BY PlaceMeans
  <2>2. ASSUME NEW p \in Places
        PROVE  (p[1] < k \/ (p[1] = k /\ p[2] < m + 1)) <=>
                  (p[1] < k \/ (p[1] = k /\ p[2] < m)) \/ p = <<k, m>>
    <3>1. p[1] = k /\ p[2] = m <=> p = <<k, m>>
      BY <1>1
    <3> HIDE DEF N
    <3> QED
      BY <1>0, <1>1, <1>4, <3>1
  <2>3. ~(<<k, m>>[1] < k \/ (<<k, m>>[1] = k /\ <<k, m>>[2] < m))
    BY <1>0, <1>4
  <2> QED
    BY <2>1, <2>2, <2>3 DEF Before
<1> QED
  BY <1>0, <1>2, <1>3, <1>4

-----------------------------------------------------------------------------
(* One more place.                                                         *)

\* The word of each letter.
LEMMA WordsKnown ==
  /\ \A c \in Letters : WordOf[c] \in Words
  /\ \A c \in DOMAIN SwitchWord : c \in Letters /\ WordOf[c] = SwitchWord[c]
  /\ \A f \in DOMAIN FlagWord : f \in Letters /\ WordOf[f] = FlagWord[f]
  /\ DOMAIN SwitchWord \cap (ValuedFlags \cup {"h"}) = {}
  /\ \A f \in ValuedFlags : f \in DOMAIN FlagWord <=> f \notin {"T", "L", "O"}
  /\ Letters \cap {"T", "L", "O", "", "h"} = {}
BY DEF WordOf, Letters, SwitchWord, FlagWord, Words, ValuedFlags

\* A letter added to its word is one place more.
LEMMA LetterAdded ==
  ASSUME NEW o \in [Words -> SUBSET Letters], NEW o2, NEW S, NEW P,
         Collected(o, S), OnceEach(S),
         LetterAt(P) \in Letters =>
           o2 = [o EXCEPT ![WordOf[LetterAt(P)]] = @ \cup {LetterAt(P)}],
         LetterAt(P) \notin Letters => o2 = o,
         LetterAt(P) \in OnceLetters => \A p \in S : LetterAt(p) # LetterAt(P)
  PROVE  Collected(o2, S \cup {P}) /\ OnceEach(S \cup {P})
<1>1. OnceEach(S \cup {P})
  BY DEF OnceEach
<1>2. CASE LetterAt(P) \notin Letters
  BY <1>1, <1>2 DEF Collected
<1>3. CASE LetterAt(P) \in Letters
  <2> DEFINE l == LetterAt(P)
             u == WordOf[l]
  <2>1. l \in Letters /\ u \in Words /\ \A c \in Letters : WordOf[c] \in Words
    BY <1>3, WordsKnown
  <2>2. \A w \in Words : o2[w] = IF w = u THEN o[w] \cup {l} ELSE o[w]
    BY <1>3, <2>1
  <2>3. ASSUME NEW w \in Words, NEW c \in o2[w] PROVE c \in Letters /\ WordOf[c] = w
    <3>1. c \in o[w] \/ (w = u /\ c = l)
      BY <2>2, <2>3
    <3> QED
      BY <2>1, <3>1 DEF Collected
  <2>4. ASSUME NEW c \in Letters
        PROVE  c \in o2[WordOf[c]] <=> \E p \in S \cup {P} : LetterAt(p) = c
    <3>1. c \in o[WordOf[c]] <=> \E p \in S : LetterAt(p) = c
      BY DEF Collected
    <3>2. c \in o2[WordOf[c]] <=> c \in o[WordOf[c]] \/ (WordOf[c] = u /\ c = l)
      BY <2>1, <2>2
    <3> QED
      BY <3>1, <3>2
  <2> QED
    BY <1>1, <2>3, <2>4 DEF Collected
<1> QED
  BY <1>2, <1>3

\* A letter not in its word was at no place.
LEMMA NotYet ==
  ASSUME NEW o, NEW S, NEW c \in Letters, Collected(o, S), c \notin o[WordOf[c]]
  PROVE  \A p \in S : LetterAt(p) # c
BY DEF Collected

\* The level with one more place.
LEMMA LevelAdded ==
  ASSUME NEW cl, NEW cl2, NEW S, NEW P, LevelRead(cl, S),
         LetterAt(P) = "L" => cl = 0 /\ cl2 = ValueAt(P).num /\ cl2 # 0,
         LetterAt(P) # "L" => cl2 = cl
  PROVE  LevelRead(cl2, S \cup {P})
BY DEF LevelRead

\* A name with one more place.
LEMMA NameAdded ==
  ASSUME NEW f, NEW v, NEW v2, NEW default, NEW S, NEW P, NameRead(f, v, default, S),
         P[1] \in Nat,
         LetterAt(P) = f => /\ v = default /\ v2 = ValueAt(P).name
                            /\ \A p \in S : p[1] \in Nat /\ p[1] < P[1],
         LetterAt(P) # f => v2 = v
  PROVE  NameRead(f, v2, default, S \cup {P})
<1>1. CASE LetterAt(P) # f
  BY <1>1 DEF NameRead
<1>2. CASE LetterAt(P) = f
  <2>1. v = default /\ v2 = ValueAt(P).name /\ \A p \in S : p[1] \in Nat /\ p[1] < P[1]
    BY <1>2
  <2>2. \A p \in S : LetterAt(p) = f => ValueAt(p).name = default
    BY <2>1 DEF NameRead
  <2>3. v2 # default <=> \E p \in S \cup {P} : LetterAt(p) = f /\ ValueAt(p).name # default
    BY <1>2, <2>1, <2>2
  <2>4. ASSUME NEW p \in S \cup {P}, NEW q \in S \cup {P}, p[1] < q[1],
               LetterAt(p) = f
        PROVE  ValueAt(p).name = default
    <3>1. p \in S
      <4> SUFFICES ASSUME p = P PROVE FALSE
        OBVIOUS
      <4>1. q = P \/ (q[1] < P[1] /\ q[1] \in Nat)
        BY <2>1
      <4> QED
        BY <2>4, <4>1
    <3> QED
      BY <2>2, <2>4, <3>1
  <2> QED
    BY <2>3, <2>4 DEF NameRead
<1> QED
  BY <1>1, <1>2

\* The numbers with one more place.
LEMMA NumbersAdded ==
  ASSUME NEW bs, NEW be, NEW bz, NEW sn, NEW bs2, NEW be2, NEW bz2, NEW sn2,
         NEW S, NEW P, NumbersRead(bs, be, bz, sn, S),
         LetterAt(P) \in {"R", "S", "n"} => \A p \in S : LetterAt(p) # LetterAt(P),
         LetterAt(P) = "R" => /\ bs2 = ValueAt(P).num
                              /\ be2 = args[P[1] + Width(P[1]) - 1].num,
         LetterAt(P) # "R" => bs2 = bs /\ be2 = be,
         LetterAt(P) = "S" => bz2 = ValueAt(P).num,
         LetterAt(P) # "S" => bz2 = bz,
         LetterAt(P) = "n" => sn2 = ValueAt(P).num,
         LetterAt(P) # "n" => sn2 = sn
  PROVE  NumbersRead(bs2, be2, bz2, sn2, S \cup {P})
<1> SUFFICES ASSUME NEW p \in S \cup {P}
             PROVE  /\ LetterAt(p) = "R" => /\ bs2 = ValueAt(p).num
                                            /\ be2 = args[p[1] + Width(p[1]) - 1].num
                    /\ LetterAt(p) = "S" => bz2 = ValueAt(p).num
                    /\ LetterAt(p) = "n" => sn2 = ValueAt(p).num
  BY DEF NumbersRead
<1>1. CASE p = P
  BY <1>1
<1>2. CASE p # P
  <2>1. p \in S
    BY <1>2
  <2>2. LetterAt(p) = "R" => LetterAt(P) # "R"
    BY <2>1
  <2>3. LetterAt(p) = "S" => LetterAt(P) # "S"
    BY <2>1
  <2>4. LetterAt(p) = "n" => LetterAt(P) # "n"
    BY <2>1
  <2> QED
    BY <2>1, <2>2, <2>3, <2>4 DEF NumbersRead
<1> QED
  BY <1>1, <1>2

\* What is tracked, said with the arguments as they were.
LEMMA TracksOn ==
  ASSUME args' = args, AtStart', NEW S, S = Before(x', LetterNumber'),
         \A p \in S : PlaceOK(p),
         Collected(options', S), OnceEach(S),
         ~("x" \in options'["item"] /\ "y" \in options'["item"]),
         LevelRead(compressLevel', S),
         NameRead("T", compressType', "none", S),
         NameRead("O", orientation', "row", S),
         NumbersRead(blockStart', blockEnd', blockSize', segmentNumber', S),
         x' = n + 1 /\ "n" \notin options'["segment"] => segmentNumber' = args[n].segment
  PROVE  Tracks'
<1>1. /\ n' = n /\ Places' = Places /\ \A j : Width(j)' = Width(j)
      /\ \A j : GoodAsRead(j)' = GoodAsRead(j)
      /\ \A p : LetterAt(p)' = LetterAt(p)
      /\ \A p : ValueAt(p)' = ValueAt(p)
  BY ArgsKept
<1>2. Passed' = S
  BY <1>1 DEF Passed, Before
<1>3. \A p \in S : PlaceOK(p)'
  BY <1>1 DEF PlaceOK
<1>4. Collected(options, Passed)' /\ OnceEach(Passed)'
  BY <1>1, <1>2 DEF Collected, OnceEach
<1>5. LevelRead(compressLevel, Passed)'
  BY <1>1, <1>2 DEF LevelRead
<1>6. /\ NameRead("T", compressType, "none", Passed)'
      /\ NameRead("O", orientation, "row", Passed)'
  BY <1>1, <1>2 DEF NameRead
<1>7. NumbersRead(blockStart, blockEnd, blockSize, segmentNumber, Passed)'
  BY <1>1, <1>2 DEF NumbersRead
<1> QED
  BY <1>1, <1>2, <1>3, <1>4, <1>5, <1>6, <1>7 DEF Tracks

-----------------------------------------------------------------------------
(* The steps of the loop.                                                  *)

\* What the invariant says at the start of an option.
LEMMA AtOption ==
  ASSUME IInv, GInv, rc = "valid", pc = "next", x <= n
  PROVE  /\ args \in Seq(Arg) /\ n \in Nat /\ x \in 1..n /\ x \in Starts /\ Reached(x)
         /\ Passed = Before(x, 0)
         /\ IsArg(args[x])
         /\ \A p \in Passed : PlaceOK(p)
         /\ Collected(options, Passed) /\ OnceEach(Passed)
         /\ ~("x" \in options["item"] /\ "y" \in options["item"])
         /\ LevelRead(compressLevel, Passed)
         /\ NameRead("T", compressType, "none", Passed)
         /\ NameRead("O", orientation, "row", Passed)
         /\ NumbersRead(blockStart, blockEnd, blockSize, segmentNumber, Passed)
         /\ options \in [Words -> SUBSET Letters]
<1>1. /\ args \in Seq(Arg) /\ n \in Nat /\ x \in 1..n
      /\ options \in [Words -> SUBSET Letters]
  BY Bounds DEF IInv, TypeOK
<1>2. x # n + 1 /\ Tracks /\ InLoop
  BY <1>1 DEF GInv, InLoop
<1>3. Passed = Before(x, 0)
  BY DEF Passed, LetterNumber
<1>4. IsArg(args[x])
  BY <1>1, ArgListsAssumption DEF GInv, n
<1> QED
  BY <1>1, <1>2, <1>3, <1>4 DEF Tracks, AtStart

\* A value that is taken is one the grammar allows, and the flag is new.
LEMMA TakenIsGood ==
  ASSUME IInv, GInv, rc = "valid", NEW f \in ValuedFlags, TakeValue(f),
         f = "R" => RangeEndOK
  PROVE  /\ x <= n /\ pc = "next" /\ args[x].kind = "valued" /\ args[x].flag = f
         /\ LetterAt(<<x, 0>>) = f /\ Value = ValueAt(<<x, 0>>)
         /\ x + Width(x) <= n /\ Width(x) \in {2, 3}
         /\ Width(x) = IF f = "R" /\ HasEnd THEN 3 ELSE 2
         /\ PlaceOK(<<x, 0>>)
         /\ f \in DOMAIN FlagWord => f \notin options[FlagWord[f]]
<1>1. /\ x <= n /\ pc = "next" /\ args[x].kind = "valued" /\ args[x].flag = f
      /\ ~Repeated(f) /\ ~Missing /\ ValueOK(f)
  BY DEF TakeValue, AtFlag
<1>2. n \in Nat /\ x \in 1..n /\ x + 2 <= n
  BY <1>1, AtOption DEF Missing
<1>3. Width(x) = IF f = "R" /\ HasEnd THEN 3 ELSE 2
  BY <1>1 DEF Width, HasEnd
<1>4. x + Width(x) <= n
  BY <1>2, <1>3 DEF HasEnd
<1>5. LetterAt(<<x, 0>>) = f /\ Value = ValueAt(<<x, 0>>) /\ Value = args[x + 1]
  BY <1>1 DEF LetterAt, Value, ValueAt
<1>6. GoodAsRead(x)
  <2>1. Value.num \in Nat \cup {-1}
    BY <1>1, ValueType DEF IInv
  <2>2. f = "L" => Value.num \in 1..LevelMax
    BY <1>1, <2>1 DEF ValueOK, LevelMax
  <2>3. Width(x) = 3 => HasEnd
    BY <1>3
  <2> QED
    BY <1>1, <1>5, <2>2, <2>3 DEF ValueOK, GoodAsRead, GoodValue, RangeEndOK, ValuedFlags
<1>7. PlaceOK(<<x, 0>>)
  BY <1>1, <1>2, <1>6 DEF PlaceOK
<1> QED
  BY <1>1, <1>3, <1>4, <1>5, <1>7 DEF Repeated

\* The flag's letter is marked, and it was at no place before.
LEMMA FlagMarked ==
  ASSUME IInv, GInv, rc = "valid", NEW f \in ValuedFlags, TakeValue(f),
         f = "R" => RangeEndOK, f = "L" => compressLevel = 0
  PROVE  /\ Collected(options', Passed \cup {<<x, 0>>})
         /\ OnceEach(Passed \cup {<<x, 0>>})
         /\ ~("x" \in options'["item"] /\ "y" \in options'["item"])
         /\ f \in DOMAIN FlagWord => \A p \in Passed : LetterAt(p) # f
         /\ "n" \in options'["segment"] <=> "n" \in options["segment"] \/ f = "n"
<1>1. /\ x <= n /\ pc = "next" /\ LetterAt(<<x, 0>>) = f
      /\ f \in DOMAIN FlagWord => f \notin options[FlagWord[f]]
  BY TakenIsGood
<1>2. /\ Collected(options, Passed) /\ OnceEach(Passed)
      /\ ~("x" \in options["item"] /\ "y" \in options["item"])
      /\ LevelRead(compressLevel, Passed)
      /\ options \in [Words -> SUBSET Letters]
  BY <1>1, AtOption
<1>3. MarkFlag(f)
  BY DEF TakeValue
<1>4. f \in DOMAIN FlagWord <=> f \in Letters
  BY WordsKnown DEF ValuedFlags
<1>5. f \in DOMAIN FlagWord => /\ WordOf[f] = FlagWord[f]
                               /\ \A p \in Passed : LetterAt(p) # f
  BY <1>1, <1>2, <1>4, WordsKnown, NotYet
<1>6. f \in OnceLetters => \A p \in Passed : LetterAt(p) # f
  BY <1>2, <1>4, <1>5 DEF OnceLetters, LevelRead
<1>7. /\ f \in Letters => options' = [options EXCEPT ![WordOf[f]] = @ \cup {f}]
      /\ f \notin Letters => options' = options
  BY <1>3, <1>4, <1>5 DEF MarkFlag
<1>8. /\ Collected(options', Passed \cup {<<x, 0>>})
      /\ OnceEach(Passed \cup {<<x, 0>>})
  BY <1>1, <1>2, <1>6, <1>7, LetterAdded
<1>9. f \in DOMAIN FlagWord =>
        FlagWord[f] = IF f \in {"s", "n"} THEN "segment" ELSE "block"
  BY DEF FlagWord
<1>10. options'["item"] = options["item"]
  BY <1>2, <1>4, <1>5, <1>7, <1>9 DEF Words
<1>11. "n" \in options'["segment"] <=> "n" \in options["segment"] \/ f = "n"
  <2>1. f = "n" => f \in DOMAIN FlagWord
    BY DEF FlagWord
  <2> QED
    BY <1>2, <1>4, <1>5, <1>7, <1>9, <2>1 DEF Words
<1> QED
  BY <1>2, <1>5, <1>8, <1>10, <1>11

\* The step of each option: what it sets besides its mark.
OptionTaken(f) ==
  \/ f = "R" /\ RangeOption
  \/ f = "S" /\ BlockSizeOption
  \/ f \in {"s", "D"} /\ SegmentSizeOrDecodeOption /\ TakeValue(f)
  \/ f = "n" /\ SegmentNumberOption
  \/ f = "T" /\ CompressTypeOption
  \/ f = "L" /\ CompressLevelOption
  \/ f = "O" /\ OrientationOption

\* An option that is taken without an error leaves its value in its field.
LEMMA OptionSets ==
  ASSUME NEW f \in ValuedFlags, OptionTaken(f), rc = "valid", rc' = "valid"
  PROVE  /\ TakeValue(f) /\ (f = "R" => RangeEndOK)
         /\ args' = args /\ pc' = pc
         /\ x' = x + (IF f = "R" /\ HasEnd THEN 3 ELSE 2)
         /\ IF f = "R" THEN /\ blockStart' = Value.num
                            /\ blockEnd' = IF HasEnd THEN args[x + 2].num ELSE Value.num
            ELSE UNCHANGED range
         /\ blockSize' = IF f = "S" THEN Value.num ELSE blockSize
         /\ segmentNumber' = IF f = "n" THEN Value.num ELSE segmentNumber
         /\ IF f = "T" THEN compressType = "none" /\ compressType' = Value.name
            ELSE UNCHANGED compressType
         /\ IF f = "L" THEN compressLevel = 0 /\ compressLevel' = Value.num
            ELSE UNCHANGED compressLevel
         /\ IF f = "O" THEN orientation = "row" /\ orientation' = Value.name
            ELSE UNCHANGED orientation
<1> USE DEF OptionTaken, fields
<1>1. CASE f = "R"
  <2>1. RangeOption
    BY <1>1
  <2>2. RangeEndOK
    BY <2>1 DEF RangeOption, Refuse
  <2> QED
    BY <1>1, <2>1, <2>2 DEF RangeOption
<1>2. CASE f = "S"
  BY <1>2 DEF BlockSizeOption
<1>3. CASE f \in {"s", "D"}
  BY <1>3 DEF SegmentSizeOrDecodeOption
<1>4. CASE f = "n"
  BY <1>4 DEF SegmentNumberOption
<1>5. CASE f = "T"
  BY <1>5 DEF CompressTypeOption
<1>6. CASE f = "L"
  BY <1>6 DEF CompressLevelOption
<1>7. CASE f = "O"
  BY <1>7 DEF OrientationOption
<1> QED
  BY <1>1, <1>2, <1>3, <1>4, <1>5, <1>6, <1>7 DEF ValuedFlags

\* An option with a value.
LEMMA OptionTracks ==
  ASSUME IInv, GInv, NEW f \in ValuedFlags, OptionTaken(f),
         rc = "valid", rc' = "valid"
  PROVE  Tracks'
<1> DEFINE P == <<x, 0>>
           S == Passed \cup {P}
<1>1. /\ TakeValue(f) /\ (f = "R" => RangeEndOK) /\ (f = "L" => compressLevel = 0)
      /\ args' = args /\ pc' = pc
  BY OptionSets
<1>2. /\ x <= n /\ pc = "next" /\ args[x].kind = "valued"
      /\ LetterAt(P) = f /\ Value = ValueAt(P) /\ P[1] = x
      /\ x + Width(x) <= n /\ Width(x) \in {2, 3}
      /\ Width(x) = IF f = "R" /\ HasEnd THEN 3 ELSE 2
      /\ PlaceOK(P)
  BY <1>1, TakenIsGood
<1>3. /\ args \in Seq(Arg) /\ n \in Nat /\ x \in 1..n /\ x \in Starts /\ Reached(x)
      /\ Passed = Before(x, 0)
      /\ \A p \in Passed : PlaceOK(p)
      /\ LevelRead(compressLevel, Passed)
      /\ NameRead("T", compressType, "none", Passed)
      /\ NameRead("O", orientation, "row", Passed)
      /\ NumbersRead(blockStart, blockEnd, blockSize, segmentNumber, Passed)
  BY <1>2, AtOption
<1>4. x' = x + Width(x) /\ pc' = "next"
  BY <1>1, <1>2, OptionSets
<1>5. S = Before(x', LetterNumber')
  <2>1. LetterNumber' = 0
    BY <1>4 DEF LetterNumber
  <2> QED
    BY <1>2, <1>3, <1>4, <2>1, BeforeOption
<1>6. AtStart'
  <2>1. x + Width(x) \in Starts
    BY <1>2, <1>3, StartsMeans
  <2>2. Reached(x + Width(x))
    BY <1>3, NoneWithin
  <2>3. Starts' = Starts /\ \A j : Width(j)' = Width(j)
    BY <1>1, ArgsKept
  <2> QED
    BY <1>4, <2>1, <2>2, <2>3 DEF AtStart, Reached
<1>7. \A p \in Passed : p[1] \in Nat /\ p[1] < P[1]
  <2>1. \A p \in Places : p[1] \in Nat /\ p[2] \in Nat
    BY <1>3, PlaceMeans
  <2> QED
    BY <1>2, <1>3, <2>1 DEF Before
<1>8. /\ Collected(options', S) /\ OnceEach(S)
      /\ ~("x" \in options'["item"] /\ "y" \in options'["item"])
      /\ f \in DOMAIN FlagWord => \A p \in Passed : LetterAt(p) # f
  BY <1>1, FlagMarked
<1>9. \A p \in S : PlaceOK(p)
  BY <1>2, <1>3
<1> HIDE DEF P
<1>10. LevelRead(compressLevel', S)
  <2>1. f = "L" => compressLevel' # 0 /\ compressLevel' = ValueAt(P).num
                   /\ compressLevel = 0
    <3>1. f = "L" => Value.num > 0 /\ Value.num \in Nat \cup {-1}
      BY <1>1, <1>2, ValueType DEF TakeValue, ValueOK, IInv
    <3> QED
      BY <1>2, <3>1, OptionSets
  <2>2. f # "L" => compressLevel' = compressLevel
    BY OptionSets
  <2> QED
    BY <1>2, <1>3, <2>1, <2>2, LevelAdded
<1>11. NameRead("T", compressType', "none", S)
  <2>1. f = "T" => compressType = "none" /\ compressType' = ValueAt(P).name
    BY <1>2, OptionSets
  <2>2. f # "T" => compressType' = compressType
    BY OptionSets
  <2> QED
    BY <1>2, <1>3, <1>7, <2>1, <2>2, NameAdded
<1>12. NameRead("O", orientation', "row", S)
  <2>1. f = "O" => orientation = "row" /\ orientation' = ValueAt(P).name
    BY <1>2, OptionSets
  <2>2. f # "O" => orientation' = orientation
    BY OptionSets
  <2> QED
    BY <1>2, <1>3, <1>7, <2>1, <2>2, NameAdded
<1>13. NumbersRead(blockStart', blockEnd', blockSize', segmentNumber', S)
  <2>1. f \in {"R", "S", "n"} => \A p \in Passed : LetterAt(p) # f
    BY <1>8 DEF FlagWord
  <2>2. f = "R" => /\ blockStart' = ValueAt(P).num
                   /\ blockEnd' = args[P[1] + Width(P[1]) - 1].num
    <3>1. CASE f = "R" /\ HasEnd
      <4>1. x + Width(x) - 1 = x + 2
        BY <1>2, <1>3, <3>1
      <4> QED
        BY <1>2, <3>1, <4>1, OptionSets
    <3>2. CASE f = "R" /\ ~HasEnd
      <4>1. x + Width(x) - 1 = x + 1
        BY <1>2, <1>3, <3>2
      <4> QED
        BY <1>2, <3>2, <4>1, OptionSets DEF ValueAt
    <3> QED
      BY <3>1, <3>2
  <2>3. f # "R" => blockStart' = blockStart /\ blockEnd' = blockEnd
    BY OptionSets DEF range
  <2>4. /\ f = "S" => blockSize' = ValueAt(P).num
        /\ f # "S" => blockSize' = blockSize
        /\ f = "n" => segmentNumber' = ValueAt(P).num
        /\ f # "n" => segmentNumber' = segmentNumber
    BY <1>2, OptionSets
  <2> QED
    BY <1>2, <1>3, <2>1, <2>2, <2>3, <2>4, NumbersAdded
<1>14. x' # n + 1
  BY <1>2, <1>3, <1>4
<1> HIDE DEF S
<1> QED
  BY <1>1, <1>5, <1>6, <1>8, <1>9, <1>10, <1>11, <1>12, <1>13, <1>14, TracksOn

\* The file, behind the last option.
LEMMA FileTracks ==
  ASSUME IInv, GInv, FileName, rc = "valid"
  PROVE  Tracks'
<1> DEFINE P == <<x, 0>>
           S == Passed \cup {P}
<1>1. /\ pc = "next" /\ x = n /\ x <= n /\ args[x].kind = "word" /\ args[x].opens
      /\ x' = x + 1 /\ pc' = "next" /\ args' = args
      /\ segmentNumber' = IF "n" \in options["segment"] THEN segmentNumber
                          ELSE args[x].segment
      /\ UNCHANGED <<options, range, blockSize, fields>>
  <2>1. n \in Nat /\ x = n
    BY Bounds DEF IInv, FileName
  <2> QED
    BY <2>1 DEF FileName
<1>2. /\ args \in Seq(Arg) /\ n \in Nat /\ x \in 1..n /\ x \in Starts /\ Reached(x)
      /\ Passed = Before(x, 0) /\ IsArg(args[x])
      /\ \A p \in Passed : PlaceOK(p)
      /\ Collected(options, Passed) /\ OnceEach(Passed)
      /\ ~("x" \in options["item"] /\ "y" \in options["item"])
      /\ LevelRead(compressLevel, Passed)
      /\ NameRead("T", compressType, "none", Passed)
      /\ NameRead("O", orientation, "row", Passed)
      /\ NumbersRead(blockStart, blockEnd, blockSize, segmentNumber, Passed)
      /\ options \in [Words -> SUBSET Letters]
  BY <1>1, AtOption
<1>3. Width(x) = 1 /\ LetterAt(P) = ""
  BY <1>1, <1>2 DEF Width, LetterAt, IsArg
<1>4. S = Before(x', LetterNumber')
  <2>1. LetterNumber' = 0
    BY <1>1 DEF LetterNumber
  <2> QED
    BY <1>1, <1>2, <1>3, <2>1, BeforeOption
<1>5. AtStart'
  <2>1. Reached(x + Width(x))
    BY <1>2, NoneWithin
  <2>2. n' = n /\ Starts' = Starts /\ \A j : Width(j)' = Width(j)
    BY <1>1, ArgsKept
  <2> QED
    BY <1>1, <1>2, <1>3, <2>1, <2>2 DEF AtStart, Reached
<1>6. \A p \in S : PlaceOK(p)
  BY <1>1, <1>2 DEF PlaceOK
<1>7. P[1] \in Nat
  BY <1>2
<1> HIDE DEF P
<1>8. Collected(options', S) /\ OnceEach(S)
  <2>1. "" \notin Letters /\ "" \notin OnceLetters
    BY WordsKnown DEF OnceLetters
  <2> QED
    BY <1>1, <1>2, <1>3, <2>1, LetterAdded
<1>9. LevelRead(compressLevel', S)
  BY <1>1, <1>2, <1>3, LevelAdded DEF fields
<1>10. /\ NameRead("T", compressType', "none", S)
       /\ NameRead("O", orientation', "row", S)
  BY <1>1, <1>2, <1>3, <1>7, NameAdded DEF fields
<1>11. NumbersRead(blockStart', blockEnd', blockSize', segmentNumber', S)
  <2>1. ASSUME NEW p \in Passed, LetterAt(p) = "n" PROVE "n" \in options["segment"]
    <3>1. "n" \in Letters /\ WordOf["n"] = "segment"
      BY DEF WordOf, Letters, FlagWord, SwitchWord
    <3> QED
      BY <1>2, <2>1, <3>1 DEF Collected
  <2>2. NumbersRead(blockStart, blockEnd, blockSize, segmentNumber', Passed)
    BY <1>1, <1>2, <2>1 DEF NumbersRead
  <2> QED
    BY <1>1, <1>3, <2>2, NumbersAdded DEF range
<1>12. "n" \notin options'["segment"] => segmentNumber' = args[n].segment
  BY <1>1
<1> HIDE DEF S
<1> QED
  BY <1>1, <1>2, <1>4, <1>5, <1>6, <1>8, <1>9, <1>10, <1>11, <1>12, TracksOn

\* A group of switches is entered, or is empty.
LEMMA SwitchesTracks ==
  ASSUME IInv, GInv, Switches, rc = "valid"
  PROVE  Tracks'
<1>1. /\ pc = "next" /\ x < n /\ args[x].kind = "switches" /\ args' = args
      /\ y' = 1
      /\ IF args[x].letters = <<>> THEN x' = x + 1 /\ pc' = "next"
         ELSE x' = x /\ pc' = "switch"
      /\ UNCHANGED <<options, range, blockSize, segmentNumber, fields>>
  BY DEF Switches
<1>2. n \in Nat /\ x <= n
  BY <1>1, Bounds DEF IInv
<1>3. /\ args \in Seq(Arg) /\ x \in 1..n /\ x \in Starts /\ Reached(x)
      /\ Passed = Before(x, 0)
      /\ \A p \in Passed : PlaceOK(p)
      /\ Collected(options, Passed) /\ OnceEach(Passed)
      /\ ~("x" \in options["item"] /\ "y" \in options["item"])
      /\ LevelRead(compressLevel, Passed)
      /\ NameRead("T", compressType, "none", Passed)
      /\ NameRead("O", orientation, "row", Passed)
      /\ NumbersRead(blockStart, blockEnd, blockSize, segmentNumber, Passed)
  BY <1>1, <1>2, AtOption
<1>4. /\ Width(x) = 1 /\ Before(x, 1) = Before(x, 0)
      /\ Before(x + 1, 0) = Before(x, Len(args[x].letters) + 1)
  BY <1>1, <1>2, <1>3, BeforeSwitches
<1>5. args[x].letters \in Seq(STRING)
  <2>1. args[x] \in Arg
    BY <1>3 DEF n
  <2> QED
    BY <2>1 DEF Arg
<1>6. Passed = Before(x', LetterNumber')
  <2>1. CASE args[x].letters = <<>>
    <3>1. LetterNumber' = 0 /\ x' = x + 1
      BY <1>1, <2>1 DEF LetterNumber
    <3>2. Len(args[x].letters) + 1 = 1
      BY <2>1
    <3> QED
      BY <1>3, <1>4, <3>1, <3>2
  <2>2. CASE args[x].letters # <<>>
    <3>1. LetterNumber' = 1 /\ x' = x
      BY <1>1, <2>2 DEF LetterNumber
    <3> QED
      BY <1>3, <1>4, <3>1
  <2> QED
    BY <2>1, <2>2
<1>7. AtStart'
  <2>1. x + 1 \in Starts
    BY <1>1, <1>2, <1>3, <1>4, StartsMeans
  <2>2. Reached(x + 1)
    BY <1>2, <1>3, <1>4, NoneWithin
  <2>3. Starts' = Starts /\ \A j : Width(j)' = Width(j)
    BY <1>1, ArgsKept
  <2>4. args[x].letters # <<>> => 1 \in 1..Len(args[x].letters)
    BY <1>5
  <2> QED
    BY <1>1, <1>3, <2>1, <2>2, <2>3, <2>4 DEF AtStart, Reached
<1>8. x' # n + 1
  BY <1>1, <1>2, <1>3
<1> QED
  BY <1>1, <1>3, <1>6, <1>7, <1>8, TracksOn DEF range, fields

\* What the invariant says inside a group.
LEMMA AtSwitch ==
  ASSUME IInv, GInv, rc = "valid", pc = "switch"
  PROVE  /\ args \in Seq(Arg) /\ n \in Nat /\ x \in 1..n /\ x < n
         /\ x \in Starts /\ Reached(x) /\ args[x].kind = "switches"
         /\ Len(args[x].letters) \in Nat /\ y \in 1..Len(args[x].letters)
         /\ Passed = Before(x, y)
         /\ \A p \in Passed : PlaceOK(p)
         /\ Collected(options, Passed) /\ OnceEach(Passed)
         /\ ~("x" \in options["item"] /\ "y" \in options["item"])
         /\ LevelRead(compressLevel, Passed)
         /\ NameRead("T", compressType, "none", Passed)
         /\ NameRead("O", orientation, "row", Passed)
         /\ NumbersRead(blockStart, blockEnd, blockSize, segmentNumber, Passed)
         /\ options \in [Words -> SUBSET Letters]
         /\ <<x, y>> \in Places /\ <<x, y>> \notin Passed
         /\ LetterAt(<<x, y>>) = args[x].letters[y]
<1>1. /\ args \in Seq(Arg) /\ n \in Nat /\ x \in 1..n /\ x < n
      /\ options \in [Words -> SUBSET Letters]
  <2>1. /\ args \in Seq(Arg) /\ n \in Nat /\ x \in 1..(n + 1) /\ x < n
        /\ options \in [Words -> SUBSET Letters]
    BY Bounds DEF IInv, TypeOK
  <2> QED
    BY <2>1
<1>2. Tracks /\ InLoop
  BY DEF GInv, InLoop
<1>3. Passed = Before(x, y)
  BY DEF Passed, LetterNumber
<1>4. /\ x \in Starts /\ Reached(x) /\ args[x].kind = "switches"
      /\ y \in 1..Len(args[x].letters)
  BY <1>2 DEF Tracks, AtStart
<1>5. Len(args[x].letters) \in Nat
  BY <1>1, <1>4, PlaceMeans
<1>6. <<x, y>> \in Places /\ <<x, y>> \notin Passed
  BY <1>1, <1>3, <1>4, BeforeSwitches
<1>7. LetterAt(<<x, y>>) = args[x].letters[y]
  <2>1. y # 0
    BY <1>4, <1>5
  <2> QED
    BY <2>1 DEF LetterAt
<1> QED
  BY <1>1, <1>2, <1>3, <1>4, <1>5, <1>6, <1>7 DEF Tracks

\* A switch that is no error adds its letter, which only -v may find there.
LEMMA SwitchAdds ==
  ASSUME NEW o \in [Words -> SUBSET Letters], options = o, NEW S, Collected(o, S),
         ~("x" \in o["item"] /\ "y" \in o["item"]),
         NEW c, c = args[x].letters[y], Switch, rc = "valid", rc' = "valid"
  PROVE  /\ c \in DOMAIN SwitchWord
         /\ options' = [o EXCEPT ![WordOf[c]] = @ \cup {c}]
         /\ c # "v" => c \notin o[WordOf[c]]
         /\ ~("x" \in options'["item"] /\ "y" \in options'["item"])
         /\ options'["segment"] = o["segment"]
<1>1. \/ c \in DOMAIN SwitchWord \ {"v"} /\ SetSwitch(c)
      \/ c = "v" /\ options' = [options EXCEPT !["verbose"] = {"v"}]
  BY DEF Switch
<1>2. /\ c \in DOMAIN SwitchWord => WordOf[c] = SwitchWord[c] /\ c \in Letters
      /\ "v" \in DOMAIN SwitchWord /\ SwitchWord["v"] = "verbose"
  BY WordsKnown DEF SwitchWord
<1>3. c \in DOMAIN SwitchWord => /\ SwitchWord[c] \in Words \ {"segment"}
                                 /\ SwitchWord[c] = "item" <=> c \in {"i", "x", "y"}
  BY DEF SwitchWord, Words
<1>4. CASE c \in DOMAIN SwitchWord \ {"v"} /\ SetSwitch(c)
  <2>1. ~(c \in {"x", "y"} /\ Other[c] \in o["item"])
    BY <1>4 DEF SetSwitch
  <2>2. SetOption(SwitchWord[c], c)
    BY <1>4, <2>1 DEF SetSwitch
  <2>3. /\ c \notin o[SwitchWord[c]]
        /\ options' = [o EXCEPT ![SwitchWord[c]] = @ \cup {c}]
    BY <2>2 DEF SetOption
  <2>4. \A w \in Words : options'[w] = IF w = SwitchWord[c] THEN o[w] \cup {c} ELSE o[w]
    BY <1>3, <1>4, <2>3
  <2>5. "item" \in Words /\ "segment" \in Words
    BY DEF Words
  <2>6. options'["segment"] = o["segment"]
    BY <1>3, <1>4, <2>4, <2>5
  <2>7. ~("x" \in options'["item"] /\ "y" \in options'["item"])
    <3>1. c = "x" => "y" \notin o["item"]
      BY <2>1 DEF Other
    <3>2. c = "y" => "x" \notin o["item"]
      BY <2>1 DEF Other
    <3>3. options'["item"] \subseteq o["item"] \cup {c}
      BY <2>4, <2>5
    <3> HIDE DEF Other
    <3> QED
      BY <3>1, <3>2, <3>3
  <2> QED
    BY <1>2, <1>4, <2>3, <2>6, <2>7
<1>5. CASE c = "v" /\ options' = [options EXCEPT !["verbose"] = {"v"}]
  <2>1. \A l \in Letters : WordOf[l] = "verbose" => l = "v"
    BY DEF WordOf, Letters, SwitchWord, FlagWord
  <2>2. o["verbose"] \subseteq {"v"} /\ "verbose" \in Words
    BY <2>1 DEF Collected, Words
  <2>3. WordOf[c] = "verbose"
    BY <1>2, <1>5
  <2>4. o["verbose"] \cup {"v"} = {"v"}
    BY <2>2
  <2>5. options' = [o EXCEPT ![WordOf[c]] = @ \cup {c}]
    BY <1>5, <2>2, <2>3, <2>4
  <2>6. options'["item"] = o["item"] /\ options'["segment"] = o["segment"]
    BY <1>5 DEF Words
  <2> QED
    BY <1>2, <1>5, <2>5, <2>6
<1> QED
  BY <1>1, <1>4, <1>5

\* A letter of a group.
LEMMA SwitchTracks ==
  ASSUME IInv, GInv, Switch, rc = "valid", rc' = "valid"
  PROVE  Tracks'
<1> DEFINE P == <<x, y>>
           c == args[x].letters[y]
           S == Passed \cup {P}
           N == Len(args[x].letters)
<1>1. /\ args \in Seq(Arg) /\ n \in Nat /\ x \in 1..n /\ x < n
      /\ x \in Starts /\ Reached(x) /\ args[x].kind = "switches"
      /\ N \in Nat /\ y \in 1..N
      /\ Passed = Before(x, y)
      /\ \A p \in Passed : PlaceOK(p)
      /\ Collected(options, Passed) /\ OnceEach(Passed)
      /\ ~("x" \in options["item"] /\ "y" \in options["item"])
      /\ LevelRead(compressLevel, Passed)
      /\ NameRead("T", compressType, "none", Passed)
      /\ NameRead("O", orientation, "row", Passed)
      /\ NumbersRead(blockStart, blockEnd, blockSize, segmentNumber, Passed)
      /\ options \in [Words -> SUBSET Letters]
      /\ LetterAt(P) = c
  BY AtSwitch DEF Switch
<1>2. /\ args' = args
      /\ UNCHANGED <<range, blockSize, segmentNumber, fields>>
      /\ IF y = N THEN pc' = "next" /\ x' = x + 1
         ELSE pc' = "switch" /\ x' = x /\ y' = y + 1
  <2>1. AfterSwitch
    BY DEF Switch
  <2>2. IF y = N THEN pc' = "next" /\ x' = x + 1
         ELSE pc' = "switch" /\ x' = x /\ y' = y + 1
    BY <2>1 DEF AfterSwitch, Switch
  <2> QED
    BY <2>2 DEF Switch
<1>3. /\ c \in DOMAIN SwitchWord
      /\ options' = [options EXCEPT ![WordOf[c]] = @ \cup {c}]
      /\ c # "v" => c \notin options[WordOf[c]]
      /\ ~("x" \in options'["item"] /\ "y" \in options'["item"])
      /\ options'["segment"] = options["segment"]
  BY <1>1, SwitchAdds
<1>4. /\ Width(x) = 1 /\ Before(x + 1, 0) = Before(x, N + 1)
      /\ Before(x, y + 1) = Before(x, y) \cup {P}
  BY <1>1, BeforeSwitches
<1>5. S = Before(x', LetterNumber')
  <2>1. CASE y = N
    <3>1. LetterNumber' = 0 /\ x' = x + 1
      BY <1>2, <2>1 DEF LetterNumber
    <3> QED
      BY <1>1, <1>4, <2>1, <3>1
  <2>2. CASE y # N
    <3>1. LetterNumber' = y + 1 /\ x' = x
      BY <1>2, <2>2 DEF LetterNumber
    <3> QED
      BY <1>1, <1>4, <3>1
  <2> QED
    BY <2>1, <2>2
<1>6. AtStart'
  <2>1. x + 1 \in Starts
    BY <1>1, <1>4, StartsMeans
  <2>2. Reached(x + 1)
    BY <1>1, <1>4, NoneWithin
  <2>3. Starts' = Starts /\ \A j : Width(j)' = Width(j)
    BY <1>2, ArgsKept
  <2>4. CASE y = N
    BY <1>2, <2>1, <2>2, <2>3, <2>4 DEF AtStart, Reached
  <2>5. CASE y # N
    <3>1. y + 1 \in 1..N
      BY <1>1, <2>5
    <3> QED
      BY <1>1, <1>2, <2>3, <2>5, <3>1 DEF AtStart, Reached
  <2> QED
    BY <2>4, <2>5
<1>7. \A p \in S : PlaceOK(p)
  <2>1. PlaceOK(P)
    BY <1>1, <1>3 DEF PlaceOK
  <2> QED
    BY <1>1, <2>1
<1>8. /\ c \in Letters /\ c \notin {"R", "S", "n", "L", "T", "O"} /\ P[1] \in Nat
      /\ c # "v" => \A p \in Passed : LetterAt(p) # c
  <2>1. c \in Letters /\ c \notin {"R", "S", "n", "L", "T", "O"}
    BY <1>3, WordsKnown DEF ValuedFlags
  <2>2. P[1] \in Nat
    BY <1>1
  <2> HIDE DEF c, P
  <2> QED
    BY <1>1, <1>3, <2>1, <2>2, NotYet
<1>9. x' # n + 1
  BY <1>1, <1>2
<1> HIDE DEF c, P
<1>10. Collected(options', S) /\ OnceEach(S)
  <2>1. c \in OnceLetters => \A p \in Passed : LetterAt(p) # c
    BY <1>8 DEF OnceLetters
  <2> QED
    BY <1>1, <1>3, <1>8, <2>1, LetterAdded
<1>11. LevelRead(compressLevel', S)
  BY <1>1, <1>2, <1>8, LevelAdded DEF fields
<1>12. /\ NameRead("T", compressType', "none", S)
       /\ NameRead("O", orientation', "row", S)
  BY <1>1, <1>2, <1>8, NameAdded DEF fields
<1>13. NumbersRead(blockStart', blockEnd', blockSize', segmentNumber', S)
  BY <1>1, <1>2, <1>8, NumbersAdded DEF range
<1> HIDE DEF S
<1> QED
  BY <1>2, <1>3, <1>5, <1>6, <1>7, <1>9, <1>10, <1>11, <1>12, <1>13, TracksOn

\* The end of the arguments.
LEMMA EndTracks ==
  ASSUME IInv, GInv, ArgumentsDone, rc = "valid"
  PROVE  Tracks'
<1>1. /\ pc = "next" /\ x > n /\ pc' = "check" /\ x' = x /\ args' = args
      /\ UNCHANGED <<options, range, blockSize, segmentNumber, fields>>
  BY DEF ArgumentsDone
<1>2. n \in Nat /\ x = n + 1 /\ Tracks /\ InLoop
  <2>1. n \in Nat /\ x \in 1..(n + 1)
    BY Bounds DEF IInv
  <2> QED
    BY <1>1, <2>1 DEF GInv, InLoop
<1>3. /\ AtStart /\ \A p \in Passed : PlaceOK(p)
      /\ Collected(options, Passed) /\ OnceEach(Passed)
      /\ ~("x" \in options["item"] /\ "y" \in options["item"])
      /\ LevelRead(compressLevel, Passed)
      /\ NameRead("T", compressType, "none", Passed)
      /\ NameRead("O", orientation, "row", Passed)
      /\ NumbersRead(blockStart, blockEnd, blockSize, segmentNumber, Passed)
      /\ "n" \notin options["segment"] => segmentNumber = args[n].segment
  BY <1>2 DEF Tracks
<1>4. Passed = Before(x', LetterNumber')
  <2>1. LetterNumber' = 0 /\ LetterNumber = 0
    BY <1>1 DEF LetterNumber
  <2> QED
    BY <1>1, <2>1 DEF Passed
<1>5. AtStart'
  <2>1. n' = n /\ Starts' = Starts /\ \A j : Width(j)' = Width(j)
    BY <1>1, ArgsKept
  <2>2. x \notin Starts
    BY <1>2, StartsMeans
  <2> QED
    BY <1>1, <1>2, <1>3, <2>1, <2>2 DEF AtStart, Reached
<1> QED
  BY <1>1, <1>3, <1>4, <1>5, TracksOn DEF range, fields

-----------------------------------------------------------------------------
(* A line that follows the grammar is kept.                                *)

\* A letter that may be given once was not given before.
LEMMA NewHere ==
  ASSUME AsRead, NEW p \in Places, NEW S, S \subseteq Places, p \notin S,
         LetterAt(p) \in OnceLetters
  PROVE  \A q \in S : LetterAt(q) # LetterAt(p)
<1> SUFFICES ASSUME NEW q \in S, LetterAt(q) = LetterAt(p) PROVE FALSE
  OBVIOUS
<1>1. p \in Given(LetterAt(p)) /\ q \in Given(LetterAt(p))
  BY DEF Given
<1>2. p = q
  BY <1>1 DEF AsRead, NoRepeats, OnceLetters
<1> QED
  BY <1>2

\* What the grammar says of the option the loop is at.
LEMMA GrammarAt ==
  ASSUME IInv, GInv, AsRead, rc = "valid", pc = "next", x <= n
  PROVE  /\ x = n => args[x].kind = "word" /\ args[x].opens
         /\ x # n => /\ args[x].kind # "word"
                     /\ args[x].kind = "valued" =>
                          /\ x + 2 <= n /\ GoodAsRead(x)
                          /\ LetterAt(<<x, 0>>) = args[x].flag
                          /\ <<x, 0>> \in Places \ Passed
         /\ Passed \subseteq Places
<1>1. /\ args \in Seq(Arg) /\ n \in Nat /\ x \in 1..n /\ x \in Starts /\ Reached(x)
      /\ Passed = Before(x, 0)
  BY AtOption
<1>2. args[x].kind = "valued" => <<x, 0>> \in Places /\ <<x, 0>> \notin Passed
  BY <1>1, BeforeOption
<1>3. LetterAt(<<x, 0>>) = args[x].flag
  BY DEF LetterAt
<1>4. Passed \subseteq Places
  BY DEF Passed, Before
<1> QED
  BY <1>1, <1>2, <1>3, <1>4 DEF AsRead

\* A flag that counts as repeated was given before.
LEMMA FlagIsNew ==
  ASSUME IInv, GInv, AsRead, rc = "valid", NEW f \in ValuedFlags, AtFlag(f)
  PROVE  ~Repeated(f) /\ x # n
<1>1. pc = "next" /\ x <= n /\ args[x].kind = "valued" /\ args[x].flag = f
  BY DEF AtFlag
<1>2. /\ x # n /\ LetterAt(<<x, 0>>) = f /\ <<x, 0>> \in Places \ Passed
      /\ Passed \subseteq Places
  BY <1>1, GrammarAt
<1>3. Collected(options, Passed)
  BY <1>1, AtOption
<1>4. ASSUME f \in DOMAIN FlagWord, f \in options[FlagWord[f]] PROVE FALSE
  <2>1. f \in Letters /\ WordOf[f] = FlagWord[f] /\ f \in OnceLetters
    <3>1. f # "v"
      BY DEF ValuedFlags
    <3> QED
      BY <1>4, <3>1, WordsKnown DEF OnceLetters
  <2>2. \E p \in Passed : LetterAt(p) = f
    BY <1>3, <1>4, <2>1 DEF Collected
  <2> QED
    BY <1>2, <2>1, <2>2, NewHere
<1> QED
  BY <1>2, <1>4 DEF Repeated

\* Its value is there, and is taken.
LEMMA ValueIsTaken ==
  ASSUME IInv, GInv, AsRead, rc = "valid", NEW f \in ValuedFlags, AtFlag(f)
  PROVE  ~Missing /\ ValueOK(f) /\ (f = "R" => RangeEndOK)
<1>1. /\ pc = "next" /\ x <= n /\ args[x].kind = "valued" /\ args[x].flag = f
      /\ x # n
  BY FlagIsNew DEF AtFlag
<1>2. x + 2 <= n /\ GoodAsRead(x)
  BY <1>1, GrammarAt
<1>3. n \in Nat /\ x \in 1..n
  BY <1>1, AtOption
<1>4. ~Missing
  BY <1>2, <1>3 DEF Missing
<1>5. Value = args[x + 1] /\ Value.num \in Nat \cup {-1}
  BY <1>1, <1>4, ValueType DEF IInv, Value
<1>6. f = "R" => RangeEndOK
  <2>1. f = "R" => (Width(x) = 3 <=> HasEnd)
    BY <1>1, <1>3 DEF Width, HasEnd
  <2>2. f = "R" => (Width(x) = 3 => args[x + 1].num <= args[x + 2].num)
    BY <1>1, <1>2 DEF GoodAsRead, GoodValue
  <2> QED
    BY <1>5, <2>1, <2>2 DEF RangeEndOK
<1>7. ValueOK(f)
  <2>1. CASE f = "R"
    BY <1>1, <1>2, <1>5, <2>1 DEF GoodAsRead, GoodValue, ValueOK
  <2>2. CASE f = "L"
    <3>1. Value.num \in 1..LevelMax
      BY <1>1, <1>2, <1>5, <2>2 DEF GoodAsRead, GoodValue
    <3>2. LevelMax \in Nat
      BY DEF LevelMax
    <3>3. Value.num > 0 /\ Value.num <= LevelMax
      BY <3>1, <3>2
    <3> QED
      BY <2>2, <3>3 DEF ValueOK
  <2>3. CASE f \in {"D", "T", "O"}
    BY <1>1, <1>2, <1>5, <2>3 DEF GoodAsRead, GoodValue, ValueOK
  <2>4. CASE f \in {"S", "s", "n"}
    BY <1>1, <1>2, <1>5, <2>4 DEF GoodAsRead, GoodValue, ValueOK
  <2> QED
    BY <2>1, <2>2, <2>3, <2>4 DEF ValuedFlags
<1> QED
  BY <1>4, <1>6, <1>7

\* The field of a -T or -O is still at its default.
LEMMA FieldIsFree ==
  ASSUME IInv, GInv, AsRead, rc = "valid", NEW f \in {"T", "O"}, AtFlag(f),
         NEW v, NEW default, default = IF f = "T" THEN "none" ELSE "row",
         NameRead(f, v, default, Passed)
  PROVE  v = default
<1> SUFFICES ASSUME v # default PROVE FALSE
  OBVIOUS
<1>1. PICK p \in Passed : LetterAt(p) = f /\ ValueAt(p).name # default
  BY DEF NameRead
<1>2. pc = "next" /\ x <= n /\ args[x].kind = "valued" /\ args[x].flag = f
  BY DEF AtFlag
<1>3. /\ args \in Seq(Arg) /\ n \in Nat /\ x \in 1..n /\ x \in Starts
      /\ Passed = Before(x, 0) /\ PlaceOK(p)
  BY <1>1, <1>2, AtOption
<1>4. /\ p \in Places /\ p[1] \in Starts /\ p[1] \in 1..n /\ p[2] \in Nat
      /\ args[p[1]].kind # "switches" => p[2] = 0
  BY <1>1, <1>3, PlaceMeans DEF Before
<1>5. p[1] < x
  BY <1>1, <1>3, <1>4 DEF Before
<1>6. args[p[1]].kind # "switches"
  <2>1. f \notin DOMAIN SwitchWord
    BY WordsKnown DEF ValuedFlags
  <2> QED
    BY <1>1, <1>3, <1>4, <1>5, <2>1 DEF PlaceOK
<1>7. args[p[1]].flag = f
  BY <1>1, <1>4, <1>6 DEF LetterAt
<1>8. args[p[1] + 1].name = default
  BY <1>2, <1>3, <1>4, <1>5, <1>7 DEF AsRead, NoRepeats
<1> QED
  BY <1>1, <1>8 DEF ValueAt

\* So no option of a line that follows the grammar is refused.
LEMMA OptionKept ==
  ASSUME IInv, GInv, AsRead, rc = "valid", NEW f \in ValuedFlags, OptionTaken(f)
  PROVE  rc' = "valid"
<1> USE DEF OptionTaken
<1>1. TakeValue(f) /\ AtFlag(f)
  BY DEF TakeValue, RangeOption, BlockSizeOption, SegmentNumberOption,
         CompressTypeOption, CompressLevelOption, OrientationOption
<1>2. pc = "next" /\ x <= n /\ args[x].kind = "valued" /\ args[x].flag = f /\ x # n
  BY <1>1, FlagIsNew DEF AtFlag
<1>3. /\ LevelRead(compressLevel, Passed)
      /\ NameRead("T", compressType, "none", Passed)
      /\ NameRead("O", orientation, "row", Passed)
  BY <1>2, AtOption
<1>4. CASE f = "R"
  <2>1. RangeOption /\ RangeEndOK
    BY <1>1, <1>4, ValueIsTaken
  <2> QED
    BY <2>1 DEF RangeOption
<1>5. CASE f \in {"S", "s", "D", "n"}
  BY <1>5 DEF BlockSizeOption, SegmentSizeOrDecodeOption, SegmentNumberOption
<1>6. CASE f = "T"
  <2>1. compressType = "none"
    BY <1>1, <1>3, <1>6, FieldIsFree
  <2> QED
    BY <1>6, <2>1 DEF CompressTypeOption
<1>7. CASE f = "O"
  <2>1. orientation = "row"
    BY <1>1, <1>3, <1>7, FieldIsFree
  <2> QED
    BY <1>7, <2>1 DEF OrientationOption
<1>8. CASE f = "L"
  <2>1. /\ LetterAt(<<x, 0>>) = "L" /\ <<x, 0>> \in Places /\ <<x, 0>> \notin Passed
        /\ Passed \subseteq Places
    BY <1>2, <1>8, GrammarAt
  <2>2. \A q \in Passed : LetterAt(q) # "L"
    BY <2>1, NewHere DEF OnceLetters
  <2>3. compressLevel = 0
    BY <1>3, <2>2 DEF LevelRead
  <2> QED
    BY <1>8, <2>3 DEF CompressLevelOption
<1> QED
  BY <1>4, <1>5, <1>6, <1>7, <1>8 DEF ValuedFlags

\* Nor is a letter of a group.
LEMMA SwitchKept ==
  ASSUME IInv, GInv, AsRead, rc = "valid", Switch
  PROVE  rc' = "valid"
<1> DEFINE P == <<x, y>>
           c == args[x].letters[y]
<1>1. /\ n \in Nat /\ x \in 1..n /\ x < n /\ x \in Starts
      /\ args[x].kind = "switches" /\ y \in 1..Len(args[x].letters)
      /\ Collected(options, Passed) /\ P \in Places /\ P \notin Passed
      /\ LetterAt(P) = c
  BY AtSwitch DEF Switch
<1>2. c \in DOMAIN SwitchWord
  BY <1>1 DEF AsRead
<1>3. Passed \subseteq Places
  BY DEF Passed, Before
<1> HIDE DEF P
<1>4. CASE c = "v"
  BY <1>2, <1>4 DEF Switch
<1>5. CASE c # "v"
  <2>1. SetSwitch(c)
    <3>1. c # "h"
      BY <1>2, WordsKnown
    <3> QED
      BY <1>2, <1>5, <3>1 DEF Switch
  <2>2. c \in Letters /\ WordOf[c] = SwitchWord[c] /\ c \in OnceLetters
    BY <1>2, <1>5, WordsKnown DEF OnceLetters
  <2>3. c \notin options[SwitchWord[c]]
    <3>1. \A q \in Passed : LetterAt(q) # c
      <4> HIDE DEF c
      <4> QED
        BY <1>1, <1>3, <2>2, NewHere
    <3> HIDE DEF c
    <3> QED
      BY <1>1, <2>2, <3>1 DEF Collected
  <2>4. ~(c \in {"x", "y"} /\ Other[c] \in options["item"])
    <3> HIDE DEF c
    <3> SUFFICES ASSUME c \in {"x", "y"}, Other[c] \in options["item"] PROVE FALSE
      OBVIOUS
    <3>1. Other[c] \in {"x", "y"} /\ Other[c] # c
      BY DEF Other
    <3>2. Other[c] \in Letters /\ WordOf[Other[c]] = "item"
      BY <3>1, WordsKnown DEF SwitchWord
    <3>3. PICK q \in Passed : LetterAt(q) = Other[c]
      BY <1>1, <3>2 DEF Collected
    <3>4. IsGiven(c) /\ IsGiven(Other[c])
      BY <1>1, <1>3, <3>3 DEF IsGiven, Given
    <3> QED
      BY <3>1, <3>4 DEF AsRead
  <2>5. SetOption(SwitchWord[c], c)
    <3> HIDE DEF c
    <3> QED
      BY <2>1, <2>4 DEF SetSwitch
  <2> HIDE DEF c
  <2> QED
    BY <2>3, <2>5 DEF SetOption
<1> QED
  BY <1>4, <1>5

\* Nothing is untracked by a step that changes nothing.
LEMMA TracksSame ==
  ASSUME GInv, UNCHANGED vars
  PROVE  Tracks' /\ Kept'
<1>1. args' = args /\ UNCHANGED <<pc, x, y, rc, options, range, blockSize,
                                  segmentNumber, fields>>
  BY DEF vars
<1>2. n' = n /\ (AsRead' <=> AsRead)
  BY <1>1, ArgsKept
<1>3. Kept'
  BY <1>1, <1>2 DEF GInv, Kept, InLoop
<1>4. Tracks'
  <2> SUFFICES ASSUME rc = "valid", InLoop PROVE Tracks'
    BY <1>1 DEF Tracks, InLoop
  <2>1. Passed = Before(x', LetterNumber')
    BY <1>1 DEF Passed, LetterNumber
  <2>2. AtStart'
    <3>1. Starts' = Starts /\ \A j : Width(j)' = Width(j)
      BY <1>1, ArgsKept
    <3> QED
      BY <1>1, <1>2, <3>1 DEF GInv, Tracks, AtStart, Reached
  <2> QED
    BY <1>1, <2>1, <2>2, TracksOn DEF GInv, Tracks, range, fields
<1> QED
  BY <1>3, <1>4

-----------------------------------------------------------------------------
(* Every step of the loop.                                                 *)

\* The steps of the loop that are no error are those of an option, the file,
\* a group, a letter and the end; no step clears an error.
LEMMA LoopSteps ==
  ASSUME Next, InLoop'
  PROVE  /\ args' = args /\ (InLoop \/ UNCHANGED vars)
         /\ rc' = "valid" =>
              /\ rc = "valid"
              /\ \/ \E f \in ValuedFlags : OptionTaken(f)
                 \/ FileName \/ Switches \/ Switch \/ ArgumentsDone
                 \/ UNCHANGED vars
<1>1. CASE \E f \in ValuedFlags : FlagRepeated(f) \/ ValueMissing(f) \/ ValueRefused(f)
  BY <1>1 DEF FlagRepeated, ValueMissing, ValueRefused, AtFlag, Refuse, InLoop
<1>2. CASE \E f \in ValuedFlags : OptionTaken(f)
  <2>1. PICK f \in ValuedFlags : OptionTaken(f)
    BY <1>2
  <2>2. CASE RangeOption
    BY <1>2, <2>2 DEF RangeOption, TakeValue, AtFlag, Refuse, InLoop
  <2>3. CASE BlockSizeOption
    BY <1>2, <2>3 DEF BlockSizeOption, TakeValue, AtFlag, InLoop
  <2>4. CASE SegmentSizeOrDecodeOption
    BY <1>2, <2>4 DEF SegmentSizeOrDecodeOption, TakeValue, AtFlag, InLoop
  <2>5. CASE SegmentNumberOption
    BY <1>2, <2>5 DEF SegmentNumberOption, TakeValue, AtFlag, InLoop
  <2>6. CASE CompressTypeOption
    BY <1>2, <2>6 DEF CompressTypeOption, TakeValue, AtFlag, InLoop
  <2>7. CASE CompressLevelOption
    BY <1>2, <2>7 DEF CompressLevelOption, TakeValue, AtFlag, InLoop
  <2>8. CASE OrientationOption
    BY <1>2, <2>8 DEF OrientationOption, TakeValue, AtFlag, InLoop
  <2> QED
    BY <2>1, <2>2, <2>3, <2>4, <2>5, <2>6, <2>7, <2>8 DEF OptionTaken
<1>3. CASE FileName
  BY <1>3 DEF FileName, InLoop
<1>4. CASE NoFile
  BY <1>4 DEF NoFile, Refuse, InLoop
<1>5. CASE StrayWord
  BY <1>5 DEF StrayWord, Refuse, InLoop
<1>6. CASE Switches
  BY <1>6 DEF Switches, InLoop
<1>7. CASE Switch
  <2>1. args' = args /\ pc = "switch"
    BY <1>7 DEF Switch
  <2>2. rc' = "valid" => rc = "valid"
    BY <1>7 DEF Switch, SetSwitch, SetOption
  <2> QED
    BY <1>7, <2>1, <2>2 DEF InLoop
<1>8. CASE ArgumentsDone
  BY <1>8 DEF ArgumentsDone, InLoop
<1>9. CASE Check \/ Usage \/ Dispatch
  BY <1>9 DEF Check, Usage, Dispatch, InLoop
<1>10. CASE Exited
  BY <1>10 DEF Exited, vars
<1>11. /\ RangeOption \/ BlockSizeOption \/ SegmentNumberOption \/ CompressTypeOption
            \/ CompressLevelOption \/ OrientationOption
            => \E f \in ValuedFlags : OptionTaken(f)
       /\ SegmentSizeOrDecodeOption => \E f \in ValuedFlags : OptionTaken(f)
  BY DEF OptionTaken, ValuedFlags, SegmentSizeOrDecodeOption
<1> QED
  BY <1>1, <1>2, <1>3, <1>4, <1>5, <1>6, <1>7, <1>8, <1>9, <1>10, <1>11 DEF Next

\* What is tracked stays tracked.
LEMMA TracksStep ==
  ASSUME IInv, GInv, Next
  PROVE  Tracks'
<1> SUFFICES ASSUME InLoop', rc' = "valid" PROVE Tracks'
  BY DEF Tracks
<1>1. /\ rc = "valid"
      /\ \/ \E f \in ValuedFlags : OptionTaken(f)
         \/ FileName \/ Switches \/ Switch \/ ArgumentsDone
         \/ UNCHANGED vars
  BY LoopSteps
<1>2. CASE \E f \in ValuedFlags : OptionTaken(f)
  BY <1>1, <1>2, OptionTracks
<1>3. CASE FileName
  BY <1>1, <1>3, FileTracks
<1>4. CASE Switches
  BY <1>1, <1>4, SwitchesTracks
<1>5. CASE Switch
  BY <1>1, <1>5, SwitchTracks
<1>6. CASE ArgumentsDone
  BY <1>1, <1>6, EndTracks
<1>7. CASE UNCHANGED vars
  BY <1>7, TracksSame
<1> QED
  BY <1>1, <1>2, <1>3, <1>4, <1>5, <1>6, <1>7

\* A line that follows the grammar stays without an error.
LEMMA KeptStep ==
  ASSUME IInv, GInv, Next
  PROVE  Kept'
<1> SUFFICES ASSUME InLoop', n' > 0, AsRead' PROVE rc' = "valid"
  BY DEF Kept
<1>1. args' = args /\ (InLoop \/ UNCHANGED vars)
  BY LoopSteps
<1>2. AsRead /\ n > 0 /\ InLoop
  <2>1. n' = n /\ (AsRead' <=> AsRead)
    BY <1>1, ArgsKept
  <2>2. UNCHANGED vars => InLoop
    BY DEF InLoop, vars
  <2> QED
    BY <1>1, <2>1, <2>2
<1>3. rc = "valid"
  BY <1>2 DEF GInv, Kept
<1>4. ASSUME NEW f \in ValuedFlags, FlagRepeated(f) \/ ValueMissing(f) \/ ValueRefused(f)
      PROVE  FALSE
  <2>1. AtFlag(f)
    BY <1>4 DEF FlagRepeated, ValueMissing, ValueRefused
  <2>2. ~Repeated(f) /\ ~Missing /\ ValueOK(f)
    BY <1>2, <1>3, <2>1, FlagIsNew, ValueIsTaken
  <2> QED
    BY <1>4, <2>2 DEF FlagRepeated, ValueMissing, ValueRefused
<1>5. ASSUME NoFile PROVE FALSE
  <2>1. pc = "next" /\ x = n /\ x <= n
    BY <1>5, Bounds DEF NoFile, IInv
  <2>2. args[x].kind = "word" /\ args[x].opens
    BY <1>2, <1>3, <2>1, GrammarAt
  <2> QED
    BY <1>5, <2>2 DEF NoFile
<1>6. ASSUME StrayWord PROVE FALSE
  <2>1. pc = "next" /\ x # n /\ x <= n
    BY <1>6, Bounds DEF StrayWord, IInv
  <2>2. args[x].kind # "word"
    BY <1>2, <1>3, <2>1, GrammarAt
  <2> QED
    BY <1>6, <2>2 DEF StrayWord
<1>7. CASE \E f \in ValuedFlags : OptionTaken(f)
  BY <1>2, <1>3, <1>7, OptionKept
<1>8. CASE Switch
  BY <1>2, <1>3, <1>8, SwitchKept
<1>9. CASE FileName \/ Switches \/ ArgumentsDone \/ Exited
  BY <1>3, <1>9 DEF FileName, Switches, ArgumentsDone, Exited, vars
<1>10. CASE Check \/ Usage \/ Dispatch
  BY <1>10 DEF Check, Usage, Dispatch, InLoop
<1>11. /\ RangeOption \/ BlockSizeOption \/ SegmentNumberOption \/ CompressTypeOption
            \/ CompressLevelOption \/ OrientationOption
            => \E f \in ValuedFlags : OptionTaken(f)
       /\ SegmentSizeOrDecodeOption => \E f \in ValuedFlags : OptionTaken(f)
  BY DEF OptionTaken, ValuedFlags, SegmentSizeOrDecodeOption
<1> QED
  BY <1>4, <1>5, <1>6, <1>7, <1>8, <1>9, <1>10, <1>11 DEF Next

-----------------------------------------------------------------------------
(* The end of the loop: what was read is what the line says.               *)

\* All places have been passed when the loop has ended without an error.
LEMMA AtCheck ==
  ASSUME IInv, GInv, pc = "check", rc = "valid"
  PROVE  /\ args \in Seq(Arg) /\ n \in Nat /\ n > 0
         /\ n \in Starts /\ args[n].kind = "word" /\ args[n].opens
         /\ \A j \in 1..n : IsArg(args[j])
         /\ \A p \in Places : PlaceOK(p)
         /\ Collected(options, Places) /\ OnceEach(Places)
         /\ ~("x" \in options["item"] /\ "y" \in options["item"])
         /\ LevelRead(compressLevel, Places)
         /\ NameRead("T", compressType, "none", Places)
         /\ NameRead("O", orientation, "row", Places)
         /\ NumbersRead(blockStart, blockEnd, blockSize, segmentNumber, Places)
         /\ "n" \notin options["segment"] => segmentNumber = args[n].segment
<1>1. args \in Seq(Arg) /\ n \in Nat /\ n > 0
  BY Bounds DEF IInv, TypeOK, GInv
<1>2. \A j \in 1..n : IsArg(args[j])
  BY ArgListsAssumption DEF GInv, n
<1>3. Tracks /\ InLoop
  BY DEF GInv, InLoop
<1>4. x = n + 1 /\ n \in Starts /\ args[n].kind = "word" /\ args[n].opens
  BY <1>3 DEF Tracks, AtStart
<1>5. Passed = Places
  <2>1. LetterNumber = 0
    BY DEF LetterNumber
  <2> QED
    BY <1>1, <1>4, <2>1, BeforeEnds DEF Passed
<1> QED
  BY <1>1, <1>2, <1>3, <1>4, <1>5 DEF Tracks

\* An argument with a flag is the place of that flag.
LEMMA FlagPlace ==
  ASSUME args \in Seq(Arg), n \in Nat, NEW j \in Starts, IsArg(args[j]),
         args[j].flag # ""
  PROVE  /\ args[j].kind = "valued" /\ <<j, 0>> \in Places
         /\ LetterAt(<<j, 0>>) = args[j].flag /\ ValueAt(<<j, 0>>) = args[j + 1]
<1>1. args[j].kind = "valued"
  BY DEF IsArg
<1> QED
  BY <1>1, PlaceMeans DEF LetterAt, ValueAt

\* The letters a control file dump goes with.
LEMMA ControlLetters ==
  \A c \in Letters :
    /\ WordOf[c] = "control" <=> c = "c"
    /\ c \in {"c", "f", "S", "M", "z", "s", "n", "v"} <=>
         ~(WordOf[c] = "block" /\ c \notin {"f", "S"}) /\ WordOf[c] # "item"
<1> SUFFICES ASSUME NEW c \in Letters
             PROVE  /\ WordOf[c] = "control" <=> c = "c"
                    /\ c \in {"c", "f", "S", "M", "z", "s", "n", "v"} <=>
                         ~(WordOf[c] = "block" /\ c \notin {"f", "S"})
                         /\ WordOf[c] # "item"
  OBVIOUS
<1>1. CASE c \in DOMAIN SwitchWord
  <2>1. WordOf[c] = SwitchWord[c]
    BY <1>1, WordsKnown
  <2> QED
    BY <1>1, <2>1 DEF SwitchWord
<1>2. CASE c \in DOMAIN FlagWord
  <2>1. WordOf[c] = FlagWord[c]
    BY <1>2, WordsKnown
  <2> QED
    BY <1>2, <2>1 DEF FlagWord
<1> QED
  BY <1>1, <1>2 DEF Letters

\* The words refuse a line exactly if its control switch goes with others.
LEMMA ControlMeans ==
  ASSUME options \in [Words -> SUBSET Letters], Collected(options, Places)
  PROVE  /\ \A c \in Letters : IsGiven(c) <=> c \in options[WordOf[c]]
         /\ ~ControlRefused <=>
              (IsGiven("c") => \A c \in Letters : IsGiven(c) =>
                                 c \in {"c", "f", "S", "M", "z", "s", "n", "v"})
<1>1. \A c \in Letters : IsGiven(c) <=> c \in options[WordOf[c]]
  BY DEF Collected, IsGiven, Given
<1>2. \A w \in Words : \A c \in options[w] : c \in Letters /\ WordOf[c] = w
  BY DEF Collected
<1>3. "block" \in Words /\ "item" \in Words /\ "control" \in Words /\ "c" \in Letters
  BY DEF Words, Letters, SwitchWord
<1>4. options["control"] # {} <=> IsGiven("c")
  <2>1. WordOf["c"] = "control"
    BY <1>3, ControlLetters
  <2>2. \A c \in options["control"] : c = "c"
    BY <1>2, <1>3, ControlLetters
  <2> QED
    BY <1>1, <1>3, <2>1, <2>2
<1>5. (options["block"] \ {"f", "S"} # {} \/ options["item"] # {}) <=>
        \E c \in Letters : IsGiven(c) /\ c \notin {"c", "f", "S", "M", "z", "s", "n", "v"}
  <2>1. ASSUME NEW c \in options["block"] \ {"f", "S"}
        PROVE  /\ c \in Letters /\ IsGiven(c)
               /\ c \notin {"c", "f", "S", "M", "z", "s", "n", "v"}
    BY <1>1, <1>2, <1>3, <2>1, ControlLetters
  <2>2. ASSUME NEW c \in options["item"]
        PROVE  /\ c \in Letters /\ IsGiven(c)
               /\ c \notin {"c", "f", "S", "M", "z", "s", "n", "v"}
    BY <1>1, <1>2, <1>3, <2>2, ControlLetters
  <2>3. ASSUME NEW c \in Letters, IsGiven(c),
               c \notin {"c", "f", "S", "M", "z", "s", "n", "v"}
        PROVE  c \in options["block"] \ {"f", "S"} \/ c \in options["item"]
    BY <1>1, <2>3, ControlLetters
  <2> QED
    BY <2>1, <2>2, <2>3
<1>6. ControlRefused <=>
        IsGiven("c") /\ \E c \in Letters :
          IsGiven(c) /\ c \notin {"c", "f", "S", "M", "z", "s", "n", "v"}
  BY <1>4, <1>5 DEF ControlRefused
<1> QED
  BY <1>1, <1>6

\* Whether a line that was read without an error follows the grammar.
LEMMA GrammarRead ==
  ASSUME IInv, GInv, pc = "check", rc = "valid"
  PROVE  AsRead <=> ~ControlRefused
<1>1. /\ args \in Seq(Arg) /\ n \in Nat
      /\ n \in Starts /\ args[n].kind = "word" /\ args[n].opens
      /\ \A j \in 1..n : IsArg(args[j])
      /\ \A p \in Places : PlaceOK(p)
      /\ Collected(options, Places) /\ OnceEach(Places)
      /\ ~("x" \in options["item"] /\ "y" \in options["item"])
      /\ NameRead("T", compressType, "none", Places)
      /\ NameRead("O", orientation, "row", Places)
  BY AtCheck
<1>2. options \in [Words -> SUBSET Letters]
  BY DEF IInv, TypeOK
<1>3. /\ \A c \in Letters : IsGiven(c) <=> c \in options[WordOf[c]]
      /\ ~ControlRefused <=>
           (IsGiven("c") => \A c \in Letters : IsGiven(c) =>
                              c \in {"c", "f", "S", "M", "z", "s", "n", "v"})
  BY <1>1, <1>2, ControlMeans
<1>4. ASSUME NEW j \in Starts \ {n}
      PROVE  /\ args[j].kind # "word"
             /\ args[j].kind = "valued" => j + 2 <= n /\ GoodAsRead(j)
             /\ args[j].kind = "switches" =>
                  \A k \in 1..Len(args[j].letters) :
                    args[j].letters[k] \in DOMAIN SwitchWord
  <2>1. j \in 1..n /\ Len(args[j].letters) \in Nat /\ j # n
    BY <1>1, <1>4, PlaceMeans
  <2>2. CASE args[j].kind # "switches"
    <3>1. <<j, 0>> \in Places
      BY <1>1, <1>4, <2>2, PlaceMeans
    <3>2. PlaceOK(<<j, 0>>) /\ <<j, 0>>[1] = j
      BY <1>1, <3>1
    <3> QED
      BY <2>1, <2>2, <3>2 DEF PlaceOK
  <2>3. CASE args[j].kind = "switches"
    <3> SUFFICES ASSUME NEW k \in 1..Len(args[j].letters)
                 PROVE  args[j].letters[k] \in DOMAIN SwitchWord
      BY <2>3
    <3>0. <<j, k>> \in Places
      BY <1>1, <1>4, <2>3, PlaceMeans
    <3>1. <<j, k>> \in Places /\ k # 0
      BY <2>1, <3>0
    <3>2. PlaceOK(<<j, k>>) /\ <<j, k>>[1] = j /\ LetterAt(<<j, k>>) = args[j].letters[k]
      BY <1>1, <3>1 DEF LetterAt
    <3> QED
      BY <2>1, <2>3, <3>2 DEF PlaceOK
  <2> QED
    BY <2>2, <2>3
<1>5. NoRepeats
  <2>1. \A c \in OnceLetters : \A p, q \in Given(c) : p = q
    BY <1>1 DEF Given, OnceEach
  <2>2. ASSUME NEW i \in Starts, NEW j \in Starts, i < j,
               NEW f \in {"T", "O"}, args[i].flag = f, args[j].flag = f
        PROVE  args[i + 1].name = IF f = "T" THEN "none" ELSE "row"
    <3>1. i \in 1..n /\ j \in 1..n /\ f # ""
      BY <1>1, StartsMeans
    <3>2. /\ <<i, 0>> \in Places /\ LetterAt(<<i, 0>>) = f
          /\ <<j, 0>> \in Places /\ LetterAt(<<j, 0>>) = f
          /\ ValueAt(<<i, 0>>) = args[i + 1]
      BY <1>1, <2>2, <3>1, FlagPlace
    <3>3. <<i, 0>>[1] < <<j, 0>>[1]
      BY <2>2
    <3> QED
      BY <1>1, <3>2, <3>3 DEF NameRead
  <2>3. \A i, j \in Starts :
          /\ i < j /\ args[i].flag = "T" /\ args[j].flag = "T" => args[i + 1].name = "none"
          /\ i < j /\ args[i].flag = "O" /\ args[j].flag = "O" => args[i + 1].name = "row"
    BY <2>2
  <2> QED
    BY <2>1, <2>3 DEF NoRepeats, OnceLetters
<1>6. ~(IsGiven("x") /\ IsGiven("y"))
  <2>1. /\ "x" \in Letters /\ WordOf["x"] = "item"
        /\ "y" \in Letters /\ WordOf["y"] = "item"
    BY DEF WordOf, Letters, SwitchWord
  <2> QED
    BY <1>1, <1>3, <2>1
<1> QED
  BY <1>1, <1>3, <1>4, <1>5, <1>6 DEF AsRead

(* The values in force are those of the line.                              *)
ValuesRead ==
  /\ \A j \in Starts :
       /\ args[j].flag = "R" => /\ blockStart = args[j + 1].num
                                /\ blockEnd = args[j + Width(j) - 1].num
       /\ args[j].flag = "S" => blockSize = args[j + 1].num
       /\ args[j].flag = "n" => segmentNumber = args[j + 1].num
       /\ args[j].flag = "L" => compressLevel = args[j + 1].num
  /\ ~IsGiven("n") => segmentNumber = args[n].segment
  /\ orientation = "column" <=>
       \E j \in Starts : args[j].flag = "O" /\ args[j + 1].name = "column"

LEMMA ValuesAtCheck ==
  ASSUME IInv, GInv, pc = "check", rc = "valid"
  PROVE  ValuesRead
<1>1. /\ args \in Seq(Arg) /\ n \in Nat
      /\ n \in Starts /\ args[n].kind = "word"
      /\ \A j \in 1..n : IsArg(args[j])
      /\ \A p \in Places : PlaceOK(p)
      /\ Collected(options, Places)
      /\ LevelRead(compressLevel, Places)
      /\ NameRead("O", orientation, "row", Places)
      /\ NumbersRead(blockStart, blockEnd, blockSize, segmentNumber, Places)
      /\ "n" \notin options["segment"] => segmentNumber = args[n].segment
  BY AtCheck
<1>2. options \in [Words -> SUBSET Letters] /\ orientation \in {"row", "column"}
  BY DEF IInv, TypeOK
<1>3. ASSUME NEW j \in Starts, args[j].flag # ""
      PROVE  /\ args[j].kind = "valued" /\ <<j, 0>> \in Places /\ <<j, 0>>[1] = j
             /\ LetterAt(<<j, 0>>) = args[j].flag /\ ValueAt(<<j, 0>>) = args[j + 1]
  BY <1>1, <1>3, StartsMeans, FlagPlace
<1>4. ASSUME NEW j \in Starts
      PROVE  /\ args[j].flag = "R" => /\ blockStart = args[j + 1].num
                                      /\ blockEnd = args[j + Width(j) - 1].num
             /\ args[j].flag = "S" => blockSize = args[j + 1].num
             /\ args[j].flag = "n" => segmentNumber = args[j + 1].num
             /\ args[j].flag = "L" => compressLevel = args[j + 1].num
  <2> DEFINE P == <<j, 0>>
  <2>1. args[j].flag # "" =>
          /\ P \in Places /\ P[1] = j
          /\ LetterAt(P) = args[j].flag /\ ValueAt(P) = args[j + 1]
    BY <1>3
  <2> HIDE DEF P
  <2> QED
    BY <1>1, <2>1 DEF NumbersRead, LevelRead
<1>5. ~IsGiven("n") => segmentNumber = args[n].segment
  <2>1. "n" \in Letters /\ WordOf["n"] = "segment"
    BY DEF WordOf, Letters, FlagWord, SwitchWord
  <2> QED
    BY <1>1, <1>2, <2>1, ControlMeans
<1>6. ASSUME orientation = "column"
      PROVE  \E j \in Starts : args[j].flag = "O" /\ args[j + 1].name = "column"
  <2>1. PICK p \in Places : LetterAt(p) = "O" /\ ValueAt(p).name # "row"
    BY <1>1, <1>6 DEF NameRead
  <2>2. /\ p[1] \in Starts /\ p[1] \in 1..n
        /\ args[p[1]].kind # "switches" => p[2] = 0
    BY <1>1, PlaceMeans
  <2>3. PlaceOK(p) /\ args[p[1]].kind # "word" => p[1] # n
    BY <1>1
  <2>4. "O" \notin DOMAIN SwitchWord
    BY WordsKnown DEF ValuedFlags
  <2>5. p[1] # n
    <3> SUFFICES ASSUME p[1] = n PROVE FALSE
      OBVIOUS
    <3>1. p[2] = 0 /\ args[p[1]].flag = "" /\ args[p[1]].kind = "word"
      BY <1>1, <2>2 DEF IsArg
    <3> QED
      BY <2>1, <3>1 DEF LetterAt
  <2>6. args[p[1]].kind # "switches"
    BY <1>1, <2>1, <2>4, <2>5 DEF PlaceOK
  <2>7. args[p[1]].flag = "O"
    BY <2>1, <2>2, <2>6 DEF LetterAt
  <2>8. args[p[1]].kind = "valued"
    BY <1>3, <2>2, <2>7
  <2>9. GoodAsRead(p[1])
    BY <1>1, <2>5, <2>8 DEF PlaceOK
  <2>10. args[p[1] + 1].name \in {"row", "column"}
    BY <2>7, <2>9 DEF GoodAsRead, GoodValue
  <2>11. args[p[1] + 1].name = "column"
    BY <2>1, <2>10 DEF ValueAt
  <2> QED
    BY <2>2, <2>7, <2>11
<1>7. ASSUME NEW j \in Starts, args[j].flag = "O", args[j + 1].name = "column"
      PROVE  orientation = "column"
  <2>1. \E p \in Places : LetterAt(p) = "O" /\ ValueAt(p).name # "row"
    BY <1>3, <1>7
  <2> QED
    BY <1>1, <1>2, <2>1 DEF NameRead
<1>8. \A j \in Starts :
       /\ args[j].flag = "R" => /\ blockStart = args[j + 1].num
                                /\ blockEnd = args[j + Width(j) - 1].num
       /\ args[j].flag = "S" => blockSize = args[j + 1].num
       /\ args[j].flag = "n" => segmentNumber = args[j + 1].num
       /\ args[j].flag = "L" => compressLevel = args[j + 1].num
  BY <1>4
<1> QED
  BY <1>5, <1>6, <1>7, <1>8 DEF ValuesRead

\* The values of the line, said with the arguments as they were.
LEMMA ValuesSame ==
  ASSUME args' = args, ValuesRead,
         UNCHANGED <<blockStart, blockEnd, blockSize, segmentNumber,
                     compressLevel, orientation>>
  PROVE  ValuesRead'
<1>1. /\ n' = n /\ Starts' = Starts /\ Places' = Places
      /\ \A j : Width(j)' = Width(j)
      /\ \A p : LetterAt(p)' = LetterAt(p)
  BY ArgsKept
<1>2. IsGiven("n")' <=> IsGiven("n")
  BY <1>1 DEF IsGiven, Given
<1> QED
  BY <1>1, <1>2 DEF ValuesRead

(***************************************************************************)
(* The invariant of the grammar.                                           *)
(***************************************************************************)

LEMMA InitGInv == Init => GInv
<1> SUFFICES ASSUME Init PROVE GInv
  OBVIOUS
<1>1. args \in ArgLists /\ args \in Seq(Arg) /\ n \in Nat
  BY ArgListsAssumption DEF Init, n
<1>2. CASE n = 0
  <2>1. pc = "dispatch" /\ rc = "copyright"
    BY <1>2 DEF Init
  <2> QED
    BY <1>1, <1>2, <2>1 DEF GInv, Tracks, Kept, InLoop, AcceptsAsRead, ReadAsGiven
<1>3. CASE n # 0
  <2>1. /\ pc = "next" /\ rc = "valid" /\ x = 1 /\ options = [w \in Words |-> {}]
        /\ compressType = "none" /\ compressLevel = 0 /\ orientation = "row"
    BY <1>3 DEF Init
  <2>2. Passed = {}
    <3>1. LetterNumber = 0
      BY <2>1 DEF LetterNumber
    <3> QED
      BY <1>1, <2>1, <3>1, BeforeEnds DEF Passed
  <2>3. AtStart
    <3>1. 1 \in Starts /\ \A j \in Starts : j \in 1..n
      BY <1>1, <1>3, StartsMeans
    <3> QED
      BY <2>1, <3>1 DEF AtStart, Reached
  <2>4. /\ Collected(options, {}) /\ OnceEach({})
        /\ ~("x" \in options["item"] /\ "y" \in options["item"])
    <3>1. \A w \in Words : options[w] = {}
      BY <2>1
    <3>2. "item" \in Words
      BY DEF Words
    <3> QED
      BY <3>1, <3>2, WordsKnown DEF Collected, OnceEach
  <2>5. /\ LevelRead(compressLevel, {})
        /\ NameRead("T", compressType, "none", {})
        /\ NameRead("O", orientation, "row", {})
        /\ NumbersRead(blockStart, blockEnd, blockSize, segmentNumber, {})
    BY <2>1 DEF LevelRead, NameRead, NumbersRead
  <2>6. Tracks
    BY <1>1, <1>3, <2>1, <2>2, <2>3, <2>4, <2>5 DEF Tracks
  <2> QED
    BY <1>1, <1>3, <2>1, <2>6 DEF GInv, Kept, AcceptsAsRead, ReadAsGiven
<1> QED
  BY <1>2, <1>3

\* The check is where the line is judged.
LEMMA CheckJudges ==
  ASSUME IInv, GInv, Check
  PROVE  AcceptsAsRead' /\ ReadAsGiven'
<1>1. /\ pc = "check" /\ args' = args /\ n' = n
      /\ rc' = "valid" <=> rc = "valid" /\ ~ControlRefused
      /\ UNCHANGED <<range, blockSize, segmentNumber, fields>>
  BY ArgsKept DEF Check
<1>2. n > 0 /\ InLoop /\ (AsRead' <=> AsRead)
  BY <1>1, ArgsKept DEF GInv, InLoop
<1>3. AcceptsAsRead'
  <2>1. rc = "valid" => (AsRead <=> ~ControlRefused)
    BY <1>1, GrammarRead
  <2>2. AsRead => rc = "valid"
    BY <1>2 DEF GInv, Kept
  <2> QED
    BY <1>1, <1>2, <2>1, <2>2 DEF AcceptsAsRead
<1>4. ReadAsGiven'
  <2> SUFFICES ASSUME rc' = "valid" PROVE ValuesRead'
    BY DEF ReadAsGiven, ValuesRead
  <2>1. ValuesRead
    BY <1>1, ValuesAtCheck
  <2> QED
    BY <1>1, <2>1, ValuesSame DEF range, fields
<1> QED
  BY <1>3, <1>4

\* The steps that leave the loop are the check, and what follows it.
LEMMA StaysInLoop ==
  ASSUME Next, ~Check, ~(Usage \/ Dispatch), ~UNCHANGED vars
  PROVE  InLoop'
<1>1. ASSUME NEW f \in ValuedFlags, FlagRepeated(f) \/ ValueMissing(f) \/ ValueRefused(f)
      PROVE  InLoop'
  BY <1>1 DEF FlagRepeated, ValueMissing, ValueRefused, Refuse, InLoop
<1>2. CASE RangeOption
  BY <1>2 DEF RangeOption, TakeValue, AtFlag, Refuse, InLoop
<1>3. CASE BlockSizeOption \/ SegmentSizeOrDecodeOption \/ SegmentNumberOption
  BY <1>3 DEF BlockSizeOption, SegmentSizeOrDecodeOption, SegmentNumberOption,
              TakeValue, AtFlag, InLoop
<1>4. CASE CompressTypeOption \/ CompressLevelOption \/ OrientationOption
  BY <1>4 DEF CompressTypeOption, CompressLevelOption, OrientationOption,
              TakeValue, AtFlag, InLoop
<1>5. CASE FileName \/ Switches \/ ArgumentsDone
  BY <1>5 DEF FileName, Switches, ArgumentsDone, InLoop
<1>6. CASE NoFile \/ StrayWord
  BY <1>6 DEF NoFile, StrayWord, Refuse, InLoop
<1>7. CASE Switch
  <2>1. AfterSwitch /\ pc = "switch"
    BY <1>7 DEF Switch
  <2> QED
    BY <2>1 DEF AfterSwitch, InLoop
<1>8. ~Exited
  BY DEF Exited
<1> QED
  BY <1>1, <1>2, <1>3, <1>4, <1>5, <1>6, <1>7, <1>8 DEF Next

LEMMA StepGInv ==
  ASSUME IInv, GInv, [Next]_vars
  PROVE  GInv'
<1>1. CASE UNCHANGED vars
  <2>1. /\ args' = args /\ pc' = pc /\ rc' = rc
        /\ UNCHANGED <<blockStart, blockEnd, blockSize, segmentNumber,
                       compressLevel, orientation>>
    BY <1>1 DEF vars, range, fields
  <2>2. n' = n /\ (AsRead' <=> AsRead)
    BY <2>1, ArgsKept
  <2>3. Tracks' /\ Kept'
    BY <1>1, TracksSame
  <2>4. AcceptsAsRead'
    BY <2>1, <2>2 DEF GInv, AcceptsAsRead
  <2>5. ReadAsGiven'
    <3> SUFFICES ASSUME pc = "dispatch", rc = "valid" PROVE ValuesRead'
      BY <2>1 DEF ReadAsGiven, ValuesRead
    <3>1. ValuesRead
      BY DEF GInv, ReadAsGiven, ValuesRead
    <3> QED
      BY <2>1, <3>1, ValuesSame
  <2> QED
    BY <2>1, <2>2, <2>3, <2>4, <2>5 DEF GInv
<1>2. CASE Check
  <2>1. args' = args /\ pc' = "dispatch"
    BY <1>2 DEF Check
  <2>2. AcceptsAsRead' /\ ReadAsGiven'
    BY <1>2, CheckJudges
  <2> QED
    BY <2>1, <2>2 DEF GInv, Tracks, Kept, InLoop
<1>3. CASE Usage \/ Dispatch
  <2>1. args' = args /\ pc' = "exit"
    BY <1>3 DEF Usage, Dispatch
  <2> QED
    BY <2>1 DEF GInv, Tracks, Kept, InLoop, AcceptsAsRead, ReadAsGiven
<1>4. CASE Next /\ ~Check /\ ~(Usage \/ Dispatch) /\ ~UNCHANGED vars
  <2>1. InLoop'
    BY <1>4, StaysInLoop
  <2>2. args' = args /\ InLoop
    BY <1>4, <2>1, LoopSteps
  <2>3. Tracks' /\ Kept'
    BY <1>4, TracksStep, KeptStep
  <2>4. n' = n
    BY <2>2, ArgsKept
  <2> QED
    BY <2>1, <2>2, <2>3, <2>4 DEF GInv, InLoop, AcceptsAsRead, ReadAsGiven
<1> QED
  BY <1>1, <1>2, <1>3, <1>4

\* The grammar is kept along every run.
LEMMA GrammarInvariance == Spec => []GInv
<1>1. Init => GInv
  BY InitGInv
<1>2. IInv /\ GInv /\ [Next]_vars => GInv'
  BY StepGInv
<1>3. Spec => []IInv
  BY Invariance
<1> QED
  BY <1>1, <1>2, <1>3, PTL DEF Spec

-----------------------------------------------------------------------------
(* How what the code reads differs from what is documented.                *)

\* A letter that only flags have is given by a flag.
LEMMA GivenByFlag ==
  ASSUME args \in Seq(Arg), n \in Nat, \A j \in 1..n : IsArg(args[j]),
         n \in Starts, args[n].kind = "word",
         \A j \in Starts \ {n} : args[j].kind = "switches" =>
            \A k \in 1..Len(args[j].letters) :
              args[j].letters[k] \in DOMAIN SwitchWord,
         NEW f \in {"T", "L", "O"}, NEW p \in Given(f)
  PROVE  /\ p = <<p[1], 0>> /\ p[1] \in Starts /\ p[1] \in 1..n
         /\ args[p[1]].flag = f
<1>1. p \in Places /\ LetterAt(p) = f
  BY DEF Given
<1>2. /\ p = <<p[1], p[2]>> /\ p[1] \in Starts /\ p[1] \in 1..n /\ p[2] \in Nat
      /\ args[p[1]].kind # "switches" => p[2] = 0
      /\ args[p[1]].kind = "switches" => p[2] \in 1..Len(args[p[1]].letters)
  BY <1>1, PlaceMeans
<1>3. args[p[1]].kind # "switches"
  <2> SUFFICES ASSUME args[p[1]].kind = "switches" PROVE FALSE
    OBVIOUS
  <2>1. p[1] # n
    OBVIOUS
  <2>2. Len(args[p[1]].letters) \in Nat
    BY <1>2, PlaceMeans
  <2>3. p[2] # 0
    BY <1>2, <2>2
  <2>4. args[p[1]].letters[p[2]] = f
    BY <1>1, <2>3 DEF LetterAt
  <2>5. args[p[1]].letters[p[2]] \in DOMAIN SwitchWord
    BY <1>2, <2>1
  <2> QED
    BY <2>4, <2>5 DEF SwitchWord
<1> QED
  BY <1>1, <1>2, <1>3 DEF LetterAt

\* Two places of one flag that is not a letter are two options of the line.
LEMMA SecondTime ==
  ASSUME args \in Seq(Arg), n \in Nat, \A j \in 1..n : IsArg(args[j]),
         AsRead, NEW f \in {"T", "O"}, NEW p \in Given(f), NEW q \in Given(f),
         p # q
  PROVE  RepeatUnseen
<1>1. /\ p = <<p[1], 0>> /\ p[1] \in Starts /\ p[1] \in 1..n /\ args[p[1]].flag = f
      /\ q = <<q[1], 0>> /\ q[1] \in Starts /\ q[1] \in 1..n /\ args[q[1]].flag = f
  BY GivenByFlag DEF AsRead
<1>2. p[1] < q[1] \/ q[1] < p[1]
  <2>1. p[1] # q[1]
    BY <1>1
  <2> QED
    BY <1>1, <2>1
<1>3. ASSUME NEW i \in Starts, NEW j \in Starts, i < j,
             args[i].flag = f, args[j].flag = f
      PROVE  RepeatUnseen
  BY <1>3 DEF AsRead, NoRepeats, RepeatUnseen
<1> QED
  BY <1>1, <1>2, <1>3

\* Every documented line is one the code takes.
LEMMA DocumentedIsRead ==
  ASSUME args \in Seq(Arg), n \in Nat, \A j \in 1..n : IsArg(args[j]), WellFormed
  PROVE  AsRead
<1>1. \A c \in AllOptions : \A p, q \in Given(c) : p = q
  BY DEF WellFormed
<1>2. /\ Letters \subseteq AllOptions /\ "L" \in AllOptions
      /\ "T" \in AllOptions /\ "O" \in AllOptions
  BY DEF AllOptions
<1>3. ASSUME NEW i \in Starts, NEW j \in Starts, i < j,
             NEW f \in {"T", "O"}, args[i].flag = f, args[j].flag = f
      PROVE  FALSE
  <2>1. i \in 1..n /\ j \in 1..n /\ f # ""
    BY StartsMeans
  <2>2. /\ <<i, 0>> \in Places /\ LetterAt(<<i, 0>>) = f
        /\ <<j, 0>> \in Places /\ LetterAt(<<j, 0>>) = f
    BY <1>3, <2>1, FlagPlace
  <2>3. <<i, 0>> = <<j, 0>>
    BY <1>1, <1>2, <2>2 DEF Given
  <2>4. <<i, 0>>[1] = i /\ <<j, 0>>[1] = j
    OBVIOUS
  <2>5. i = j
    BY <2>3, <2>4, Zenon
  <2>6. i \in 1..n
    BY <2>1
  <2>7. ~(i < i)
    BY <2>6, SMT
  <2> QED
    BY <1>3, <2>5, <2>7, Zenon
<1>4. NoRepeats
  BY <1>1, <1>2, <1>3 DEF NoRepeats
<1>5. ASSUME NEW j \in Starts \ {n}, args[j].kind = "valued"
      PROVE  j + 2 <= n /\ GoodAsRead(j)
  <2>1. j + 2 <= n /\ GoodValue(j)
    BY <1>5 DEF WellFormed
  <2>2. args[j].flag = "L" => args[j + 1].num \in 1..LevelNamed
    BY <2>1 DEF GoodValue
  <2>3. args[j].flag = "L" => args[j + 1].num \in 1..LevelMax
    BY <2>2 DEF LevelNamed, LevelMax
  <2> QED
    BY <2>1, <2>3 DEF GoodAsRead
<1>6. IsGiven("c") => \A c \in Letters : IsGiven(c) =>
                       c \in {"c", "f", "S", "M", "z", "s", "n", "v"}
  BY <1>2 DEF WellFormed
<1> QED
  BY <1>4, <1>5, <1>6 DEF WellFormed, AsRead

\* A line the code takes is a documented one, but for the departures.
LEMMA ReadIsDocumented ==
  ASSUME args \in Seq(Arg), n \in Nat, \A j \in 1..n : IsArg(args[j]), AsRead,
         ~RepeatUnseen, ~HighLevel, ~ControlWithOthers
  PROVE  WellFormed
<1>1. ASSUME NEW c \in AllOptions PROVE \A p, q \in Given(c) : p = q
  <2>1. CASE c \in (Letters \ {"v"}) \cup {"L"}
    BY <2>1 DEF AsRead, NoRepeats
  <2>2. CASE c = "v"
    BY <2>2 DEF RepeatUnseen
  <2>3. CASE c \in {"T", "O"}
    BY <2>3, SecondTime
  <2> QED
    BY <1>1, <2>1, <2>2, <2>3 DEF AllOptions
<1>2. ASSUME NEW j \in Starts \ {n}, args[j].kind = "valued"
      PROVE  j + 2 <= n /\ GoodValue(j)
  <2>1. j + 2 <= n /\ GoodAsRead(j)
    BY <1>2 DEF AsRead
  <2>2. CASE args[j].flag = "L"
    <3>1. args[j + 1].num \in 1..LevelMax
      BY <2>1, <2>2 DEF GoodAsRead
    <3>2. ~(args[j + 1].num \in (LevelNamed + 1)..LevelMax)
      BY <2>2 DEF HighLevel
    <3>3. args[j + 1].num \in 1..LevelNamed
      BY <3>1, <3>2 DEF LevelNamed, LevelMax
    <3> QED
      BY <2>1, <2>2, <3>3 DEF GoodValue
  <2>3. CASE args[j].flag # "L"
    BY <2>1, <2>3 DEF GoodAsRead
  <2> QED
    BY <2>2, <2>3
<1>3. ASSUME IsGiven("c"), NEW c \in AllOptions, IsGiven(c)
      PROVE  c \in {"c", "f", "S"}
  <2>1. c \notin {"M", "z", "v", "s", "n", "T", "L", "O"}
    BY <1>3 DEF ControlWithOthers
  <2>2. c \in Letters
    BY <1>3, <2>1 DEF AllOptions
  <2>3. c \in {"c", "f", "S", "M", "z", "s", "n", "v"}
    BY <1>3, <2>2 DEF AsRead
  <2> QED
    BY <2>1, <2>3
<1> QED
  BY <1>1, <1>2, <1>3 DEF WellFormed, AsRead

\* AcceptsGrammar for every list of arguments: ConsumeOptions accepts every
\* documented line, and no other but for the three departures, although it
\* goes on after some errors and drops the rest of an argument after others.
THEOREM GrammarAccepted == Spec => []AcceptsGrammar
<1>1. IInv /\ GInv => AcceptsGrammar
  <2> SUFFICES ASSUME IInv, GInv, pc = "dispatch"
               PROVE  /\ n > 0 /\ WellFormed => rc = "valid"
                      /\ rc = "valid" => /\ n > 0
                                         /\ \/ WellFormed
                                            \/ RepeatUnseen \/ HighLevel
                                            \/ ControlWithOthers
    BY DEF AcceptsGrammar
  <2>1. args \in Seq(Arg) /\ n \in Nat /\ \A j \in 1..n : IsArg(args[j])
    BY ArgListsAssumption, Bounds DEF GInv, IInv, TypeOK, n
  <2>2. rc = "valid" <=> n > 0 /\ AsRead
    BY DEF GInv, AcceptsAsRead
  <2>3. WellFormed => AsRead
    BY <2>1, DocumentedIsRead
  <2>4. AsRead => WellFormed \/ RepeatUnseen \/ HighLevel \/ ControlWithOthers
    BY <2>1, ReadIsDocumented
  <2> QED
    BY <2>2, <2>3, <2>4
<1> QED
  BY <1>1, GrammarInvariance, Invariance, PTL

\* ReadAsGiven for every list of arguments: when the dump starts, the range,
\* the block size, the segment, the level and the orientation are those the
\* line gives, wherever on it they stand.
THEOREM ValuesInForce == Spec => []ReadAsGiven
<1>1. GInv => ReadAsGiven
  BY DEF GInv
<1> QED
  BY <1>1, GrammarInvariance, PTL
=============================================================================
