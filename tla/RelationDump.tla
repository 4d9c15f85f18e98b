---------------------------- MODULE RelationDump ----------------------------
(***************************************************************************)
(* The dump of a heap or index file: DumpFileContents and the functions it *)
(* calls for a block (src/pg_filedump.c), and the detour that a tuple with *)
(* an external value takes through its TOAST file (ReadStringFromToast and *)
(* ToastChunkDecode, src/decode.c), which runs DumpFileContents again on   *)
(* the TOAST file while the outer one is in the middle of a block.         *)
(*                                                                         *)
(* The two activations have locals of their own (one entry per level of    *)
(* the variables pc, fpos, currentBlock, own, item) and share the file     *)
(* scope variables bytesToFormat, pageOffset, specialType and exitCode.    *)
(*                                                                         *)
(* A file is a record: "size" in bytes and "pages", the sequence of pages  *)
(* laid out every BlockSize bytes.  Bytes are counted in units, a page     *)
(* header taking HeaderSize of them and each line pointer one.             *)
(***************************************************************************)
EXTENDS Integers, Sequences

CONSTANTS
  MainFiles,       \* files named on the command line
  ToastFiles,      \* TOAST files that may lie beside them; NoFile for none
  NoFile,
  OptionSets,      \* combinations of options considered
  BlockSize,       \* block size of both files
  HeaderSize,      \* bytes of a page header without line pointers
  WordRange        \* 2^32: unsigned ints wrap here

Levels == {"main", "toast"}

(* A line pointer and what it points at.  "end" is offset plus length;     *)
(* "old" that xmax is set; "oid" the value a pointer in a main tuple names *)
(* or a TOAST tuple belongs to (0: none); "bytes" the external size of the *)
(* value, or the size of the chunk; "seq" the chunk's number.              *)
Item == [end : Nat, normal : BOOLEAN, old : BOOLEAN, oid : Nat, bytes : Nat,
         seq : Nat]

(* "special" is pd_special; "index" the kind the special section shows.    *)
Page == [items : Seq(Item), sane : BOOLEAN, sumOK : BOOLEAN, meta : BOOLEAN,
         special : Nat, index : {"sequence", "index", "unknown"}]

File == [size : Nat, pages : Seq(Page)]

Modes == {"interpret", "binary", "noInterpret", "control"}

Options == [mode : Modes, range : BOOLEAN, first : Nat, last : Nat,
            checksums : BOOLEAN, ignoreOld : BOOLEAN, decode : BOOLEAN,
            toast : BOOLEAN, laterSegment : BOOLEAN, forcedSize : BOOLEAN]

IsFile(f) ==
  /\ f \in File
  /\ f.size <= Len(f.pages) * BlockSize

ASSUME FilesAssumption ==
  /\ MainFiles # {}
  /\ \A f \in MainFiles \cup (ToastFiles \ {NoFile}) : IsFile(f)
ASSUME OptionsAssumption ==
  /\ OptionSets \subseteq Options
  /\ \A o \in OptionSets : o.range => o.first <= o.last
(* What ConsumeOptions leaves standing in each mode (CommandLine!Masked).  *)
ASSUME ModesAssumption ==
  \A o \in OptionSets :
    /\ o.mode # "interpret" =>
         ~o.checksums /\ ~o.ignoreOld /\ ~o.decode /\ ~o.toast
    /\ o.mode = "control" => ~o.range
ASSUME SizesAssumption ==
  /\ BlockSize \in Nat \ {0}
  /\ HeaderSize \in Nat \ {0}
  /\ WordRange \in Nat \ {0}

VARIABLES
  img,             \* level -> the file it reads
  opts,            \* the options
  active,          \* the level that runs; "exit" and "crash" end the program
  pc,              \* level -> where it stands
  fpos,            \* level -> its stream's file position
  currentBlock,    \* level -> number of the block in its buffer
  own,             \* level -> bytes its last fread returned
  item,            \* level -> number of the item looked at
  toastDataRead,   \* bytes of the external value collected so far
  toastValue,      \* chunk numbers collected, in the order copied
  emitted,         \* what the last detour appended to the row
  bytesToFormat,   \* file scope: "Number of bytes to format"
  pageOffset,      \* file scope: "Offset of current block"
  specialType,     \* file scope: kind of special section
  exitCode,        \* file scope: "Program exit code"
  errors           \* errors printed so far: level and kind

locals  == <<pc, fpos, currentBlock, own, item>>
value   == <<toastDataRead, toastValue, emitted>>
globals == <<bytesToFormat, pageOffset, specialType, exitCode>>
vars == <<img, opts, active, locals, value, globals, errors>>

Lesser(a, b) == IF a < b THEN a ELSE b
Wrap(n) == n % WordRange

Available(l) ==
  IF fpos[l] < img[l].size THEN Lesser(BlockSize, img[l].size - fpos[l]) ELSE 0

(* The page at the stream's position, and the page in the buffer of level  *)
(* l: the one its last read started at.                                    *)
PageAt(l) == img[l].pages[fpos[l] \div BlockSize + 1]
PageIn(l) == img[l].pages[(fpos[l] - own[l]) \div BlockSize + 1]
ItemIn(l) == PageIn(l).items[item[l]]

(* The value the tuple at hand points to.                                  *)
Wanted == ItemIn("main")

Goto(l, where) == pc' = [pc EXCEPT ![l] = where]

(* Print errors about level l and set exitCode, as all of these places do. *)
Complain(l, kinds) ==
  /\ errors' = errors \cup {<<l, k>> : k \in kinds}
  /\ exitCode' = IF kinds = {} THEN exitCode ELSE 1

Init ==
  /\ \E m \in MainFiles, t \in ToastFiles :
       img = [main |-> m, toast |-> t]
  /\ opts \in OptionSets
  /\ active = "main"
  /\ pc = [main |-> "open", toast |-> "closed"]
  /\ fpos = [l \in Levels |-> 0]
  /\ currentBlock = [l \in Levels |-> 0]
  /\ own = [l \in Levels |-> 0]
  /\ item = [l \in Levels |-> 0]
  /\ toastDataRead = 0
  /\ toastValue = <<>>
  /\ emitted = <<>>
  /\ bytesToFormat = 0
  /\ pageOffset = 0
  /\ specialType = "none"
  /\ exitCode = 0
  /\ errors = {}

(* Options that reach only the outer activation: the TOAST file is read    *)
(* with block_options and control_options 0.                               *)
Ranged(l) == l = "main" /\ opts.range
Mode(l) == IF l = "main" THEN opts.mode ELSE "interpret"

(* GetBlockSize wants the whole header of block 0, then the default serves;*)
(* main does not call it under -S or for a control file.                   *)
BlockSizeErrors(l) == IF img[l].size < HeaderSize THEN {"eof"} ELSE {}
SizeGiven == opts.mode = "control" \/ opts.forcedSize

(* main opens the dump: seek to the first block of the range, computed in  *)
(* an unsigned int.                                                        *)
\* Variant: blocks are counted from 1.
StartFromOne == IF opts.range THEN BlockSize * (opts.first - 1) ELSE 0

StartPosition == IF opts.range THEN Wrap(BlockSize * opts.first) ELSE 0

Start ==
  /\ active = "main" /\ pc["main"] = "open"
  /\ Complain("main", IF SizeGiven THEN {} ELSE BlockSizeErrors("main"))
  /\ fpos' = [fpos EXCEPT !["main"] = StartPosition]
  /\ currentBlock' = [currentBlock EXCEPT !["main"] =
                        IF opts.range THEN opts.first ELSE 0]
  /\ Goto("main", "read")
  /\ UNCHANGED <<img, opts, active, own, item, value, bytesToFormat,
                 pageOffset, specialType>>

(* The seek fails: the function returns 1, which main makes the status.    *)
StartFails ==
  /\ active = "main" /\ pc["main"] = "open"
  /\ opts.range
  /\ Complain("main",
       {"seek"} \cup (IF SizeGiven THEN {} ELSE BlockSizeErrors("main")))
  /\ Goto("main", "failed")
  /\ active' = "exit"
  /\ UNCHANGED <<img, opts, fpos, currentBlock, own, item, value,
                 bytesToFormat, pageOffset, specialType>>

(* GetSpecialSectionType.                                                  *)
SpecialOf(page, got) ==
  IF got <= HeaderSize THEN "unknown"
  ELSE IF page.special = 0 \/ page.special > BlockSize \/ page.special > got
    THEN "boundary"
  ELSE IF got < BlockSize THEN "unknown"
  ELSE IF page.special = BlockSize THEN "none" ELSE page.index

BytesRead(l) == Available(l)

(* Read a block and enter FormatBlock, or DumpBinaryBlock or FormatControl *)
(* in its place.                                                           *)
ReadBlock(l) ==
  /\ active = l /\ pc[l] = "read"
  /\ Available(l) > 0
  /\ own' = [own EXCEPT ![l] = Available(l)]
  /\ bytesToFormat' = BytesRead(l)
  /\ fpos' = [fpos EXCEPT ![l] = @ + Available(l)]
  /\ IF Mode(l) \in {"binary", "control"}
       THEN UNCHANGED <<pageOffset, specialType>>
       ELSE /\ pageOffset' = Wrap(BlockSize * currentBlock[l])
            /\ specialType' = SpecialOf(PageAt(l), bytesToFormat')
  /\ Goto(l, IF Mode(l) = "interpret" THEN "header"
             ELSE IF Mode(l) = "control" THEN "finished" ELSE "next")
  /\ UNCHANGED <<img, opts, active, currentBlock, item, value, exitCode, errors>>

(* No block has been read yet: every read that returns bytes sets own.     *)
InitialRead(l) == own[l] = 0

(* End of file: the loop is left with result still 0.  If nothing of the   *)
(* requested range was there an error is printed, the only one that leaves *)
(* exitCode alone.                                                         *)
ReadNothing(l) ==
  /\ active = l /\ pc[l] = "read"
  /\ Available(l) = 0
  /\ own' = [own EXCEPT ![l] = 0]
  /\ bytesToFormat' = 0
  /\ errors' = errors \cup (IF InitialRead(l) THEN {<<l, "premature">>} ELSE {})
  /\ Goto(l, "finished")
  /\ UNCHANGED <<img, opts, active, fpos, currentBlock, item, value,
                 pageOffset, specialType, exitCode>>

(* FormatHeader looks at the header and the line pointers it can see.      *)
PointersRead(page) == bytesToFormat >= HeaderSize + Len(page.items)

(* pg_checksum_page covers the whole buffer, stale bytes of a partial read *)
(* included, and the block number is offset by the segment number of the   *)
(* file on the command line, whichever file is read.                       *)
ChecksumOutcomes(l) ==
  IF ~opts.checksums THEN {TRUE}
  ELSE IF own[l] < BlockSize THEN BOOLEAN
  ELSE {PageIn(l).sumOK /\ (l = "toast" => ~opts.laterSegment)}

HeaderErrors(l, sum) ==
  IF bytesToFormat < HeaderSize THEN {"eof"}
  ELSE {k \in {"eof", "header", "sum"} :
          \/ k = "eof" /\ ~PointersRead(PageIn(l))
          \/ k = "header" /\ ~PageIn(l).sane
          \/ k = "sum" /\ ~sum}

FormatHeader(l) ==
  /\ active = l /\ pc[l] = "header"
  /\ \E sum \in ChecksumOutcomes(l) : Complain(l, HeaderErrors(l, sum))
  /\ Goto(l, IF bytesToFormat < HeaderSize \/ ~PointersRead(PageIn(l))
               THEN "next"
             ELSE IF PageIn(l).meta /\ bytesToFormat = BlockSize
               THEN "special"
             ELSE "items")
  /\ item' = [item EXCEPT ![l] = 1]
  /\ UNCHANGED <<img, opts, active, fpos, currentBlock, own, value,
                 bytesToFormat, pageOffset, specialType>>

(* The items are done, or the item array is empty.                         *)
ItemsDone(l) ==
  /\ active = l /\ pc[l] = "items"
  /\ item[l] > Len(PageIn(l).items)
  /\ Goto(l, "special")
  /\ UNCHANGED <<img, opts, active, fpos, currentBlock, own, item, value,
                 globals, errors>>

AtItem(l) ==
  /\ active = l /\ pc[l] = "items"
  /\ item[l] <= Len(PageIn(l).items)

\* Variant: an item may not end where the block ends.
FitsStrictly(l) == ItemIn(l).end < BlockSize /\ ItemIn(l).end <= bytesToFormat

(* "Make sure the item can physically fit on this block": judged by the    *)
(* shared bytesToFormat.                                                   *)
Fits(l) == ItemIn(l).end <= BlockSize /\ ItemIn(l).end <= bytesToFormat

NextItem(l) == item' = [item EXCEPT ![l] = @ + 1]

ItemBeyondBlock(l) ==
  /\ AtItem(l)
  /\ ~Fits(l)
  /\ Complain(l, {"item"})
  /\ NextItem(l)
  /\ UNCHANGED <<img, opts, active, pc, fpos, currentBlock, own, value,
                 bytesToFormat, pageOffset, specialType>>

Skipped(l) == opts.ignoreOld /\ ItemIn(l).old

(* A main tuple whose external value is to be fetched.                     *)
External ==
  /\ ~Skipped("main")
  /\ opts.decode /\ ItemIn("main").normal
  /\ opts.toast /\ ItemIn("main").oid # 0

(* A main tuple that is only described, or decoded without leaving the     *)
(* block.                                                                  *)
MainItem ==
  /\ AtItem("main")
  /\ Fits("main")
  /\ ~External
  /\ NextItem("main")
  /\ UNCHANGED <<img, opts, active, pc, fpos, currentBlock, own, value,
                 globals, errors>>

\* Variant: the TOAST file is not read from its start again.
DetourNoRewind ==
  /\ AtItem("main")
  /\ Fits("main")
  /\ External
  /\ img["toast"] # NoFile
  /\ Complain("toast", BlockSizeErrors("toast"))
  /\ active' = "toast"
  /\ Goto("toast", "read")
  /\ currentBlock' = [currentBlock EXCEPT !["toast"] = 0]
  /\ own' = [own EXCEPT !["toast"] = 0]
  /\ item' = [item EXCEPT !["toast"] = 0]
  /\ toastDataRead' = 0
  /\ toastValue' = <<>>
  /\ UNCHANGED <<img, opts, fpos, emitted, bytesToFormat, pageOffset,
                 specialType>>

(* ReadStringFromToast opens the TOAST file and dumps it from block 0;     *)
(* GetBlockSize complains when not even a header can be read.              *)
Detour ==
  /\ AtItem("main")
  /\ Fits("main")
  /\ External
  /\ img["toast"] # NoFile
  /\ Complain("toast", BlockSizeErrors("toast"))
  /\ active' = "toast"
  /\ Goto("toast", "read")
  /\ fpos' = [fpos EXCEPT !["toast"] = 0]
  /\ currentBlock' = [currentBlock EXCEPT !["toast"] = 0]
  /\ own' = [own EXCEPT !["toast"] = 0]
  /\ item' = [item EXCEPT !["toast"] = 0]
  /\ toastDataRead' = 0
  /\ toastValue' = <<>>
  /\ UNCHANGED <<img, opts, emitted, bytesToFormat, pageOffset, specialType>>

(* The TOAST file cannot be opened: the result is -1 and the row is given  *)
(* up, but fclose is called on the null stream, which is undefined: the    *)
(* program may go on or die there.                                         *)
DetourUnopened ==
  /\ AtItem("main")
  /\ Fits("main")
  /\ External
  /\ img["toast"] = NoFile
  /\ \/ NextItem("main") /\ UNCHANGED active
     \/ active' = "crash" /\ UNCHANGED item
  /\ UNCHANGED <<img, opts, pc, fpos, currentBlock, own, value, globals, errors>>

(* ToastChunkDecode copies the tuple's data if it is part of the value,    *)
(* taking chunks in the order they lie in the file; the item loop is left  *)
(* once enough bytes have been collected.                                  *)
\* Variant: the whole size must be exceeded.
MoreThanEnough(n) == n > Wanted.bytes

Enough(n) == n >= Wanted.bytes

\* Variant: every chunk of the file is copied.
CollectedAny(chunk) == Append(toastValue, chunk.seq)

CollectedWith(chunk) ==
  IF chunk.oid = Wanted.oid THEN Append(toastValue, chunk.seq) ELSE toastValue

ToastItem ==
  /\ AtItem("toast")
  /\ Fits("toast")
  /\ IF Skipped("toast")
       THEN /\ NextItem("toast")
            /\ UNCHANGED <<pc, toastDataRead, toastValue>>
       ELSE LET chunk == ItemIn("toast")
            IN /\ toastValue' = CollectedWith(chunk)
               /\ toastDataRead' = toastDataRead
                    + (IF chunk.oid = Wanted.oid THEN chunk.bytes ELSE 0)
               /\ IF Enough(toastDataRead')
                    THEN Goto("toast", "special") /\ UNCHANGED item
                    ELSE NextItem("toast") /\ UNCHANGED pc
  /\ UNCHANGED <<img, opts, active, fpos, currentBlock, own, emitted, globals,
                 errors>>

(* FormatSpecial, unless there is no special section.                      *)
FormatSpecial(l) ==
  /\ active = l /\ pc[l] = "special"
  /\ Complain(l, IF specialType \in {"unknown", "boundary"}
                   THEN {"special"} ELSE {})
  /\ Goto(l, "next")
  /\ UNCHANGED <<img, opts, active, fpos, currentBlock, own, item, value,
                 bytesToFormat, pageOffset, specialType>>

(* The end of the loop body: the end of the range or, for a TOAST file,    *)
(* enough bytes ends the loop.                                             *)
\* Variant: one block too many.
PastRangeEnd(l) == Ranged(l) /\ currentBlock[l] > opts.last

AtRangeEnd(l) == Ranged(l) /\ currentBlock[l] >= opts.last

NextBlock(l) ==
  /\ active = l /\ pc[l] = "next"
  /\ currentBlock' = [currentBlock EXCEPT ![l] =
                        IF AtRangeEnd(l) THEN @ ELSE @ + 1]
  /\ Goto(l, IF AtRangeEnd(l) \/ (l = "toast" /\ Enough(toastDataRead))
               THEN "finished" ELSE "read")
  /\ UNCHANGED <<img, opts, active, fpos, own, item, value, globals, errors>>

\* Variant: the outer loop looks at the same item again.
ReturnToSameItem ==
  /\ active = "toast" /\ pc["toast"] = "finished"
  /\ emitted' = toastValue
  /\ active' = "main"
  /\ Goto("toast", "closed")
  /\ UNCHANGED <<img, opts, fpos, currentBlock, own, item, toastDataRead,
                 toastValue, globals, errors>>

\* Variant: the outer loop is left along with the inner one.
ReturnLeavingItems ==
  /\ active = "toast" /\ pc["toast"] = "finished"
  /\ emitted' = toastValue
  /\ active' = "main"
  /\ pc' = [pc EXCEPT !["toast"] = "closed", !["main"] = "special"]
  /\ NextItem("main")
  /\ UNCHANGED <<img, opts, fpos, currentBlock, own, toastDataRead, toastValue,
                 globals, errors>>

(* Back in ReadStringFromToast: the result is 0 however much was found, so *)
(* the value is appended to the row; the outer item loop goes on.          *)
Return ==
  /\ active = "toast" /\ pc["toast"] = "finished"
  /\ emitted' = toastValue
  /\ active' = "main"
  /\ Goto("toast", "closed")
  /\ NextItem("main")
  /\ UNCHANGED <<img, opts, fpos, currentBlock, own, toastDataRead, toastValue,
                 globals, errors>>

(* main stores the result of DumpFileContents over exitCode and exits.     *)
Exit ==
  /\ active = "main" /\ pc["main"] = "finished"
  /\ active' = "exit"
  /\ exitCode' = 0
  /\ UNCHANGED <<img, opts, locals, value, bytesToFormat, pageOffset,
                 specialType, errors>>

Ended ==
  /\ active \in {"exit", "crash"}
  /\ UNCHANGED vars

Next ==
  \/ Start \/ StartFails
  \/ \E l \in Levels : \/ ReadBlock(l) \/ ReadNothing(l)
                       \/ FormatHeader(l) \/ ItemsDone(l)
                       \/ ItemBeyondBlock(l)
                       \/ FormatSpecial(l) \/ NextBlock(l)
  \/ MainItem \/ ToastItem
  \/ Detour \/ DetourUnopened \/ Return
  \/ Exit \/ Ended

Spec == Init /\ [][Next]_vars
(* One thread of control that never waits.                                 *)
FairSpec == Spec /\ WF_vars(Next)
(***************************************************************************)
(* Properties                                                              *)
(***************************************************************************)

InBlock(l) == pc[l] \in {"header", "items", "special"}

(* Every variable keeps its type: no stream position goes below 0, nothing *)
(* longer than a block is formatted.                                       *)
TypeOK ==
  /\ IsFile(img["main"])
  /\ img["toast"] = NoFile \/ IsFile(img["toast"])
  /\ opts \in Options
  /\ active \in Levels \cup {"exit", "crash"}
  /\ pc \in [Levels -> {"closed", "open", "read", "header", "items", "special",
                       "next", "finished", "failed"}]
  /\ fpos \in [Levels -> Nat]
  /\ currentBlock \in [Levels -> Nat]
  /\ own \in [Levels -> 0..BlockSize]
  /\ item \in [Levels -> Nat]
  /\ toastDataRead \in Nat
  /\ toastValue \in Seq(Nat)
  /\ emitted \in Seq(Nat)
  /\ bytesToFormat \in 0..BlockSize
  /\ pageOffset \in Nat
  /\ specialType \in {"none", "unknown", "boundary", "sequence", "index"}
  /\ exitCode \in {0, 1}
  /\ errors \subseteq Levels \X {"seek", "premature", "eof", "header", "sum",
                              "item", "special"}

(* The block shown under a number is the block of that number: what is in  *)
(* the buffer was read from BlockSize times that number, on both levels.   *)
BlockNumberTrue ==
  \A l \in Levels :
    InBlock(l) => fpos[l] - own[l] = BlockSize * currentBlock[l]

HealthyPage(page) ==
  /\ page.sane /\ page.sumOK
  /\ page.special \in 1..BlockSize
  /\ page.special = BlockSize \/ page.index # "unknown"
  /\ HeaderSize + Len(page.items) <= BlockSize
  /\ \A i \in 1..Len(page.items) : page.items[i].end <= BlockSize

HealthyFile(f) ==
  /\ f # NoFile
  /\ f.size = BlockSize * Len(f.pages)
  /\ f.size > 0
  /\ \A p \in 1..Len(f.pages) : HealthyPage(f.pages[p])

(* The only errors a healthy file is to blame for: the seek failed, or the *)
(* range asked for begins where the file has ended.                        *)
OnlyTheRange ==
  /\ errors \subseteq {<<"main", "seek">>, <<"main", "premature">>}
  /\ <<"main", "premature">> \in errors =>
       opts.range /\ BlockSize * opts.first >= img["main"].size

(* As long as no external values are fetched, nothing that is in a healthy *)
(* file is called an error: a message is printed only when the seek fails  *)
(* or the range begins past the end.                                       *)
NoFalseAlarm == HealthyFile(img["main"]) /\ ~opts.toast => OnlyTheRange

(* Where the chunks of a value lie in a TOAST file: page and item.         *)
ChunksOf(f, oid) ==
  {at \in (1..Len(f.pages)) \X (0..BlockSize) :
     /\ at[2] \in 1..Len(f.pages[at[1]].items)
     /\ f.pages[at[1]].items[at[2]].oid = oid}

ChunkAt(f, at) == f.pages[at[1]].items[at[2]]

Before(at, to) == at[1] < to[1] \/ (at[1] = to[1] /\ at[2] < to[2])

(* The n one-unit chunks of the value lie in the file in order, none old.  *)
(* A TOAST file is a heap: none of its pages is the meta page of an index. *)
StoredInOrder(f, oid, n) ==
  /\ HealthyFile(f)
  /\ \A p \in 1..Len(f.pages) : ~f.pages[p].meta
  /\ n > 0
  /\ {ChunkAt(f, at).seq : at \in ChunksOf(f, oid)} = 1..n
  /\ \A at \in ChunksOf(f, oid) :
       /\ ChunkAt(f, at).bytes = 1
       /\ ~ChunkAt(f, at).old
       /\ \A to \in ChunksOf(f, oid) :
            Before(at, to) => ChunkAt(f, at).seq < ChunkAt(f, to).seq

(* A value stored in order and in full comes out as it was put in, neither *)
(* chunks of other values nor later ones mixed in.                         *)
ValueRestored ==
  pc["toast"] = "finished" /\ StoredInOrder(img["toast"], Wanted.oid, Wanted.bytes)
    => toastValue = [k \in 1..Wanted.bytes |-> k]

PointersOf(f) ==
  {w \in UNION {{f.pages[p].items[i] : i \in 1..Len(f.pages[p].items)} :
                  p \in 1..Len(f.pages)} : w.oid # 0}

(* Nor is a false error printed when values are fetched, provided all are  *)
(* found in a healthy file: the detour then ends inside a full block and   *)
(* leaves the shared variables as the outer block needs them; and the file *)
(* it reads is not empty, so no premature end is met either.               *)
NoFalseAlarmWhenFound ==
  /\ HealthyFile(img["main"])
  /\ \A w \in PointersOf(img["main"]) :
       StoredInOrder(img["toast"], w.oid, w.bytes)
  /\ ~opts.laterSegment
  => OnlyTheRange

(* Each block of the range that exists is dumped once, in order, and the   *)
(* dump ends with the range or the file.                                   *)
LastAsked ==
  IF opts.range THEN opts.last
  ELSE IF opts.mode = "control" THEN 0 ELSE Len(img["main"].pages)

FirstAsked == IF opts.range THEN opts.first ELSE 0

(* The block in the buffer is done when the loop leaves it, and when the   *)
(* loop ends after a block rather than at the end of the file.             *)
NextAsked ==
  IF pc["main"] \in {"open", "failed"} THEN FirstAsked
  ELSE IF pc["main"] = "finished" /\ own["main"] > 0
    THEN currentBlock["main"] + 1
  ELSE currentBlock["main"]

Outcome ==
  IF active = "exit" /\ pc["main"] = "finished" THEN "complete"
  ELSE IF active = "crash" \/ pc["main"] = "failed" THEN "failed"
  ELSE "dumping"

Range == INSTANCE RangeDump WITH
  size <- img["main"].size,
  first <- FirstAsked,
  last <- LastAsked,
  next <- NextAsked,
  status <- Outcome

RangeSpec == Range!Spec

(* What the file holds of its page p, that is of block p - 1, and whether  *)
(* the items of the page are gone through.                                 *)
BytesHeld(f, p) == Lesser(BlockSize, f.size - BlockSize * (p - 1))

ItemsShown(f, p) ==
  /\ BytesHeld(f, p) >= HeaderSize + Len(f.pages[p].items)
  /\ ~(f.pages[p].meta /\ BytesHeld(f, p) = BlockSize)

(* Item i of the page lies beyond the block, or beyond the bytes that were *)
(* read of it.  After a fetch for an item before it the shared count of    *)
(* bytes may be that of a TOAST block, so the second is not asked then.    *)
Beyond(f, p, i) ==
  LET items == f.pages[p].items
  IN \/ items[i].end > BlockSize
     \/ /\ items[i].end > BytesHeld(f, p)
        /\ opts.toast => \A j \in 1..(i - 1) : items[j].oid = 0

(* A dump that comes to its end has reported every block asked for that    *)
(* has an item beyond it, wherever the item is and whatever was fetched    *)
(* before: no detour makes the outer loop lose the rest of its block, or   *)
(* judge an item by what the inner loop left.                              *)
DamageReported ==
  Outcome = "complete" /\ opts.mode = "interpret" =>
    \A p \in 1..Len(img["main"].pages) :
      /\ p - 1 \in FirstAsked..LastAsked
      /\ ItemsShown(img["main"], p)
      /\ \E i \in 1..Len(img["main"].pages[p].items) : Beyond(img["main"], p, i)
      => <<"main", "item">> \in errors

(* The program ends whatever the files hold, detours included.             *)
Terminates == <>(active \in {"exit", "crash"})

(* "Make sure the item can physically fit on this block before formatting" *)
(* (pg_filedump.c:1358): items of a healthy file are never found not to.   *)
ItemsJudgedFairly == HealthyFile(img["main"]) => <<"main", "item">> \notin errors

(* "Program exit code" (pg_filedump.c:97): what errors set survives to     *)
(* the exit (the premature end of a file is the one error that sets none). *)
StatusTellsErrors ==
  active = "exit" /\ (\E e \in errors : e[2] # "premature") => exitCode # 0
=============================================================================
