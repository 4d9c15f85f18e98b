------------------------- MODULE RelationDump_proofs -------------------------
(***************************************************************************)
(* Proofs about RelationDump for every set of files and options, block     *)
(* size and header size: its types and what each level knows of its block, *)
(* the range it dumps, the complaints it makes, the values it fetches, and *)
(* that it comes to an end.                                                *)
(* The position of the first block asked for is assumed to fit an unsigned *)
(* int (SeekFits): where it does not, another block is read and shown      *)
(* under the number asked for.                                             *)
(***************************************************************************)
EXTENDS RelationDump, TLAPS

SeekFits ==
  \A o \in OptionSets : o.range => BlockSize * o.first < WordRange

(* A block offset inside a file names one of its pages.                    *)
LEMMA PageNumber ==
  ASSUME NEW n \in Nat, NEW b \in Nat \ {0}, NEW len \in Nat, n < len * b
  PROVE  (n \div b) + 1 \in 1..len
<1> DEFINE q == n \div b
<1>1. q \in Int /\ b * q <= n /\ q >= 0
  OBVIOUS
<1>2. q < len
  <2>1. SUFFICES ASSUME q >= len PROVE FALSE
    BY <1>1
  <2>2. b * q >= b * len
    BY <1>1, <2>1
  <2> QED
    BY <1>1, <2>2
<1> QED
  BY <1>1, <1>2

(* One block further is BlockSize bytes further.                           *)
LEMMA NextBlockOffset ==
  ASSUME NEW c \in Nat
  PROVE  /\ BlockSize * (c + 1) = BlockSize * c + BlockSize
         /\ BlockSize * c \in Nat
  BY SizesAssumption

(* The unsigned product is exact below the word range.                     *)
LEMMA WrapExact ==
  ASSUME NEW n \in Nat, n < WordRange
  PROVE  Wrap(n) = n
  BY SizesAssumption DEF Wrap

(* An unsigned product is a number.                                        *)
LEMMA WrapType ==
  ASSUME NEW n \in Nat
  PROVE  Wrap(n) \in Nat
  BY SizesAssumption DEF Wrap

(* The part of the invariant about one level: where its stream stands      *)
(* relative to its block number.                                           *)
HoldsBlock(l) ==
  /\ own[l] > 0
  /\ fpos[l] = BlockSize * currentBlock[l] + own[l]
  /\ fpos[l] <= img[l].size
  /\ own[l] = BlockSize \/ fpos[l] = img[l].size

FrameOK(l) ==
  /\ pc[l] = "read" =>
       \/ fpos[l] = BlockSize * currentBlock[l]
       \/ fpos[l] >= img[l].size /\ fpos[l] <= BlockSize * currentBlock[l]
  /\ InBlock(l) \/ pc[l] = "next" => HoldsBlock(l)
  /\ pc[l] = "items" => item[l] >= 1

(* The TOAST level is live only while the main level waits at an item.     *)
Nesting ==
  /\ pc["toast"] # "closed" <=> active = "toast"
  /\ pc["toast"] # "open" /\ pc["toast"] # "failed"
  /\ active = "toast" => /\ img["toast"] # NoFile
                         /\ pc["main"] = "items"
                         /\ item["main"] <= Len(PageIn("main").items)

(* The level that has just read judges by its own bytes.                   *)
InnerJudgesOwn ==
  active = "toast" /\ InBlock("toast") =>
    /\ bytesToFormat = own["toast"]
    /\ pageOffset = Wrap(BlockSize * currentBlock["toast"])

IInv ==
  /\ TypeOK
  /\ opts \in OptionSets
  /\ FrameOK("main") /\ FrameOK("toast")
  /\ Nesting
  /\ InnerJudgesOwn

(* A level that is running reads a file.                                   *)
LEMMA ActiveFile ==
  ASSUME IInv, NEW l \in Levels, active = l
  PROVE  /\ IsFile(img[l]) /\ img[l].size \in Nat
         /\ img[l].pages \in Seq(Page)
         /\ fpos[l] \in Nat /\ currentBlock[l] \in Nat /\ item[l] \in Nat
         /\ own[l] \in 0..BlockSize /\ FrameOK(l)
<1>1. IsFile(img[l])
  BY DEF IInv, TypeOK, Nesting, Levels
<1>2. img[l].size \in Nat /\ img[l].pages \in Seq(Page)
  BY <1>1 DEF IsFile, File
<1> QED
  BY <1>1, <1>2 DEF IInv, TypeOK, Levels

(* What a read returns, and that it starts at a page.                      *)
LEMMA ReadBounds ==
  ASSUME IInv, NEW l \in Levels, active = l, pc[l] = "read"
  PROVE  /\ Available(l) \in 0..BlockSize
         /\ Available(l) > 0 =>
              /\ fpos[l] = BlockSize * currentBlock[l]
              /\ fpos[l] + Available(l) <= img[l].size
              /\ Available(l) = BlockSize \/ fpos[l] + Available(l) = img[l].size
              /\ PageAt(l) \in Page
<1>1. /\ IsFile(img[l]) /\ img[l].size \in Nat /\ img[l].pages \in Seq(Page)
      /\ fpos[l] \in Nat /\ FrameOK(l)
  BY ActiveFile
<1>2. BlockSize \in Nat \ {0}
  BY SizesAssumption
<1>3. Available(l) \in 0..BlockSize
  BY <1>1, <1>2 DEF Available, Lesser
<1>4. ASSUME Available(l) > 0
      PROVE  /\ fpos[l] < img[l].size
             /\ fpos[l] = BlockSize * currentBlock[l]
             /\ fpos[l] + Available(l) <= img[l].size
             /\ Available(l) = BlockSize \/ fpos[l] + Available(l) = img[l].size
  <2>1. fpos[l] < img[l].size
    BY <1>1, <1>4 DEF Available
  <2>2. fpos[l] = BlockSize * currentBlock[l]
    BY <1>1, <2>1 DEF FrameOK
  <2> QED
    BY <1>1, <1>2, <2>1, <2>2 DEF Available, Lesser
<1>5. ASSUME Available(l) > 0 PROVE PageAt(l) \in Page
  <2>1. fpos[l] < Len(img[l].pages) * BlockSize /\ Len(img[l].pages) \in Nat
    BY <1>1, <1>4, <1>5, <1>2 DEF IsFile
  <2>2. (fpos[l] \div BlockSize) + 1 \in 1..Len(img[l].pages)
    BY <1>1, <1>2, <2>1, PageNumber
  <2> QED
    BY <1>1, <2>2 DEF PageAt
<1> QED
  BY <1>3, <1>4, <1>5

(* A level that holds a block holds a page.                                *)
LEMMA HeldPage ==
  ASSUME IInv, NEW l \in Levels, IsFile(img[l]), HoldsBlock(l)
  PROVE  PageIn(l) \in Page /\ PageIn(l).items \in Seq(Item)
<1>1. /\ img[l].size \in Nat /\ img[l].pages \in Seq(Page)
      /\ img[l].size <= Len(img[l].pages) * BlockSize
  BY DEF IsFile, File
<1>2. BlockSize \in Nat \ {0}
  BY SizesAssumption
<1>3. fpos[l] \in Nat /\ own[l] \in 0..BlockSize /\ currentBlock[l] \in Nat
  BY DEF IInv, TypeOK
<1>4. BlockSize * currentBlock[l] \in Nat
  BY <1>3, NextBlockOffset
<1>5. fpos[l] - own[l] \in Nat /\ fpos[l] - own[l] < Len(img[l].pages) * BlockSize
  <2> DEFINE b == BlockSize * currentBlock[l]
             w == own[l]
             n == fpos[l]
             end == Len(img[l].pages) * BlockSize
  <2>1. n = b + w /\ w > 0 /\ n <= img[l].size
    BY DEF HoldsBlock
  <2>2. b \in Nat /\ w \in Nat /\ n \in Nat
    BY <1>2, <1>3, <1>4
  <2>3. end \in Nat /\ img[l].size <= end
    BY <1>1, <1>2
  <2> HIDE DEF b, w, n, end
  <2>4. n - w \in Nat /\ n - w < end
    BY <1>1, <2>1, <2>2, <2>3
  <2> QED
    BY <2>4 DEF n, w, end
<1>6. ((fpos[l] - own[l]) \div BlockSize) + 1 \in 1..Len(img[l].pages)
  <2> DEFINE at == fpos[l] - own[l]
             pages == Len(img[l].pages)
  <2>1. at \in Nat /\ pages \in Nat /\ at < pages * BlockSize
    BY <1>1, <1>5
  <2> HIDE DEF at, pages
  <2>2. (at \div BlockSize) + 1 \in 1..pages
    BY <1>2, <2>1, PageNumber
  <2> QED
    BY <2>2 DEF at, pages
<1>7. PageIn(l) \in Page
  BY <1>1, <1>6 DEF PageIn
<1> QED
  BY <1>7 DEF Page

(* The invariant holds initially.                                          *)
LEMMA InitIInv == Init => IInv
<1> SUFFICES ASSUME Init PROVE IInv
  OBVIOUS
<1>1. PICK m \in MainFiles, t \in ToastFiles : img = [main |-> m, toast |-> t]
  BY DEF Init
<1>2. IsFile(img["main"]) /\ (img["toast"] = NoFile \/ IsFile(img["toast"]))
  BY <1>1, FilesAssumption
<1>3. opts \in Options /\ opts \in OptionSets
  BY OptionsAssumption DEF Init
<1>4. /\ pc \in [Levels -> {"closed", "open", "read", "header", "items",
                             "special", "next", "finished", "failed"}]
      /\ fpos \in [Levels -> Nat] /\ currentBlock \in [Levels -> Nat]
      /\ item \in [Levels -> Nat] /\ own \in [Levels -> 0..BlockSize]
      /\ bytesToFormat \in 0..BlockSize
  BY SizesAssumption DEF Init, Levels
<1>5. /\ toastDataRead \in Nat /\ toastValue \in Seq(Nat) /\ emitted \in Seq(Nat)
      /\ pageOffset \in Nat /\ exitCode \in {0, 1}
      /\ errors = {} /\ active \in Levels
  BY DEF Init, Levels
<1>6. specialType \in {"none", "unknown", "boundary", "sequence", "index"}
  BY DEF Init
<1>7. TypeOK
  BY <1>2, <1>3, <1>4, <1>5, <1>6 DEF TypeOK
<1>8. FrameOK("main") /\ FrameOK("toast") /\ Nesting /\ InnerJudgesOwn
  BY DEF Init, FrameOK, Nesting, InnerJudgesOwn, InBlock
<1> QED
  BY <1>3, <1>7, <1>8 DEF IInv

(* Complaining keeps the types of the error log and the exit code.         *)
LEMMA ComplainType ==
  ASSUME TypeOK, NEW l \in Levels, NEW kinds, Complain(l, kinds),
         kinds \subseteq {"seek", "eof", "header", "sum", "item", "special"}
  PROVE  /\ errors' \subseteq Levels \X {"seek", "premature", "eof", "header",
                                         "sum", "item", "special"}
         /\ exitCode' \in {0, 1}
<1>1. exitCode' \in {0, 1}
  BY DEF Complain, TypeOK
<1>2. {<<l, k>> : k \in kinds} \subseteq
        Levels \X {"seek", "premature", "eof", "header",
                   "sum", "item", "special"}
  OBVIOUS
<1>3. errors' = errors \cup {<<l, k>> : k \in kinds}
  BY DEF Complain
<1>4. errors \subseteq Levels \X {"seek", "premature", "eof", "header",
                                  "sum", "item", "special"}
  BY DEF TypeOK
<1> QED
  BY <1>1, <1>2, <1>3, <1>4

(* Opening the dump keeps the invariant: the seek and the block number     *)
(* agree.                                                                  *)
LEMMA StartKeeps == ASSUME SeekFits, IInv, Start PROVE IInv'
<1>1. StartPosition \in Nat /\ currentBlock'["main"] \in Nat
      /\ StartPosition = BlockSize * currentBlock'["main"]
  <2>1. opts \in Options /\ opts \in OptionSets /\ opts.first \in Nat
    BY DEF IInv, TypeOK, Options
  <2>2. currentBlock'["main"] = IF opts.range THEN opts.first ELSE 0
    BY DEF IInv, TypeOK, Start, Levels
  <2>3. CASE opts.range
    <3>1. BlockSize * opts.first \in Nat
      BY <2>1, NextBlockOffset
    <3>2. BlockSize * opts.first < WordRange
      BY <2>1, <2>3 DEF SeekFits
    <3>3. Wrap(BlockSize * opts.first) = BlockSize * opts.first
      BY <3>1, <3>2, WrapExact
    <3> QED
      BY <2>1, <2>2, <2>3, <3>1, <3>3 DEF StartPosition
  <2>4. CASE ~opts.range
    BY <2>2, <2>4, SizesAssumption DEF StartPosition
  <2> QED
    BY <2>3, <2>4
<1>2. TypeOK'
  <2>1. /\ errors' \subseteq Levels \X {"seek", "premature", "eof", "header",
                                        "sum", "item", "special"}
        /\ exitCode' \in {0, 1}
    <3>1. "main" \in Levels
      BY DEF Levels
    <3>2. (IF SizeGiven THEN {} ELSE BlockSizeErrors("main"))
            \subseteq {"seek", "eof", "header", "sum", "item", "special"}
      BY DEF BlockSizeErrors
    <3> QED
      BY <3>1, <3>2, ComplainType DEF Start, IInv
  <2>2. fpos' \in [Levels -> Nat] /\ currentBlock' \in [Levels -> Nat]
    BY <1>1 DEF IInv, TypeOK, Start, Levels
  <2>3. pc' \in [Levels -> {"closed", "open", "read", "header", "items",
                            "special", "next", "finished", "failed"}]
    BY DEF IInv, TypeOK, Start, Goto
  <2> QED
    BY <2>1, <2>2, <2>3 DEF IInv, TypeOK, Start, value
<1>3. FrameOK("main")' /\ FrameOK("toast")'
  <2>1. pc'["main"] = "read" /\ fpos'["main"] = BlockSize * currentBlock'["main"]
    BY <1>1 DEF IInv, TypeOK, Start, Goto, Levels
  <2>2. FrameOK("main")'
    BY <2>1 DEF FrameOK, InBlock
  <2>3. FrameOK("toast")'
    BY DEF IInv, TypeOK, Start, Goto, Levels, FrameOK, InBlock, HoldsBlock
  <2> QED
    BY <2>2, <2>3
<1>4. Nesting' /\ InnerJudgesOwn' /\ (opts \in OptionSets)'
  BY DEF IInv, TypeOK, Start, Goto, Levels, Nesting, InnerJudgesOwn
<1> QED
  BY <1>2, <1>3, <1>4 DEF IInv

(* A failed seek ends the program.                                         *)
LEMMA StartFailsKeeps == ASSUME IInv, StartFails PROVE IInv'
<1>1. TypeOK'
  <2>1. errors' \subseteq Levels \X {"seek", "premature", "eof", "header",
                                     "sum", "item", "special"}
    <3>1. "main" \in Levels
      BY DEF Levels
    <3>2. {"seek"} \cup (IF SizeGiven THEN {} ELSE BlockSizeErrors("main"))
            \subseteq {"seek", "eof", "header", "sum", "item", "special"}
      BY DEF BlockSizeErrors
    <3> QED
      BY <3>1, <3>2, ComplainType DEF StartFails, IInv
  <2>2. pc' \in [Levels -> {"closed", "open", "read", "header", "items",
                            "special", "next", "finished", "failed"}]
    BY DEF IInv, TypeOK, StartFails, Goto
  <2> QED
    BY <2>1, <2>2 DEF IInv, TypeOK, StartFails, Complain, value
<1>2. FrameOK("main")' /\ FrameOK("toast")'
  BY DEF IInv, TypeOK, StartFails, Goto, Levels, FrameOK, InBlock, HoldsBlock
<1>3. Nesting' /\ InnerJudgesOwn' /\ (opts \in OptionSets)'
  BY DEF IInv, TypeOK, StartFails, Goto, Levels, Nesting, InnerJudgesOwn
<1> QED
  BY <1>1, <1>2, <1>3 DEF IInv

(* A read fills the buffer with the block the number says.                 *)
LEMMA ReadBlockKeeps ==
  ASSUME IInv, NEW l \in Levels, ReadBlock(l) PROVE IInv'
<1>0. /\ active = l /\ pc[l] = "read" /\ Available(l) > 0
      /\ own' = [own EXCEPT ![l] = Available(l)]
      /\ bytesToFormat' = Available(l)
      /\ fpos' = [fpos EXCEPT ![l] = @ + Available(l)]
      /\ pc' \in {[pc EXCEPT ![l] = w] : w \in {"header", "finished", "next"}}
      /\ UNCHANGED <<img, opts, active, currentBlock, item, value, exitCode,
                     errors>>
  BY DEF ReadBlock, BytesRead, Goto
<1>1. /\ Available(l) \in 0..BlockSize
      /\ fpos[l] = BlockSize * currentBlock[l]
      /\ fpos[l] + Available(l) <= img[l].size
      /\ Available(l) = BlockSize \/ fpos[l] + Available(l) = img[l].size
      /\ PageAt(l) \in Page
  BY <1>0, ReadBounds
<1>2. /\ fpos \in [Levels -> Nat] /\ own \in [Levels -> 0..BlockSize]
      /\ currentBlock \in [Levels -> Nat]
      /\ pc \in [Levels -> {"closed", "open", "read", "header", "items",
                            "special", "next", "finished", "failed"}]
  BY DEF IInv, TypeOK
<1>3. Mode(l) = "interpret" \/ l = "main"
  BY DEF Mode, Levels
<1>4. TypeOK'
  <2>1. fpos' \in [Levels -> Nat] /\ own' \in [Levels -> 0..BlockSize]
        /\ bytesToFormat' \in 0..BlockSize
    BY <1>0, <1>1, <1>2, SizesAssumption
  <2>2. pc' \in [Levels -> {"closed", "open", "read", "header", "items",
                            "special", "next", "finished", "failed"}]
    BY <1>0, <1>2
  <2>3. pageOffset' \in Nat
    <3>1. BlockSize * currentBlock[l] \in Nat
      BY <1>2, NextBlockOffset
    <3>2. Wrap(BlockSize * currentBlock[l]) \in Nat
      BY <3>1, WrapType
    <3> QED
      BY <3>2 DEF ReadBlock, IInv, TypeOK
  <2>4. specialType' \in {"none", "unknown", "boundary", "sequence", "index"}
    <3>1. PageAt(l).index \in {"sequence", "index", "unknown"}
      BY <1>1 DEF Page
    <3>2. SpecialOf(PageAt(l), bytesToFormat') \in
            {"none", "unknown", "boundary", "sequence", "index"}
      BY <3>1, <2>1, SizesAssumption DEF SpecialOf
    <3> QED
      BY <3>2 DEF ReadBlock, IInv, TypeOK
  <2> QED
    BY <1>0, <2>1, <2>2, <2>3, <2>4 DEF IInv, TypeOK, value
<1>5. HoldsBlock(l)'
  BY <1>0, <1>1, <1>2, SizesAssumption DEF HoldsBlock
<1>6. ASSUME NEW k \in Levels, k # l, FrameOK(k) PROVE FrameOK(k)'
  BY <1>0, <1>2, <1>6 DEF FrameOK, InBlock, HoldsBlock
<1>7. FrameOK(l)'
  BY <1>0, <1>2, <1>5 DEF FrameOK, InBlock
<1>8. FrameOK("main")' /\ FrameOK("toast")'
  BY <1>6, <1>7 DEF IInv, Levels
<1>9. Nesting'
  <2>1. active = "toast" => l = "toast"
    BY <1>0
  <2> QED
    BY <1>0, <1>2, <2>1 DEF IInv, Nesting, Levels, PageIn
<1>10. InnerJudgesOwn'
  <2>1. active = "toast" => l = "toast" /\ Mode(l) = "interpret"
    BY <1>0 DEF Mode
  <2>2. active = "toast" => pageOffset' = Wrap(BlockSize * currentBlock["toast"])
    BY <2>1 DEF ReadBlock
  <2> QED
    BY <1>0, <1>2, <2>1, <2>2 DEF InnerJudgesOwn
<1> QED
  BY <1>0, <1>4, <1>8, <1>9, <1>10 DEF IInv

(* End of file leaves the loop.                                            *)
LEMMA ReadNothingKeeps ==
  ASSUME IInv, NEW l \in Levels, ReadNothing(l) PROVE IInv'
<1>1. TypeOK'
  <2>1. errors' \subseteq Levels \X {"seek", "premature", "eof", "header",
                                     "sum", "item", "special"}
    <3>1. errors' \subseteq errors \cup {<<l, "premature">>}
      BY DEF ReadNothing
    <3> QED
      BY <3>1 DEF IInv, TypeOK
  <2> QED
    BY <2>1, SizesAssumption DEF IInv, TypeOK, ReadNothing, Goto, value
<1>2. ASSUME NEW k \in Levels, FrameOK(k) PROVE FrameOK(k)'
  BY <1>2 DEF IInv, TypeOK, ReadNothing, Goto, FrameOK, InBlock, HoldsBlock
<1>3. FrameOK("main")' /\ FrameOK("toast")'
  BY <1>2 DEF IInv, Levels
<1>4. Nesting' /\ InnerJudgesOwn'
  <2>1. active = "toast" => l = "toast"
    BY DEF ReadNothing
  <2> QED
    BY <2>1 DEF IInv, TypeOK, ReadNothing, Goto, Levels, Nesting, PageIn,
                InnerJudgesOwn, InBlock
<1> QED
  BY <1>1, <1>3, <1>4 DEF IInv, ReadNothing

(* The header is looked at, the first item is next.                        *)
LEMMA FormatHeaderKeeps ==
  ASSUME IInv, NEW l \in Levels, FormatHeader(l) PROVE IInv'
<1>0. /\ active = l /\ pc[l] = "header"
      /\ item' = [item EXCEPT ![l] = 1]
      /\ \E w \in {"next", "special", "items"} : pc' = [pc EXCEPT ![l] = w]
      /\ UNCHANGED <<img, opts, active, fpos, currentBlock, own, value,
                     bytesToFormat, pageOffset, specialType>>
  BY DEF FormatHeader, Goto
<1>1. TypeOK'
  <2>1. /\ errors' \subseteq Levels \X {"seek", "premature", "eof", "header",
                                        "sum", "item", "special"}
        /\ exitCode' \in {0, 1}
    <3>1. PICK sum \in ChecksumOutcomes(l) : Complain(l, HeaderErrors(l, sum))
      BY DEF FormatHeader
    <3>2. HeaderErrors(l, sum) \subseteq {"eof", "header", "sum", "item", "special"}
      BY DEF HeaderErrors
    <3> QED
      BY <3>1, <3>2, ComplainType DEF IInv
  <2>2. item' \in [Levels -> Nat]
        /\ pc' \in [Levels -> {"closed", "open", "read", "header", "items",
                            "special", "next", "finished", "failed"}]
    BY <1>0 DEF IInv, TypeOK
  <2> QED
    BY <1>0, <2>1, <2>2 DEF IInv, TypeOK, value
<1>2. ASSUME NEW k \in Levels, FrameOK(k) PROVE FrameOK(k)'
  <2>1. /\ DOMAIN pc = Levels /\ DOMAIN item = Levels
        /\ item[k] \in Nat
    BY DEF IInv, TypeOK
  <2>2. HoldsBlock(k) => HoldsBlock(k)'
    BY <1>0 DEF HoldsBlock
  <2>3. /\ pc'[k] = "read" => pc[k] = "read"
        /\ InBlock(k)' \/ pc'[k] = "next" => InBlock(k) \/ pc[k] = "next"
    <3>1. k = l => /\ pc[k] = "header" /\ pc'[k] # "read"
                   /\ InBlock(k)' \/ pc'[k] = "next"
      BY <1>0, <2>1 DEF InBlock
    <3>2. k # l => pc'[k] = pc[k]
      BY <1>0, <2>1
    <3> QED
      BY <3>1, <3>2 DEF InBlock
  <2>4. pc'[k] = "items" => item'[k] >= 1
    <3>1. k = l => item'[k] = 1
      BY <1>0, <2>1
    <3>2. k # l => pc'[k] = pc[k] /\ item'[k] = item[k]
      BY <1>0, <2>1
    <3> QED
      BY <1>2, <2>1, <3>1, <3>2 DEF FrameOK
  <2> QED
    BY <1>0, <1>2, <2>2, <2>3, <2>4 DEF FrameOK
<1>3. FrameOK("main")' /\ FrameOK("toast")'
  BY <1>2 DEF IInv, Levels
<1>4. Nesting' /\ InnerJudgesOwn'
  <2>1. active = "toast" => l = "toast"
    BY <1>0
  <2> QED
    BY <1>0, <2>1 DEF IInv, TypeOK, Levels, Nesting, PageIn, InnerJudgesOwn,
                      InBlock
<1> QED
  BY <1>0, <1>1, <1>3, <1>4 DEF IInv

(* From the items to the special section.                                  *)
LEMMA ItemsDoneKeeps ==
  ASSUME IInv, NEW l \in Levels, ItemsDone(l) PROVE IInv'
<1>1. TypeOK'
  BY DEF IInv, TypeOK, ItemsDone, Goto, value, globals
<1>2. ASSUME NEW k \in Levels, FrameOK(k) PROVE FrameOK(k)'
  BY <1>2 DEF IInv, TypeOK, ItemsDone, Goto, FrameOK, InBlock, HoldsBlock
<1>3. FrameOK("main")' /\ FrameOK("toast")'
  BY <1>2 DEF IInv, Levels
<1>4. Nesting' /\ InnerJudgesOwn'
  <2>1. active = "toast" => l = "toast"
    BY DEF ItemsDone
  <2> QED
    BY <2>1 DEF IInv, TypeOK, ItemsDone, Goto, Levels, Nesting, PageIn,
                InnerJudgesOwn, InBlock, globals
<1> QED
  BY <1>1, <1>3, <1>4 DEF IInv, ItemsDone

(* An item that does not fit is reported and passed by.                    *)
LEMMA ItemBeyondBlockKeeps ==
  ASSUME IInv, NEW l \in Levels, ItemBeyondBlock(l) PROVE IInv'
<1>0. /\ active = l /\ pc[l] = "items"
      /\ item' = [item EXCEPT ![l] = @ + 1]
      /\ UNCHANGED <<img, opts, active, pc, fpos, currentBlock, own, value,
                     bytesToFormat, pageOffset, specialType>>
  BY DEF ItemBeyondBlock, AtItem, NextItem
<1>1. TypeOK'
  <2>1. /\ errors' \subseteq Levels \X {"seek", "premature", "eof", "header",
                                        "sum", "item", "special"}
        /\ exitCode' \in {0, 1}
    BY ComplainType DEF ItemBeyondBlock, IInv
  <2>2. item' \in [Levels -> Nat]
    BY <1>0 DEF IInv, TypeOK
  <2> QED
    BY <1>0, <2>1, <2>2 DEF IInv, TypeOK, value
<1>2. ASSUME NEW k \in Levels, FrameOK(k) PROVE FrameOK(k)'
  BY <1>0, <1>2 DEF IInv, TypeOK, FrameOK, InBlock, HoldsBlock
<1>3. FrameOK("main")' /\ FrameOK("toast")'
  BY <1>2 DEF IInv, Levels
<1>4. Nesting' /\ InnerJudgesOwn'
  <2>1. active = "toast" => l = "toast"
    BY <1>0
  <2> QED
    BY <1>0, <2>1 DEF IInv, TypeOK, Levels, Nesting, PageIn, InnerJudgesOwn,
                      InBlock
<1> QED
  BY <1>0, <1>1, <1>3, <1>4 DEF IInv

(* The special section is looked at.                                       *)
LEMMA FormatSpecialKeeps ==
  ASSUME IInv, NEW l \in Levels, FormatSpecial(l) PROVE IInv'
<1>0. /\ active = l /\ pc[l] = "special"
      /\ pc' = [pc EXCEPT ![l] = "next"]
      /\ UNCHANGED <<img, opts, active, fpos, currentBlock, own, item, value,
                     bytesToFormat, pageOffset, specialType>>
  BY DEF FormatSpecial, Goto
<1>1. TypeOK'
  <2>1. /\ errors' \subseteq Levels \X {"seek", "premature", "eof", "header",
                                        "sum", "item", "special"}
        /\ exitCode' \in {0, 1}
    BY ComplainType DEF FormatSpecial, IInv
  <2>2. pc' \in [Levels -> {"closed", "open", "read", "header", "items",
                            "special", "next", "finished", "failed"}]
    BY <1>0 DEF IInv, TypeOK
  <2> QED
    BY <1>0, <2>1, <2>2 DEF IInv, TypeOK, value
<1>2. ASSUME NEW k \in Levels, FrameOK(k) PROVE FrameOK(k)'
  BY <1>0, <1>2 DEF IInv, TypeOK, FrameOK, InBlock, HoldsBlock
<1>3. FrameOK("main")' /\ FrameOK("toast")'
  BY <1>2 DEF IInv, Levels
<1>4. Nesting' /\ InnerJudgesOwn'
  <2>1. active = "toast" => l = "toast"
    BY <1>0
  <2> QED
    BY <1>0, <2>1 DEF IInv, TypeOK, Levels, Nesting, PageIn, InnerJudgesOwn,
                      InBlock
<1> QED
  BY <1>0, <1>1, <1>3, <1>4 DEF IInv

(* The block number and the stream position advance together: after a      *)
(* block shorter than BlockSize the stream is at the end of the file.      *)
LEMMA NextBlockKeeps ==
  ASSUME IInv, NEW l \in Levels, NextBlock(l) PROVE IInv'
<1>0. /\ active = l /\ pc[l] = "next"
      /\ \/ /\ currentBlock' = [currentBlock EXCEPT ![l] = @ + 1]
            /\ \E w \in {"read", "finished"} : pc' = [pc EXCEPT ![l] = w]
         \/ currentBlock' = currentBlock /\ pc' = [pc EXCEPT ![l] = "finished"]
      /\ UNCHANGED <<img, opts, active, fpos, own, item, value, globals, errors>>
  BY DEF NextBlock, Goto, IInv, TypeOK
<1>1. TypeOK'
  <2>1. currentBlock' \in [Levels -> Nat]
    <3>1. currentBlock \in [Levels -> Nat] /\ currentBlock[l] + 1 \in Nat
      BY DEF IInv, TypeOK
    <3>2. \/ currentBlock' = [currentBlock EXCEPT ![l] = currentBlock[l] + 1]
          \/ currentBlock' = currentBlock
      BY <1>0
    <3> QED
      BY <3>1, <3>2
  <2>2. pc' \in [Levels -> {"closed", "open", "read", "header", "items",
                            "special", "next", "finished", "failed"}]
    BY <1>0 DEF IInv, TypeOK
  <2> QED
    BY <1>0, <2>1, <2>2 DEF IInv, TypeOK, value, globals
<1>2. pc'[l] = "read" =>
        \/ fpos'[l] = BlockSize * currentBlock'[l]
        \/ /\ fpos'[l] >= img'[l].size
           /\ fpos'[l] <= BlockSize * currentBlock'[l]
  <2>1. /\ IsFile(img[l]) /\ img[l].size \in Nat
        /\ fpos[l] \in Nat /\ currentBlock[l] \in Nat
        /\ own[l] \in 0..BlockSize /\ FrameOK(l)
    BY <1>0, ActiveFile
  <2>2. HoldsBlock(l)
    BY <1>0, <2>1 DEF FrameOK
  <2>3. pc'[l] = "read" => currentBlock'[l] = currentBlock[l] + 1
    BY <1>0 DEF IInv, TypeOK
  <2>4. /\ BlockSize * (currentBlock[l] + 1) = BlockSize * currentBlock[l] + BlockSize
        /\ BlockSize * currentBlock[l] \in Nat
    BY <2>1, NextBlockOffset
  <2>5. \/ fpos[l] = BlockSize * (currentBlock[l] + 1)
        \/ /\ fpos[l] >= img[l].size
           /\ fpos[l] <= BlockSize * (currentBlock[l] + 1)
  <3> DEFINE b == BlockSize * currentBlock[l]
               c == BlockSize * (currentBlock[l] + 1)
    <3>1. c = b + BlockSize /\ b \in Nat /\ BlockSize \in Nat
      BY <2>4, SizesAssumption
    <3>2. /\ fpos[l] = b + own[l]
          /\ own[l] = BlockSize \/ fpos[l] = img[l].size
      BY <2>2 DEF HoldsBlock
    <3> HIDE DEF b, c
    <3>3. fpos[l] = c \/ (fpos[l] >= img[l].size /\ fpos[l] <= c)
      BY <2>1, <3>1, <3>2
    <3> QED
      BY <3>3 DEF c
  <2>6. img' = img /\ fpos' = fpos
    BY <1>0
  <2>7. CASE pc'[l] = "read"
    <3>1. currentBlock'[l] = currentBlock[l] + 1
      BY <2>3, <2>7
    <3> DEFINE d == BlockSize * (currentBlock[l] + 1)
               e == BlockSize * currentBlock'[l]
    <3>2. d = e
      BY <3>1
    <3>3. fpos[l] = d \/ (fpos[l] >= img[l].size /\ fpos[l] <= d)
      BY <2>5
    <3> HIDE DEF d, e
    <3>4. fpos'[l] = e \/ (fpos'[l] >= img'[l].size /\ fpos'[l] <= e)
      BY <2>6, <3>2, <3>3
    <3> QED
      BY <3>4 DEF e
  <2> QED
    BY <2>7
<1>3. ASSUME NEW k \in Levels, k # l, FrameOK(k) PROVE FrameOK(k)'
  BY <1>0, <1>3 DEF IInv, TypeOK, FrameOK, InBlock, HoldsBlock
<1>4. FrameOK(l)'
  BY <1>0, <1>2 DEF IInv, TypeOK, FrameOK, InBlock
<1>5. FrameOK("main")' /\ FrameOK("toast")'
  BY <1>3, <1>4 DEF IInv, Levels
<1>6. Nesting' /\ InnerJudgesOwn'
  <2>1. active = "toast" => l = "toast"
    BY <1>0
  <2>2. active = "toast" =>
          /\ pc'["toast"] # "header"
          /\ pc'["toast"] # "items"
          /\ pc'["toast"] # "special"
    BY <1>0, <2>1 DEF IInv, TypeOK, Levels
  <2>3. InnerJudgesOwn'
    BY <1>0, <2>2 DEF InnerJudgesOwn, InBlock
  <2>4. Nesting'
    BY <1>0, <2>1 DEF IInv, TypeOK, Levels, Nesting, PageIn
  <2> QED
    BY <2>3, <2>4
<1> QED
  BY <1>0, <1>1, <1>5, <1>6 DEF IInv

(* A tuple that is not fetched is passed by.                               *)
LEMMA MainItemKeeps == ASSUME IInv, MainItem PROVE IInv'
<1>0. /\ active = "main"
      /\ item' = [item EXCEPT !["main"] = @ + 1]
      /\ UNCHANGED <<img, opts, active, pc, fpos, currentBlock, own, value,
                     globals, errors>>
  BY DEF MainItem, AtItem, NextItem
<1>1. TypeOK'
  BY <1>0 DEF IInv, TypeOK, value, globals
<1>2. FrameOK("main")' /\ FrameOK("toast")'
  BY <1>0 DEF IInv, TypeOK, Levels, FrameOK, InBlock, HoldsBlock
<1>3. Nesting' /\ InnerJudgesOwn'
  BY <1>0 DEF IInv, Nesting, InnerJudgesOwn
<1> QED
  BY <1>0, <1>1, <1>2, <1>3 DEF IInv

(* The tuples main looks at lie in its page.                               *)
LEMMA ItemAtHand ==
  ASSUME IInv, NEW l \in Levels, IsFile(img[l]), pc[l] = "items",
         item[l] <= Len(PageIn(l).items)
  PROVE  ItemIn(l) \in Item
<1>1. FrameOK(l)
  BY DEF IInv, Levels
<1>2. HoldsBlock(l) /\ item[l] >= 1
  BY <1>1 DEF FrameOK, InBlock
<1>3. PageIn(l).items \in Seq(Item)
  BY <1>2, HeldPage
<1>4. item[l] \in Nat
  BY DEF IInv, TypeOK
<1> QED
  BY <1>2, <1>3, <1>4 DEF ItemIn

(* A chunk is collected or passed by.                                      *)
LEMMA ToastItemKeeps == ASSUME IInv, ToastItem PROVE IInv'
<1>0. /\ active = "toast" /\ pc["toast"] = "items" /\ "toast" \in Levels
      /\ item["toast"] <= Len(PageIn("toast").items)
      /\ UNCHANGED <<img, opts, active, fpos, currentBlock, own, emitted,
                     globals, errors>>
  BY DEF ToastItem, AtItem, Levels
<1>1. ItemIn("toast") \in Item
  BY <1>0, ActiveFile, ItemAtHand
<1>2. /\ ItemIn("toast").bytes \in Nat
      /\ ItemIn("toast").seq \in Nat
  BY <1>1 DEF Item
<1>3. \/ pc' = pc /\ item' = [item EXCEPT !["toast"] = @ + 1]
      \/ pc' = [pc EXCEPT !["toast"] = "special"] /\ item' = item
  BY DEF ToastItem, NextItem, Goto
<1>4. TypeOK'
  <2>1. item' \in [Levels -> Nat]
    <3>1. item \in [Levels -> Nat]
      BY DEF IInv, TypeOK
    <3>2. [item EXCEPT !["toast"] = @ + 1] \in [Levels -> Nat]
      BY <1>0, <3>1
    <3> QED
      BY <1>3, <3>1, <3>2
  <2>2. pc' \in [Levels -> {"closed", "open", "read", "header", "items",
                            "special", "next", "finished", "failed"}]
    BY <1>3 DEF IInv, TypeOK
  <2>3. toastDataRead' \in Nat
    BY <1>2 DEF ToastItem, IInv, TypeOK
  <2>4. toastValue' \in Seq(Nat)
    <3>1. toastValue \in Seq(Nat)
      BY DEF IInv, TypeOK
    <3>2. Append(toastValue, ItemIn("toast").seq) \in Seq(Nat)
      BY <1>2, <3>1
    <3>3. toastValue' = toastValue \/ toastValue' = CollectedWith(ItemIn("toast"))
      BY DEF ToastItem
    <3> QED
      BY <3>1, <3>2, <3>3 DEF CollectedWith
  <2> QED
    BY <1>0, <2>1, <2>2, <2>3, <2>4 DEF IInv, TypeOK, globals
<1>5. FrameOK("main")' /\ FrameOK("toast")'
  <2>0. /\ pc \in [Levels -> {"closed", "open", "read", "header", "items",
                               "special", "next", "finished", "failed"}]
        /\ item \in [Levels -> Nat]
    BY DEF IInv, TypeOK
  <2>1. /\ pc'["main"] = pc["main"] /\ item'["main"] = item["main"]
        /\ pc'["toast"] \in {"items", "special"} /\ item'["toast"] >= 1
    <3>1. item["toast"] >= 1
      BY <1>0 DEF IInv, FrameOK
    <3> QED
      BY <1>0, <1>3, <2>0, <3>1 DEF Levels
  <2>2. FrameOK("main")'
    BY <1>0, <2>1 DEF IInv, FrameOK, InBlock, HoldsBlock
  <2>3. HoldsBlock("toast")'
    BY <1>0 DEF IInv, FrameOK, InBlock, HoldsBlock
  <2>4. FrameOK("toast")'
    BY <2>1, <2>3 DEF FrameOK, InBlock
  <2> QED
    BY <2>2, <2>4
<1>6. Nesting'
  BY <1>0, <1>3 DEF IInv, TypeOK, Levels, Nesting, PageIn
<1>7. InnerJudgesOwn'
  BY <1>0 DEF IInv, InnerJudgesOwn, InBlock, globals
<1> QED
  BY <1>0, <1>4, <1>5, <1>6, <1>7 DEF IInv

(* The detour starts the TOAST level afresh and leaves the main level's    *)
(* locals alone.                                                           *)
LEMMA DetourKeeps == ASSUME IInv, Detour PROVE IInv'
<1>0. /\ active = "main" /\ pc["main"] = "items" /\ img["toast"] # NoFile
      /\ item["main"] <= Len(PageIn("main").items)
      /\ active' = "toast"
      /\ pc' = [pc EXCEPT !["toast"] = "read"]
      /\ fpos' = [fpos EXCEPT !["toast"] = 0]
      /\ currentBlock' = [currentBlock EXCEPT !["toast"] = 0]
      /\ own' = [own EXCEPT !["toast"] = 0]
      /\ item' = [item EXCEPT !["toast"] = 0]
      /\ toastDataRead' = 0 /\ toastValue' = <<>>
      /\ UNCHANGED <<img, opts, emitted, bytesToFormat, pageOffset,
                     specialType>>
  BY DEF Detour, AtItem, Goto
<1>1. TypeOK'
  <2>1. /\ errors' \subseteq Levels \X {"seek", "premature", "eof", "header",
                                        "sum", "item", "special"}
        /\ exitCode' \in {0, 1}
    <3>1. BlockSizeErrors("toast")
            \subseteq {"seek", "eof", "header", "sum", "item", "special"}
      BY DEF BlockSizeErrors
    <3>2. "toast" \in Levels
      BY DEF Levels
    <3> QED
      BY <3>1, <3>2, ComplainType DEF Detour, IInv
  <2>2. /\ fpos' \in [Levels -> Nat] /\ currentBlock' \in [Levels -> Nat]
        /\ item' \in [Levels -> Nat]
    BY <1>0 DEF IInv, TypeOK
  <2>3. own' \in [Levels -> 0..BlockSize]
    <3>1. 0 \in 0..BlockSize
      BY SizesAssumption
    <3>2. own \in [Levels -> 0..BlockSize]
      BY DEF IInv, TypeOK
    <3> QED
      BY <1>0, <3>1, <3>2
  <2>4. pc' \in [Levels -> {"closed", "open", "read", "header", "items",
                            "special", "next", "finished", "failed"}]
    BY <1>0 DEF IInv, TypeOK
  <2> QED
    BY <1>0, <2>1, <2>2, <2>3, <2>4 DEF IInv, TypeOK, Levels
<1>2. FrameOK("main")'
  BY <1>0 DEF IInv, TypeOK, Levels, FrameOK, InBlock, HoldsBlock
<1>3. FrameOK("toast")'
  <2>1. fpos'["toast"] = 0 /\ currentBlock'["toast"] = 0 /\ pc'["toast"] = "read"
    BY <1>0 DEF IInv, TypeOK, Levels
  <2>2. BlockSize * 0 = 0
    BY SizesAssumption
  <2> QED
    BY <2>1, <2>2 DEF FrameOK, InBlock
<1>4. Nesting'
  BY <1>0 DEF IInv, TypeOK, Levels, Nesting, PageIn
<1>5. InnerJudgesOwn'
  <2>1. pc'["toast"] = "read"
    BY <1>0 DEF IInv, TypeOK, Levels
  <2> QED
    BY <2>1 DEF InnerJudgesOwn, InBlock
<1> QED
  BY <1>0, <1>1, <1>2, <1>3, <1>4, <1>5 DEF IInv

(* No TOAST file: the program goes on with the next item or dies.          *)
LEMMA DetourUnopenedKeeps == ASSUME IInv, DetourUnopened PROVE IInv'
<1>0. /\ active = "main" /\ pc["main"] = "items"
      /\ \/ item' = [item EXCEPT !["main"] = @ + 1] /\ active' = active
         \/ active' = "crash" /\ item' = item
      /\ UNCHANGED <<img, opts, pc, fpos, currentBlock, own, value, globals,
                     errors>>
  BY DEF DetourUnopened, AtItem, NextItem
<1>1. TypeOK'
  <2>1. item' \in [Levels -> Nat] /\ active' \in Levels \cup {"exit", "crash"}
    BY <1>0 DEF IInv, TypeOK
  <2> QED
    BY <1>0, <2>1 DEF IInv, TypeOK, value, globals
<1>2. FrameOK("main")' /\ FrameOK("toast")'
  <2>1. FrameOK("main")'
    BY <1>0 DEF IInv, TypeOK, Levels, FrameOK, InBlock, HoldsBlock
  <2>2. FrameOK("toast")'
    BY <1>0 DEF IInv, TypeOK, Levels, FrameOK, InBlock, HoldsBlock
  <2> QED
    BY <2>1, <2>2
<1>3. active' # "toast"
  BY <1>0
<1>4. Nesting' /\ InnerJudgesOwn'
  BY <1>0, <1>3 DEF IInv, Nesting, InnerJudgesOwn
<1> QED
  BY <1>0, <1>1, <1>2, <1>4 DEF IInv

(* Back to the next item of the main block.                                *)
LEMMA ReturnKeeps == ASSUME IInv, Return PROVE IInv'
<1>0. /\ active = "toast" /\ emitted' = toastValue /\ active' = "main"
      /\ pc' = [pc EXCEPT !["toast"] = "closed"]
      /\ item' = [item EXCEPT !["main"] = @ + 1]
      /\ UNCHANGED <<img, opts, fpos, currentBlock, own, toastDataRead,
                     toastValue, globals, errors>>
  BY DEF Return, Goto, NextItem
<1>1. TypeOK'
  BY <1>0 DEF IInv, TypeOK, Levels, globals
<1>2. FrameOK("main")' /\ FrameOK("toast")'
  BY <1>0 DEF IInv, TypeOK, Levels, FrameOK, InBlock, HoldsBlock
<1>3. Nesting' /\ InnerJudgesOwn'
  BY <1>0 DEF IInv, TypeOK, Levels, Nesting, InnerJudgesOwn
<1> QED
  BY <1>0, <1>1, <1>2, <1>3 DEF IInv

(* The program exits.                                                      *)
LEMMA ExitKeeps == ASSUME IInv, Exit PROVE IInv'
<1>0. /\ active = "main" /\ active' = "exit" /\ exitCode' = 0
      /\ UNCHANGED <<img, opts, locals, value, bytesToFormat, pageOffset,
                     specialType, errors>>
  BY DEF Exit
<1>1. TypeOK'
  BY <1>0 DEF IInv, TypeOK, locals, value
<1>2. FrameOK("main")' /\ FrameOK("toast")'
  BY <1>0 DEF IInv, FrameOK, InBlock, HoldsBlock, locals
<1>3. Nesting' /\ InnerJudgesOwn'
  BY <1>0 DEF IInv, Nesting, InnerJudgesOwn, locals
<1> QED
  BY <1>0, <1>1, <1>2, <1>3 DEF IInv

(* Every step keeps the invariant.                                         *)
LEMMA NextKeeps == ASSUME SeekFits, IInv, [Next]_vars PROVE IInv'
<1>1. CASE UNCHANGED vars
  <2>1. UNCHANGED <<img, opts, active, pc, fpos, currentBlock, own, item,
                    toastDataRead, toastValue, emitted, bytesToFormat,
                    pageOffset, specialType, exitCode, errors>>
    BY <1>1 DEF vars, locals, value, globals
  <2>2. TypeOK' /\ Nesting' /\ InnerJudgesOwn'
    BY <2>1 DEF IInv, TypeOK, Nesting, PageIn, InnerJudgesOwn, InBlock
  <2>3. FrameOK("main")' /\ FrameOK("toast")'
    BY <2>1 DEF IInv, FrameOK, InBlock, HoldsBlock
  <2> QED
    BY <2>1, <2>2, <2>3 DEF IInv
<1>2. CASE Start \/ StartFails
  BY <1>2, StartKeeps, StartFailsKeeps
<1>3. ASSUME NEW l \in Levels,
             \/ ReadBlock(l) \/ ReadNothing(l) \/ FormatHeader(l)
             \/ ItemsDone(l) \/ ItemBeyondBlock(l) \/ FormatSpecial(l)
             \/ NextBlock(l)
      PROVE  IInv'
  BY <1>3, ReadBlockKeeps, ReadNothingKeeps, FormatHeaderKeeps, ItemsDoneKeeps,
     ItemBeyondBlockKeeps, FormatSpecialKeeps, NextBlockKeeps
<1>4. CASE MainItem \/ ToastItem
  BY <1>4, MainItemKeeps, ToastItemKeeps
<1>5. CASE Detour \/ DetourUnopened \/ Return
  BY <1>5, DetourKeeps, DetourUnopenedKeeps, ReturnKeeps
<1>6. CASE Exit
  BY <1>6, ExitKeeps
<1>7. CASE Ended
  BY <1>1, <1>7 DEF Ended
<1> QED
  BY <1>1, <1>2, <1>3, <1>4, <1>5, <1>6, <1>7 DEF Next

(* The invariant of every behaviour, whatever the files hold.              *)
LEMMA Invariance == ASSUME SeekFits PROVE Spec => []IInv
<1>1. IInv /\ [Next]_vars => IInv'
  BY NextKeeps
<1> QED
  BY <1>1, InitIInv, PTL DEF Spec

(* No stream position goes below 0 and nothing longer than a block is      *)
(* formatted, on either level.                                             *)
THEOREM TypeCorrect == ASSUME SeekFits PROVE Spec => []TypeOK
<1>1. IInv => TypeOK
  BY DEF IInv
<1> QED
  BY <1>1, Invariance, PTL

(* The number printed with a block is that of the block in the buffer, on  *)
(* both levels, however many detours lie between two blocks.               *)
THEOREM BlockNumbersAreTrue == ASSUME SeekFits PROVE Spec => []BlockNumberTrue
<1>1. IInv => BlockNumberTrue
  <2> SUFFICES ASSUME IInv, NEW l \in Levels, InBlock(l)
               PROVE  fpos[l] - own[l] = BlockSize * currentBlock[l]
    BY DEF BlockNumberTrue
  <2>1. HoldsBlock(l)
    BY DEF IInv, FrameOK, Levels
  <2>2. currentBlock[l] \in Nat /\ own[l] \in 0..BlockSize
    BY DEF IInv, TypeOK
  <2>3. BlockSize * currentBlock[l] \in Nat /\ BlockSize \in Nat
    BY <2>2, NextBlockOffset, SizesAssumption
  <2> QED
    BY <2>1, <2>2, <2>3 DEF HoldsBlock
<1> QED
  BY <1>1, Invariance, PTL

-----------------------------------------------------------------------------
(* RelationDump implements RangeDump: each block of the range that the     *)
(* file has is formatted once, in order, and the dump ends with the range  *)
(* or the file, for every set of files and options, detours through the    *)
(* TOAST file included.                                                    *)

Held == {"header", "items", "special", "next"}

(* How the outer loop stands to the range asked for.                       *)
WithinRange ==
  opts.range /\ pc["main"] \in Held \cup {"read"}
    => currentBlock["main"] <= opts.last

OneControlBlock ==
  opts.mode = "control" =>
    /\ pc["main"] \notin Held
    /\ pc["main"] = "read" => currentBlock["main"] = 0

(* The loop ends after a block only with the range (a control file counts  *)
(* as a range of one block), otherwise with the file.                      *)
EndExplained ==
  pc["main"] = "finished" =>
    IF own["main"] > 0
      THEN currentBlock["main"] + 1 > LastAsked
      ELSE currentBlock["main"] * BlockSize >= img["main"].size

(* Only a program that has ended has a failed dump.                        *)
FailedEnds == pc["main"] = "failed" => active = "exit"

RInv == WithinRange /\ OneControlBlock /\ EndExplained /\ FailedEnds

(* A step that leaves the outer loop inside its block.                     *)
StaysInBlock ==
  /\ active \in Levels /\ active' \in Levels
  /\ pc["main"] \in Held /\ pc'["main"] \in Held
  /\ img' = img /\ opts' = opts
  /\ currentBlock'["main"] = currentBlock["main"]
  /\ own'["main"] = own["main"]

(* The death of the program on a TOAST file that cannot be opened.         *)
Dies ==
  /\ active = "main" /\ active' = "crash"
  /\ pc["main"] \in Held
  /\ UNCHANGED <<img, opts, pc, currentBlock, own>>

(* Whatever happens on the TOAST level is inside a block of the outer one. *)
LEMMA InnerStays ==
  ASSUME IInv, active = "toast",
         \/ ReadBlock("toast") \/ ReadNothing("toast") \/ FormatHeader("toast")
         \/ ItemsDone("toast") \/ ItemBeyondBlock("toast")
         \/ FormatSpecial("toast") \/ NextBlock("toast")
         \/ ToastItem \/ Return
  PROVE  StaysInBlock
<1>1. pc["main"] = "items"
  BY DEF IInv, Nesting
<1>2. /\ "main" \in Levels /\ "toast" \in Levels
      /\ pc \in [Levels -> {"closed", "open", "read", "header", "items",
                            "special", "next", "finished", "failed"}]
      /\ currentBlock \in [Levels -> Nat] /\ own \in [Levels -> 0..BlockSize]
  BY DEF IInv, TypeOK, Levels
<1>3. CASE ReadBlock("toast") \/ ReadNothing("toast")
  BY <1>1, <1>2, <1>3 DEF ReadBlock, ReadNothing, Goto, StaysInBlock, Held
<1>4. CASE FormatHeader("toast") \/ ItemsDone("toast") \/ ItemBeyondBlock("toast")
  BY <1>1, <1>2, <1>4 DEF FormatHeader, ItemsDone, ItemBeyondBlock, Goto,
     StaysInBlock, Held
<1>5. CASE FormatSpecial("toast") \/ NextBlock("toast")
  BY <1>1, <1>2, <1>5 DEF FormatSpecial, NextBlock, Goto, StaysInBlock, Held
<1>6. CASE ToastItem
  BY <1>1, <1>2, <1>6 DEF ToastItem, Goto, StaysInBlock, Held
<1>7. CASE Return
  BY <1>1, <1>2, <1>7 DEF Return, Goto, StaysInBlock, Held
<1> QED
  BY <1>3, <1>4, <1>5, <1>6, <1>7

(* The steps of the outer level between its read and the end of its loop.  *)
LEMMA OuterStays ==
  ASSUME IInv,
         \/ FormatHeader("main") \/ ItemsDone("main") \/ ItemBeyondBlock("main")
         \/ FormatSpecial("main") \/ MainItem \/ Detour
  PROVE  StaysInBlock
<1>1. /\ "main" \in Levels /\ "toast" \in Levels
      /\ pc \in [Levels -> {"closed", "open", "read", "header", "items",
                            "special", "next", "finished", "failed"}]
      /\ currentBlock \in [Levels -> Nat] /\ own \in [Levels -> 0..BlockSize]
  BY DEF IInv, TypeOK, Levels
<1>2. CASE FormatHeader("main")
  BY <1>1, <1>2 DEF FormatHeader, Goto, StaysInBlock, Held
<1>3. CASE ItemsDone("main") \/ FormatSpecial("main")
  BY <1>1, <1>3 DEF ItemsDone, FormatSpecial, Goto, StaysInBlock, Held
<1>4. CASE ItemBeyondBlock("main") \/ MainItem
  BY <1>1, <1>4 DEF ItemBeyondBlock, MainItem, AtItem, StaysInBlock, Held
<1>5. CASE Detour
  BY <1>1, <1>5 DEF Detour, AtItem, Goto, StaysInBlock, Held
<1> QED
  BY <1>2, <1>3, <1>4, <1>5

(* What a step is to the outer loop.                                       *)
LEMMA StepOfOuter ==
  ASSUME IInv, [Next]_vars
  PROVE  \/ Start \/ StartFails
         \/ ReadBlock("main") \/ ReadNothing("main") \/ NextBlock("main")
         \/ Exit \/ StaysInBlock \/ Dies
         \/ UNCHANGED <<img, opts, active, pc, currentBlock, own>>
<1>1. CASE Ended \/ UNCHANGED vars
  BY <1>1 DEF Ended, vars, locals
<1>2. ASSUME NEW l \in Levels,
             \/ ReadBlock(l) \/ ReadNothing(l) \/ FormatHeader(l)
             \/ ItemsDone(l) \/ ItemBeyondBlock(l) \/ FormatSpecial(l)
             \/ NextBlock(l)
      PROVE  \/ ReadBlock("main") \/ ReadNothing("main") \/ NextBlock("main")
             \/ StaysInBlock
  <2>1. active = l
    BY <1>2 DEF ReadBlock, ReadNothing, FormatHeader, ItemsDone,
                ItemBeyondBlock, AtItem, FormatSpecial, NextBlock
  <2>2. CASE l = "toast"
    BY <1>2, <2>1, <2>2, InnerStays
  <2>3. CASE l = "main"
    BY <1>2, <2>3, OuterStays
  <2> QED
    BY <2>2, <2>3 DEF Levels
<1>3. CASE MainItem \/ Detour
  BY <1>3, OuterStays
<1>4. CASE ToastItem \/ Return
  <2>1. active = "toast"
    BY <1>4 DEF ToastItem, AtItem, Return
  <2> QED
    BY <1>4, <2>1, InnerStays
<1>5. CASE DetourUnopened
  BY <1>5 DEF DetourUnopened, AtItem, StaysInBlock, Dies, Held, Levels
<1> QED
  BY <1>1, <1>2, <1>3, <1>4, <1>5 DEF Next

(* What is used of the types.                                              *)
LEMMA OuterTypes ==
  ASSUME IInv
  PROVE  /\ "main" \in Levels /\ "toast" \in Levels
         /\ pc \in [Levels -> {"closed", "open", "read", "header", "items",
                               "special", "next", "finished", "failed"}]
         /\ currentBlock \in [Levels -> Nat] /\ own \in [Levels -> 0..BlockSize]
         /\ currentBlock["main"] \in Nat
         /\ opts \in OptionSets /\ opts.first \in Nat /\ opts.last \in Nat
         /\ FrameOK("main")
  BY DEF IInv, TypeOK, Levels, Options

LEMMA OuterNumbers ==
  ASSUME IInv
  PROVE  /\ currentBlock["main"] \in Nat /\ own["main"] \in Nat
         /\ fpos["main"] \in Nat
         /\ img["main"].size \in Nat /\ img["main"].pages \in Seq(Page)
<1>1. own["main"] \in 0..BlockSize
  BY DEF IInv, TypeOK, Levels
<1>2. own["main"] \in Nat
  BY <1>1, SizesAssumption
<1>3. img["main"].size \in Nat /\ img["main"].pages \in Seq(Page)
  BY DEF IInv, TypeOK, IsFile, File
<1> QED
  BY <1>2, <1>3 DEF IInv, TypeOK, Levels

LEMMA OuterOffset ==
  ASSUME IInv
  PROVE  /\ BlockSize * currentBlock["main"] \in Nat
         /\ currentBlock["main"] * BlockSize = BlockSize * currentBlock["main"]
<1>1. currentBlock["main"] \in Nat
  BY OuterNumbers
<1> QED
  BY <1>1, SizesAssumption

(* A block with a byte in the file has a number below that of its pages.   *)
LEMMA BlockBelowPages ==
  ASSUME NEW b \in Nat \ {0}, NEW c \in Nat, NEW n \in Nat, NEW size \in Nat,
         b * c < size, size <= n * b
  PROVE  c < n
<1>1. SUFFICES ASSUME c >= n PROVE FALSE
  OBVIOUS
<1>2. b * c >= b * n
  BY <1>1
<1> QED
  BY <1>2

(* The invariant holds initially.                                          *)
LEMMA InitRInv == Init => RInv
  BY DEF Init, RInv, WithinRange, OneControlBlock, EndExplained, FailedEnds, Held

(* Opening the dump: the first block is not past the range.                *)
LEMMA StartWithin == ASSUME IInv, RInv, Start PROVE RInv'
<1>1. /\ pc'["main"] = "read" /\ opts' = opts /\ active' = active
      /\ currentBlock'["main"] = FirstAsked
  BY OuterTypes DEF Start, Goto, FirstAsked
<1>2. opts.range => opts.first <= opts.last
  BY OuterTypes, OptionsAssumption
<1>3. opts.mode = "control" => ~opts.range
  BY OuterTypes, ModesAssumption
<1> QED
  BY <1>1, <1>2, <1>3 DEF RInv, WithinRange, OneControlBlock, EndExplained,
     FailedEnds, Held, FirstAsked

(* A read: only that of a control file ends the loop.                      *)
LEMMA ReadBlockWithin == ASSUME IInv, RInv, ReadBlock("main") PROVE RInv'
<1>1. /\ pc["main"] = "read" /\ active = "main" /\ active' = active
      /\ opts' = opts /\ img' = img /\ currentBlock' = currentBlock
      /\ own'["main"] > 0
  BY OuterTypes DEF ReadBlock
<1>2. pc'["main"] = IF opts.mode = "interpret" THEN "header"
                    ELSE IF opts.mode = "control" THEN "finished" ELSE "next"
  BY OuterTypes DEF ReadBlock, Goto, Mode
<1>3. opts.mode = "control" => ~opts.range
  BY OuterTypes, ModesAssumption
<1>4. CASE opts.mode = "control"
  <2>1. pc'["main"] = "finished" /\ currentBlock["main"] = 0 /\ LastAsked' = 0
    BY <1>1, <1>2, <1>3, <1>4 DEF RInv, OneControlBlock, LastAsked
  <2> QED
    BY <1>1, <1>4, <2>1 DEF RInv, WithinRange, OneControlBlock, EndExplained,
       FailedEnds, Held
<1>5. CASE opts.mode # "control"
  <2>1. pc'["main"] \in Held
    BY <1>2, <1>5 DEF Held
  <2> QED
    BY <1>1, <1>5, <2>1 DEF RInv, WithinRange, OneControlBlock, EndExplained,
       FailedEnds, Held
<1> QED
  BY <1>4, <1>5

(* The end of the file: the stream may even stand past it.                 *)
LEMMA ReadNothingWithin == ASSUME IInv, RInv, ReadNothing("main") PROVE RInv'
<1>1. /\ pc["main"] = "read" /\ active = "main" /\ active' = active
      /\ opts' = opts /\ img' = img /\ currentBlock' = currentBlock
      /\ own'["main"] = 0 /\ pc'["main"] = "finished"
      /\ Available("main") = 0
  BY OuterTypes DEF ReadNothing, Goto
<1>2. fpos["main"] >= img["main"].size
  <2>1. Available("main") > 0 \/ ~(fpos["main"] < img["main"].size)
    BY OuterNumbers, SizesAssumption DEF Available, Lesser
  <2> QED
    BY <1>1, <2>1, OuterNumbers
<1>3. currentBlock["main"] * BlockSize >= img["main"].size
  <2> DEFINE at == BlockSize * currentBlock["main"]
  <2>1. at \in Nat /\ currentBlock["main"] * BlockSize = at
    BY OuterOffset
  <2>2. fpos["main"] = at \/ fpos["main"] <= at
    BY <1>1, OuterTypes DEF FrameOK
  <2>3. fpos["main"] \in Nat /\ img["main"].size \in Nat
    BY OuterNumbers
  <2> HIDE DEF at
  <2> QED
    BY <1>2, <2>1, <2>2, <2>3
<1> QED
  BY <1>1, <1>3 DEF RInv, WithinRange, OneControlBlock, EndExplained,
     FailedEnds, Held

(* The end of the loop body: on to a block that is still in the range, or  *)
(* out after the last.                                                     *)
LEMMA NextBlockWithin == ASSUME IInv, RInv, NextBlock("main") PROVE RInv'
<1>1. /\ pc["main"] = "next" /\ active = "main" /\ active' = active
      /\ opts' = opts /\ img' = img /\ own' = own
      /\ currentBlock'["main"] = IF AtRangeEnd("main") THEN currentBlock["main"]
                                 ELSE currentBlock["main"] + 1
      /\ pc'["main"] = IF AtRangeEnd("main") THEN "finished" ELSE "read"
  BY OuterTypes DEF NextBlock, Goto
<1>2. AtRangeEnd("main") <=> opts.range /\ currentBlock["main"] >= opts.last
  BY DEF AtRangeEnd, Ranged
<1>3. own["main"] > 0
  BY <1>1, OuterTypes DEF FrameOK, HoldsBlock
<1>4. opts.mode # "control"
  BY <1>1 DEF RInv, OneControlBlock, Held
<1>5. CASE AtRangeEnd("main")
  BY <1>1, <1>2, <1>3, <1>4, <1>5, OuterTypes DEF RInv, WithinRange,
     OneControlBlock, EndExplained, FailedEnds, LastAsked, Held
<1>6. CASE ~AtRangeEnd("main")
  BY <1>1, <1>2, <1>4, <1>6, OuterTypes DEF RInv, WithinRange,
     OneControlBlock, EndExplained, FailedEnds, Held
<1> QED
  BY <1>5, <1>6

(* Every step keeps the outer loop within its range.                       *)
LEMMA NextWithin == ASSUME IInv, RInv, [Next]_vars PROVE RInv'
<1>1. CASE Start \/ ReadBlock("main") \/ ReadNothing("main") \/ NextBlock("main")
  BY <1>1, StartWithin, ReadBlockWithin, ReadNothingWithin, NextBlockWithin
<1>2. CASE StartFails
  BY <1>2, OuterTypes DEF StartFails, Goto, RInv, WithinRange,
     OneControlBlock, EndExplained, FailedEnds, Held
<1>3. CASE Exit
  BY <1>3 DEF Exit, locals, RInv, WithinRange, OneControlBlock, EndExplained,
     FailedEnds, LastAsked
<1>4. CASE StaysInBlock
  BY <1>4 DEF StaysInBlock, Held, RInv, WithinRange, OneControlBlock,
     EndExplained, FailedEnds
<1>5. CASE Dies
  BY <1>5 DEF Dies, Held, RInv, WithinRange, OneControlBlock, EndExplained,
     FailedEnds
<1>6. CASE UNCHANGED <<img, opts, active, pc, currentBlock, own>>
  BY <1>6 DEF RInv, WithinRange, OneControlBlock, EndExplained, FailedEnds,
     LastAsked
<1> QED
  BY <1>1, <1>2, <1>3, <1>4, <1>5, <1>6, StepOfOuter

(***************************************************************************)
(* The steps, seen through the mapping.                                    *)
(***************************************************************************)

(* The range asked for and the file do not change.                         *)
LEMMA SameRange ==
  ASSUME img' = img, opts' = opts
  PROVE  /\ FirstAsked' = FirstAsked /\ LastAsked' = LastAsked
         /\ img'["main"].size = img["main"].size
  BY DEF FirstAsked, LastAsked

(* A block that was read and is done has been formatted.                   *)
LEMMA BlockFormatted ==
  ASSUME img' = img, opts' = opts, Outcome = "dumping", Outcome' = "dumping",
         NextAsked = currentBlock["main"], NextAsked' = currentBlock["main"] + 1,
         currentBlock["main"] <= LastAsked,
         currentBlock["main"] * BlockSize < img["main"].size
  PROVE  Range!Format
  BY SameRange DEF Range!Format, Range!Exists

(* The block of a control file.                                            *)
LEMMA ReadBlockFormats ==
  ASSUME IInv, RInv, ReadBlock("main")
  PROVE  Range!Next \/ UNCHANGED Range!rangeVars
<1>1. /\ pc["main"] = "read" /\ active = "main" /\ active' = active
      /\ opts' = opts /\ img' = img /\ currentBlock' = currentBlock
      /\ own'["main"] > 0 /\ Available("main") > 0
  BY OuterTypes DEF ReadBlock
<1>2. pc'["main"] = IF opts.mode = "interpret" THEN "header"
                    ELSE IF opts.mode = "control" THEN "finished" ELSE "next"
  BY OuterTypes DEF ReadBlock, Goto, Mode
<1>3. NextAsked = currentBlock["main"] /\ Outcome = "dumping"
  BY <1>1 DEF NextAsked, Outcome
<1>4. CASE opts.mode = "control"
  <2>1. NextAsked' = currentBlock["main"] + 1 /\ Outcome' = "dumping"
    BY <1>1, <1>2, <1>4 DEF NextAsked, Outcome
  <2>2. currentBlock["main"] = 0 /\ ~opts.range /\ LastAsked = 0
    BY <1>1, <1>4, OuterTypes, ModesAssumption DEF RInv, OneControlBlock, LastAsked
  <2>3. fpos["main"] < img["main"].size
    BY <1>1 DEF Available
  <2>4. currentBlock["main"] * BlockSize < img["main"].size
    <3>1. currentBlock["main"] * BlockSize = 0
      BY <2>2, SizesAssumption
    <3> QED
      BY <2>3, <3>1, OuterNumbers
  <2>5. Range!Format
    BY <1>1, <1>3, <2>1, <2>2, <2>4, BlockFormatted
  <2> QED
    BY <2>5 DEF Range!Next
<1>5. CASE opts.mode # "control"
  <2>1. NextAsked' = currentBlock["main"] /\ Outcome' = "dumping"
    BY <1>1, <1>2, <1>5 DEF NextAsked, Outcome
  <2> QED
    BY <1>1, <1>3, <2>1, SameRange DEF Range!rangeVars
<1> QED
  BY <1>4, <1>5

(* The end of a block of any other file.                                   *)
LEMMA NextBlockFormats ==
  ASSUME IInv, RInv, NextBlock("main")
  PROVE  Range!Next
<1>1. /\ pc["main"] = "next" /\ active = "main" /\ active' = active
      /\ opts' = opts /\ img' = img /\ own' = own
      /\ currentBlock'["main"] = IF AtRangeEnd("main") THEN currentBlock["main"]
                                 ELSE currentBlock["main"] + 1
      /\ pc'["main"] = IF AtRangeEnd("main") THEN "finished" ELSE "read"
  BY OuterTypes DEF NextBlock, Goto
<1>2. HoldsBlock("main")
  BY <1>1, OuterTypes DEF FrameOK
<1>3. NextAsked = currentBlock["main"] /\ Outcome = "dumping"
  BY <1>1 DEF NextAsked, Outcome
<1>4. NextAsked' = currentBlock["main"] + 1 /\ Outcome' = "dumping"
  BY <1>1, <1>2 DEF NextAsked, Outcome, HoldsBlock
<1>5. currentBlock["main"] * BlockSize < img["main"].size
  <2> DEFINE at == BlockSize * currentBlock["main"]
  <2>1. at \in Nat /\ currentBlock["main"] * BlockSize = at
    BY OuterOffset
  <2>2. fpos["main"] = at + own["main"] /\ own["main"] > 0
        /\ fpos["main"] <= img["main"].size
    BY <1>2 DEF HoldsBlock
  <2>3. own["main"] \in Nat /\ img["main"].size \in Nat
    BY OuterNumbers
  <2> HIDE DEF at
  <2> QED
    BY <2>1, <2>2, <2>3
<1>6. currentBlock["main"] <= LastAsked
  <2>1. opts.mode # "control"
    BY <1>1 DEF RInv, OneControlBlock, Held
  <2>2. CASE opts.range
    BY <1>1, <2>2 DEF RInv, WithinRange, Held, LastAsked
  <2>3. CASE ~opts.range
    <3> DEFINE n == Len(img["main"].pages)
    <3>1. LastAsked = n /\ n \in Nat
      BY <2>1, <2>3, OuterNumbers DEF LastAsked
    <3>2. BlockSize * currentBlock["main"] < img["main"].size
      BY <1>5, OuterOffset
    <3>3. img["main"].size <= n * BlockSize
      BY DEF IInv, TypeOK, IsFile
    <3>4. /\ currentBlock["main"] \in Nat /\ img["main"].size \in Nat
          /\ BlockSize \in Nat \ {0}
      BY OuterNumbers, SizesAssumption
    <3> HIDE DEF n
    <3>5. currentBlock["main"] < n
      BY <3>1, <3>2, <3>3, <3>4, BlockBelowPages
    <3> QED
      BY <3>1, <3>4, <3>5
  <2> QED
    BY <2>2, <2>3
<1>7. Range!Format
  BY <1>1, <1>3, <1>4, <1>5, <1>6, BlockFormatted
<1> QED
  BY <1>7 DEF Range!Next

(* The program exits when nothing of the range is left.                    *)
LEMMA ExitCompletes ==
  ASSUME IInv, RInv, Exit
  PROVE  Range!Next
<1>1. /\ pc["main"] = "finished" /\ active = "main" /\ active' = "exit"
      /\ UNCHANGED <<img, opts, pc, currentBlock, own>>
  BY DEF Exit, locals
<1>2. Outcome = "dumping" /\ Outcome' = "complete" /\ NextAsked' = NextAsked
  BY <1>1 DEF Outcome, NextAsked, FirstAsked
<1>3. NextAsked > LastAsked \/ ~Range!Exists(NextAsked)
  <2>1. CASE own["main"] > 0
    BY <1>1, <2>1 DEF RInv, EndExplained, NextAsked
  <2>2. CASE ~(own["main"] > 0)
    <3>1. NextAsked = currentBlock["main"]
      BY <1>1, <2>2 DEF NextAsked
    <3>2. currentBlock["main"] * BlockSize >= img["main"].size
      BY <1>1, <2>2 DEF RInv, EndExplained
    <3>3. ~(currentBlock["main"] * BlockSize < img["main"].size)
      BY <3>2, OuterNumbers, OuterOffset
    <3> QED
      BY <3>1, <3>3 DEF Range!Exists
  <2> QED
    BY <2>1, <2>2
<1>4. Range!Complete
  BY <1>1, <1>2, <1>3, SameRange DEF Range!Complete
<1> QED
  BY <1>4 DEF Range!Next

(* Formatting, completing and giving up are all that shows of a step.      *)
LEMMA StepRanges ==
  ASSUME IInv, RInv, [Next]_vars PROVE [Range!Next]_Range!rangeVars
<1> SUFFICES Range!Next \/ UNCHANGED Range!rangeVars
  OBVIOUS
<1>1. CASE Start
  <2>1. /\ pc["main"] = "open" /\ pc'["main"] = "read" /\ active = "main"
        /\ active' = active /\ currentBlock'["main"] = FirstAsked
        /\ img' = img /\ opts' = opts
    BY <1>1, OuterTypes DEF Start, Goto, FirstAsked
  <2>2. NextAsked' = NextAsked /\ Outcome' = Outcome
    BY <2>1 DEF NextAsked, Outcome
  <2> QED
    BY <2>1, <2>2, SameRange DEF Range!rangeVars
<1>2. CASE StartFails
  <2>1. /\ pc["main"] = "open" /\ pc'["main"] = "failed" /\ active = "main"
        /\ active' = "exit" /\ img' = img /\ opts' = opts
    BY <1>2, OuterTypes DEF StartFails, Goto
  <2>2. NextAsked' = NextAsked /\ Outcome = "dumping" /\ Outcome' = "failed"
    BY <2>1, SameRange DEF NextAsked, Outcome
  <2>3. Range!GiveUp
    BY <2>1, <2>2, SameRange DEF Range!GiveUp
  <2> QED
    BY <2>3 DEF Range!Next
<1>3. CASE ReadBlock("main") \/ NextBlock("main") \/ Exit
  BY <1>3, ReadBlockFormats, NextBlockFormats, ExitCompletes
<1>4. CASE ReadNothing("main")
  <2>1. /\ pc["main"] = "read" /\ pc'["main"] = "finished" /\ active = "main"
        /\ active' = active /\ currentBlock' = currentBlock
        /\ own'["main"] = 0 /\ img' = img /\ opts' = opts
    BY <1>4, OuterTypes DEF ReadNothing, Goto
  <2>2. NextAsked' = NextAsked /\ Outcome' = Outcome
    BY <2>1 DEF NextAsked, Outcome
  <2> QED
    BY <2>1, <2>2, SameRange DEF Range!rangeVars
<1>5. CASE StaysInBlock
  <2>1. NextAsked' = NextAsked /\ Outcome' = Outcome
    BY <1>5 DEF StaysInBlock, Held, Levels, NextAsked, Outcome
  <2> QED
    BY <1>5, <2>1, SameRange DEF StaysInBlock, Range!rangeVars
<1>6. CASE Dies
  <2>1. /\ NextAsked' = NextAsked
        /\ Outcome = "dumping" /\ Outcome' = "failed"
    BY <1>6 DEF Dies, Held, NextAsked, Outcome
  <2>2. Range!GiveUp
    BY <1>6, <2>1, SameRange DEF Dies, Range!GiveUp
  <2> QED
    BY <2>2 DEF Range!Next
<1>7. CASE UNCHANGED <<img, opts, active, pc, currentBlock, own>>
  <2>1. NextAsked' = NextAsked /\ Outcome' = Outcome
    BY <1>7 DEF NextAsked, Outcome, FirstAsked
  <2> QED
    BY <1>7, <2>1, SameRange DEF Range!rangeVars
<1> QED
  BY <1>1, <1>2, <1>3, <1>4, <1>5, <1>6, <1>7, StepOfOuter

(* The blocks of the range that the file has are formatted one by one,     *)
(* each once under its own number, and the dump is complete only when      *)
(* range or file is exhausted, whatever the TOAST file does in between.    *)
THEOREM DumpImplementsRange == ASSUME SeekFits PROVE Spec => RangeSpec
<1>1. Init => Range!Init
  BY DEF Init, Range!Init, NextAsked, Outcome, FirstAsked
<1>2. IInv /\ RInv /\ [Next]_vars => RInv'
  BY NextWithin
<1>3. IInv /\ RInv /\ [Next]_vars => [Range!Next]_Range!rangeVars
  BY StepRanges
<1> QED
  BY <1>1, <1>2, <1>3, InitRInv, Invariance, PTL DEF Spec, RangeSpec, Range!Spec

-----------------------------------------------------------------------------
(* Healthy files: a read returns a whole block, and the page it returns is *)
(* that of the block's number.                                             *)

(* In a file of whole blocks a read returns a whole block.                 *)
LEMMA WholeBlock ==
  ASSUME NEW b \in Nat \ {0}, NEW c \in Nat, NEW n \in Nat, NEW w \in 1..b,
         b * c + w = b * n
  PROVE  w = b
<1>1. c < n
  <2>1. SUFFICES ASSUME c >= n PROVE FALSE
    OBVIOUS
  <2>2. b * c >= b * n
    BY <2>1
  <2> QED
    BY <2>2
<1>2. b * n >= b * (c + 1)
  BY <1>1
<1>3. b * (c + 1) = b * c + b
  OBVIOUS
<1> QED
  BY <1>2, <1>3

(* A block is at its number.                                               *)
LEMMA BlockAt ==
  ASSUME NEW b \in Nat \ {0}, NEW c \in Nat
  PROVE  (b * c) \div b = c
  OBVIOUS

(* What is used of the types.                                              *)
LEMMA LevelTypes ==
  ASSUME IInv, NEW l \in Levels, img[l] # NoFile
  PROVE  /\ "main" \in Levels /\ "toast" \in Levels
         /\ pc \in [Levels -> {"closed", "open", "read", "header", "items",
                               "special", "next", "finished", "failed"}]
         /\ currentBlock \in [Levels -> Nat] /\ own \in [Levels -> 0..BlockSize]
         /\ fpos \in [Levels -> Nat] /\ item \in [Levels -> Nat]
         /\ currentBlock[l] \in Nat /\ own[l] \in 0..BlockSize
         /\ fpos[l] \in Nat /\ item[l] \in Nat
         /\ IsFile(img[l])
         /\ img[l].size \in Nat /\ img[l].pages \in Seq(Page)
         /\ Len(img[l].pages) \in Nat
         /\ BlockSize \in Nat \ {0} /\ HeaderSize \in Nat \ {0}
         /\ FrameOK(l)
<1>1. IsFile(img[l])
  BY DEF IInv, TypeOK, Levels
<1>2. img[l].size \in Nat /\ img[l].pages \in Seq(Page)
  BY <1>1 DEF IsFile, File
<1>3. Len(img[l].pages) \in Nat
  BY <1>2
<1>4. FrameOK(l)
  BY DEF IInv, Levels
<1> QED
  BY <1>1, <1>2, <1>3, <1>4, SizesAssumption DEF IInv, TypeOK, Levels

(* A page of a healthy file, addressed by an offset in it.                 *)
LEMMA PageAtOffset ==
  ASSUME IInv, NEW l \in Levels, HealthyFile(img[l]),
         NEW n \in Nat, n < img[l].size
  PROVE  /\ (n \div BlockSize) + 1 \in 1..Len(img[l].pages)
         /\ HealthyPage(img[l].pages[(n \div BlockSize) + 1])
         /\ img[l].pages[(n \div BlockSize) + 1] \in Page
<1> DEFINE pages == Len(img[l].pages)
<1>0. img[l] # NoFile
  BY DEF HealthyFile
<1>1. pages \in Nat /\ n < pages * BlockSize
  <2> DEFINE end == pages * BlockSize
  <2>1. img[l].pages \in Seq(Page) /\ pages \in Nat
    BY <1>0, LevelTypes
  <2>2. end \in Nat
    BY <2>1, SizesAssumption
  <2>3. img[l].size <= end /\ img[l].size \in Nat
    BY <1>0, LevelTypes DEF IsFile
  <2> HIDE DEF pages, end
  <2>4. n < end
    BY <2>2, <2>3
  <2> QED
    BY <2>1, <2>4 DEF end
<1>2. (n \div BlockSize) + 1 \in 1..pages
  <2> HIDE DEF pages
  <2> QED
    BY <1>1, SizesAssumption, PageNumber
<1>3. \A p \in 1..Len(img[l].pages) : HealthyPage(img[l].pages[p])
  BY DEF HealthyFile
<1>4. \A p \in 1..Len(img[l].pages) : img[l].pages[p] \in Page
  <2>1. img[l].pages \in Seq(Page)
    BY <1>0, LevelTypes
  <2> QED
    BY <2>1
<1> QED
  BY <1>2, <1>3, <1>4

(* The page about to be read, and how much of it is read: all.             *)
LEMMA HealthyRead ==
  ASSUME IInv, NEW l \in Levels, HealthyFile(img[l]),
         active = l, pc[l] = "read", Available(l) > 0
  PROVE  /\ Available(l) = BlockSize
         /\ HealthyPage(PageAt(l)) /\ PageAt(l) \in Page
<1>0. img[l] # NoFile
  BY DEF HealthyFile
<1>1. /\ Available(l) \in 0..BlockSize
      /\ fpos[l] = BlockSize * currentBlock[l]
      /\ fpos[l] + Available(l) <= img[l].size
      /\ Available(l) = BlockSize
           \/ fpos[l] + Available(l) = img[l].size
  BY ReadBounds
<1>2. fpos[l] < img[l].size
  BY DEF Available
<1>3. Available(l) = BlockSize
  <2>1. CASE fpos[l] + Available(l) = img[l].size
    <3> DEFINE w == Available(l)
               c == currentBlock[l]
               n == Len(img[l].pages)
    <3>1. w \in 1..BlockSize /\ c \in Nat /\ n \in Nat
      <4>1. w \in 1..BlockSize
        BY <1>1, SizesAssumption
      <4> QED
        BY <1>0, <4>1, LevelTypes
    <3>2. BlockSize * c + w = BlockSize * n
      BY <1>1, <2>1 DEF HealthyFile
    <3> HIDE DEF w, c, n
    <3>3. w = BlockSize
      BY <3>1, <3>2, SizesAssumption, WholeBlock
    <3> QED
      BY <3>3 DEF w
  <2> QED
    BY <1>1, <2>1
<1>4. HealthyPage(PageAt(l)) /\ PageAt(l) \in Page
  BY <1>0, <1>2, LevelTypes, PageAtOffset DEF PageAt
<1> QED
  BY <1>3, <1>4

(* The page in the buffer.                                                 *)
LEMMA HealthyHeld ==
  ASSUME IInv, NEW l \in Levels, HealthyFile(img[l]), InBlock(l)
  PROVE  /\ HealthyPage(PageIn(l)) /\ PageIn(l) \in Page
         /\ PageIn(l).items \in Seq(Item)
         /\ own[l] = BlockSize
         /\ currentBlock[l] + 1 \in 1..Len(img[l].pages)
         /\ PageIn(l) = img[l].pages[currentBlock[l] + 1]
<1>0. img[l] # NoFile
  BY DEF HealthyFile
<1>1. HoldsBlock(l)
  BY <1>0, LevelTypes DEF FrameOK
<1> DEFINE at == BlockSize * currentBlock[l]
           w == own[l]
           n == fpos[l]
           size == img[l].size
<1>2. /\ n - w = at /\ at \in Nat /\ at < size
      /\ w = BlockSize \/ at + w = size
      /\ w \in 1..BlockSize
  <2>1. w > 0 /\ n = at + w /\ n <= size /\ (w = BlockSize \/ n = size)
    BY <1>1 DEF HoldsBlock
  <2>2. at \in Nat
    BY <1>0, LevelTypes, NextBlockOffset
  <2>3. w \in 0..BlockSize /\ n \in Nat /\ size \in Nat
    BY <1>0, LevelTypes
  <2> HIDE DEF at, w, n, size
  <2>4. w \in Nat /\ w \in 1..BlockSize
    BY <2>1, <2>3, SizesAssumption
  <2> QED
    BY <2>1, <2>2, <2>3, <2>4
<1>3. w = BlockSize
  <2>1. CASE at + w = size
    <3> DEFINE c == currentBlock[l]
               m == Len(img[l].pages)
    <3>1. c \in Nat /\ m \in Nat
      BY <1>0, LevelTypes
    <3>2. BlockSize * c + w = BlockSize * m
      BY <2>1 DEF HealthyFile
    <3> HIDE DEF w, c, m
    <3> QED
      BY <1>2, <3>1, <3>2, SizesAssumption, WholeBlock
  <2> QED
    BY <1>2, <2>1
<1>4. at \div BlockSize = currentBlock[l]
  <2> DEFINE c == currentBlock[l]
  <2>1. c \in Nat
    BY <1>0, LevelTypes
  <2> HIDE DEF c
  <2>2. (BlockSize * c) \div BlockSize = c
    BY <2>1, SizesAssumption, BlockAt
  <2> QED
    BY <2>2 DEF c
<1>5. /\ HealthyPage(PageIn(l)) /\ PageIn(l) \in Page
      /\ currentBlock[l] + 1 \in 1..Len(img[l].pages)
      /\ PageIn(l) = img[l].pages[currentBlock[l] + 1]
  <2>1. /\ (at \div BlockSize) + 1 \in 1..Len(img[l].pages)
        /\ HealthyPage(img[l].pages[(at \div BlockSize) + 1])
        /\ img[l].pages[(at \div BlockSize) + 1] \in Page
    <3> HIDE DEF at
    <3> QED
      BY <1>2, PageAtOffset
  <2> HIDE DEF at
  <2>2. PageIn(l) = img[l].pages[(at \div BlockSize) + 1]
    BY <1>2 DEF PageIn, n, w
  <2> QED
    BY <1>4, <2>1, <2>2
<1>6. PageIn(l).items \in Seq(Item)
  BY <1>0, <1>1, LevelTypes, HeldPage
<1> QED
  BY <1>3, <1>5, <1>6

(* An item of a healthy page is never beyond a block judged by its own     *)
(* bytes.                                                                  *)
LEMMA HealthyFits ==
  ASSUME IInv, NEW l \in Levels, HealthyFile(img[l]), pc[l] = "items",
         item[l] <= Len(PageIn(l).items), bytesToFormat = BlockSize
  PROVE  Fits(l)
<1>1. /\ HealthyPage(PageIn(l)) /\ PageIn(l).items \in Seq(Item)
  BY HealthyHeld DEF InBlock
<1>2. item[l] \in 1..Len(PageIn(l).items)
  BY <1>1, LevelTypes DEF FrameOK, HealthyFile
<1>3. ItemIn(l).end <= BlockSize
  BY <1>1, <1>2 DEF HealthyPage, ItemIn
<1> QED
  BY <1>3 DEF Fits

(* The pointers of a healthy page are all there.                           *)
LEMMA HealthyPointers ==
  ASSUME NEW page \in Page, HealthyPage(page), bytesToFormat = BlockSize
  PROVE  PointersRead(page) /\ ~(bytesToFormat < HeaderSize)
<1>1. page.items \in Seq(Item)
  BY DEF Page
<1>2. Len(page.items) \in Nat
  BY <1>1
<1> QED
  BY <1>2, SizesAssumption DEF PointersRead, HealthyPage

-----------------------------------------------------------------------------
(* What a detour collects of a value stored in order: while it looks, the  *)
(* first so many chunks, which are those that lie before the item it looks *)
(* at.                                                                     *)

(* The page and the item the TOAST level looks at next.                    *)
Here ==
  <<currentBlock["toast"] + 1,
    IF pc["toast"] = "items" THEN item["toast"]
    ELSE IF pc["toast"] \in {"read", "header"} THEN 1 ELSE BlockSize + 1>>

Sought == ChunksOf(img["toast"], Wanted.oid)
SeqAt(at) == ChunkAt(img["toast"], at).seq

Collecting ==
  /\ toastDataRead \in 0..Wanted.bytes
  /\ toastValue = [k \in 1..toastDataRead |-> k]
  /\ pc["toast"] \in {"read", "header", "items"} => toastDataRead < Wanted.bytes
  /\ pc["toast"] = "finished" => toastDataRead = Wanted.bytes
  /\ toastDataRead < Wanted.bytes =>
       \A at \in Sought : SeqAt(at) <= toastDataRead <=> Before(at, Here)

Fetching ==
  /\ active = "toast"
  /\ StoredInOrder(img["toast"], Wanted.oid, Wanted.bytes)

VInv == Fetching => Collecting

(* Where a chunk can lie.                                                  *)
LEMMA ChunkPlace ==
  ASSUME NEW f, f.pages \in Seq(Page), NEW oid, NEW at \in ChunksOf(f, oid)
  PROVE  /\ at[1] \in 1..Len(f.pages) /\ at[2] \in 1..Len(f.pages[at[1]].items)
         /\ at[1] \in Nat /\ at[2] \in Nat /\ at[2] >= 1 /\ at[2] <= BlockSize
         /\ at = <<at[1], at[2]>>
<1>1. /\ at \in (1..Len(f.pages)) \X (0..BlockSize)
      /\ at[2] \in 1..Len(f.pages[at[1]].items)
  BY DEF ChunksOf
<1>2. /\ at[1] \in 1..Len(f.pages) /\ at[2] \in 0..BlockSize /\ at = <<at[1], at[2]>>
  BY <1>1
<1>3. Len(f.pages) \in Nat
  OBVIOUS
<1>4. f.pages[at[1]] \in Page
  BY <1>2, <1>3
<1>5. f.pages[at[1]].items \in Seq(Item)
  BY <1>4 DEF Page
<1>6. Len(f.pages[at[1]].items) \in Nat
  BY <1>5
<1> QED
  BY <1>1, <1>2, <1>3, <1>6, SizesAssumption

(* The chunk at a place before which lie the first m chunks, and no other, *)
(* is the next one.                                                        *)
LEMMA NextChunk ==
  ASSUME NEW f, f.pages \in Seq(Page), NEW oid, NEW n \in Nat, StoredInOrder(f, oid, n),
         NEW m \in Nat, NEW here \in ChunksOf(f, oid),
         \A at \in ChunksOf(f, oid) : ChunkAt(f, at).seq <= m <=> Before(at, here)
  PROVE  /\ ChunkAt(f, here).seq = m + 1 /\ m + 1 <= n
         /\ \A at \in ChunksOf(f, oid) :
              ChunkAt(f, at).seq <= m + 1 <=> Before(at, here) \/ at = here
<1> DEFINE C == ChunksOf(f, oid)
           s(at) == ChunkAt(f, at).seq
<1>1. /\ \A at \in C : s(at) \in 1..n
      /\ \A i \in 1..n : \E at \in C : s(at) = i
      /\ \A at, to \in C : Before(at, to) => s(at) < s(to)
  <2>1. {s(at) : at \in C} = 1..n
    BY DEF StoredInOrder
  <2>2. \A at, to \in C : Before(at, to) => s(at) < s(to)
    BY DEF StoredInOrder
  <2> HIDE DEF C, s
  <2> QED
    BY <2>1, <2>2
<1>2. \A at \in C : Before(at, here) \/ at = here \/ Before(here, at)
  <2> SUFFICES ASSUME NEW at \in C
               PROVE  Before(at, here) \/ at = here \/ Before(here, at)
    OBVIOUS
  <2>1. /\ at[1] \in Nat /\ at[2] \in Nat /\ at = <<at[1], at[2]>>
        /\ here[1] \in Nat /\ here[2] \in Nat /\ here = <<here[1], here[2]>>
    BY ChunkPlace
  <2> HIDE DEF C
  <2> QED
    BY <2>1 DEF Before
<1>3. ~Before(here, here)
  <2>1. here[1] \in Nat /\ here[2] \in Nat
    BY ChunkPlace
  <2> QED
    BY <2>1 DEF Before
<1>4. \A at \in C : s(at) <= m <=> Before(at, here)
  OBVIOUS
<1> HIDE DEF C, s
<1>5. here \in C
  BY DEF C
<1>6. s(here) \in 1..n /\ s(here) > m
  BY <1>1, <1>3, <1>4, <1>5
<1>7. m + 1 \in 1..n
  BY <1>6
<1>8. PICK next \in C : s(next) = m + 1
  BY <1>1, <1>7
<1>9. ~Before(next, here) /\ ~Before(here, next)
  BY <1>1, <1>4, <1>5, <1>6, <1>8
<1>10. next = here
  BY <1>2, <1>8, <1>9
<1>11. ASSUME NEW at \in C
       PROVE  s(at) <= m + 1 <=> Before(at, here) \/ at = here
  <2>1. s(at) \in 1..n /\ (s(at) <= m <=> Before(at, here))
    BY <1>1, <1>4
  <2>2. CASE at = here
    BY <1>8, <1>10, <2>1, <2>2
  <2>3. CASE Before(here, at)
    <3>1. s(here) < s(at) /\ s(here) = m + 1 /\ at # here
      BY <1>1, <1>3, <1>5, <1>8, <1>10, <2>3
    <3>2. ~Before(at, here)
      BY <2>1, <3>1
    <3> QED
      BY <2>1, <3>1, <3>2
  <2>4. CASE Before(at, here)
    BY <2>1, <2>4
  <2> QED
    BY <1>2, <2>2, <2>3, <2>4
<1> QED
  BY <1>7, <1>8, <1>10, <1>11 DEF C, s

(* What the two levels know during a detour.                               *)
LEMMA FetchTypes ==
  ASSUME IInv, Fetching
  PROVE  /\ HealthyFile(img["toast"]) /\ img["toast"] # NoFile
         /\ img["toast"].pages \in Seq(Page)
         /\ Wanted \in Item /\ Wanted.bytes \in Nat /\ Wanted.oid \in Nat
         /\ toastDataRead \in Nat
<1>1. HealthyFile(img["toast"]) /\ img["toast"] # NoFile
  BY DEF Fetching, StoredInOrder, HealthyFile
<1>2. /\ IsFile(img["main"]) /\ pc["main"] = "items"
      /\ item["main"] <= Len(PageIn("main").items) /\ toastDataRead \in Nat
  BY DEF IInv, TypeOK, Nesting, Fetching
<1>3. Wanted \in Item
  BY <1>2, ItemAtHand DEF Wanted, Levels
<1>4. img["toast"].pages \in Seq(Page)
  BY <1>1, LevelTypes DEF Levels
<1> QED
  BY <1>1, <1>2, <1>3, <1>4 DEF Item

(* Inside a block of the TOAST file.                                       *)
LEMMA ToastHeld ==
  ASSUME IInv, Fetching, InBlock("toast")
  PROVE  /\ bytesToFormat = BlockSize
         /\ HealthyPage(PageIn("toast")) /\ PageIn("toast") \in Page
         /\ PageIn("toast").items \in Seq(Item) /\ ~PageIn("toast").meta
         /\ currentBlock["toast"] + 1 \in 1..Len(img["toast"].pages)
         /\ PageIn("toast") = img["toast"].pages[currentBlock["toast"] + 1]
<1>1. HealthyFile(img["toast"]) /\ "toast" \in Levels
  BY FetchTypes DEF Levels
<1>2. /\ HealthyPage(PageIn("toast")) /\ PageIn("toast") \in Page
      /\ PageIn("toast").items \in Seq(Item)
      /\ own["toast"] = BlockSize
      /\ currentBlock["toast"] + 1 \in 1..Len(img["toast"].pages)
      /\ PageIn("toast") = img["toast"].pages[currentBlock["toast"] + 1]
  BY <1>1, HealthyHeld
<1>3. ~PageIn("toast").meta
  BY <1>2 DEF Fetching, StoredInOrder
<1>4. bytesToFormat = own["toast"]
  BY DEF IInv, InnerJudgesOwn, Fetching
<1> QED
  BY <1>2, <1>3, <1>4

(* The TOAST level's steps.                                                *)
ToastStep ==
  \/ ReadBlock("toast") \/ ReadNothing("toast") \/ FormatHeader("toast")
  \/ ItemsDone("toast") \/ ItemBeyondBlock("toast")
  \/ FormatSpecial("toast") \/ NextBlock("toast") \/ ToastItem

(* None of them changes what is looked for.                                *)
LEMMA SameWanted ==
  ASSUME IInv, active = "toast", ToastStep
  PROVE  /\ img' = img /\ opts' = opts /\ active' = "toast"
         /\ pc'["main"] = pc["main"] /\ item'["main"] = item["main"]
         /\ fpos'["main"] = fpos["main"] /\ own'["main"] = own["main"]
         /\ Wanted' = Wanted /\ Sought' = Sought
<1>1. /\ "main" \in Levels /\ "toast" \in Levels
      /\ pc \in [Levels -> {"closed", "open", "read", "header", "items",
                            "special", "next", "finished", "failed"}]
      /\ fpos \in [Levels -> Nat] /\ item \in [Levels -> Nat]
      /\ own \in [Levels -> 0..BlockSize]
  BY DEF IInv, TypeOK, Levels
<1>2. /\ img' = img /\ opts' = opts /\ active' = "toast"
      /\ pc'["main"] = pc["main"] /\ item'["main"] = item["main"]
      /\ fpos'["main"] = fpos["main"] /\ own'["main"] = own["main"]
  <2>1. CASE ReadBlock("toast") \/ ReadNothing("toast")
    BY <1>1, <2>1 DEF ReadBlock, ReadNothing, Goto
  <2>2. CASE FormatHeader("toast") \/ ItemsDone("toast") \/ ItemBeyondBlock("toast")
    BY <1>1, <2>2 DEF FormatHeader, ItemsDone, ItemBeyondBlock, AtItem, NextItem, Goto
  <2>3. CASE FormatSpecial("toast") \/ NextBlock("toast")
    BY <1>1, <2>3 DEF FormatSpecial, NextBlock, Goto
  <2>4. CASE ToastItem
    BY <1>1, <2>4 DEF ToastItem, AtItem, NextItem, Goto
  <2> QED
    BY <2>1, <2>2, <2>3, <2>4 DEF ToastStep
<1>3. PageIn("main")' = PageIn("main")
  BY <1>2 DEF PageIn
<1>4. Wanted' = Wanted
  BY <1>2, <1>3 DEF Wanted, ItemIn
<1>5. Sought' = Sought
  BY <1>2, <1>4 DEF Sought, ChunksOf
<1> QED
  BY <1>2, <1>4, <1>5

(* A step that collects nothing and passes no chunk.                       *)
LEMMA NothingCollected ==
  ASSUME IInv, Fetching, Collecting, ToastStep,
         toastDataRead' = toastDataRead, toastValue' = toastValue,
         pc'["toast"] \in {"read", "header", "items"} => toastDataRead < Wanted.bytes,
         pc'["toast"] = "finished" => toastDataRead = Wanted.bytes,
         toastDataRead < Wanted.bytes =>
           \A at \in Sought : Before(at, Here)' <=> Before(at, Here)
  PROVE  Collecting'
<1>1. img' = img /\ Wanted' = Wanted /\ Sought' = Sought
  BY SameWanted DEF Fetching
<1>2. \A at \in Sought : SeqAt(at)' = SeqAt(at)
  BY <1>1 DEF SeqAt, ChunkAt
<1>3. toastDataRead' < Wanted'.bytes =>
        \A at \in Sought' : SeqAt(at)' <= toastDataRead' <=> Before(at, Here)'
  <2> SUFFICES ASSUME toastDataRead' < Wanted'.bytes, NEW at \in Sought'
               PROVE  SeqAt(at)' <= toastDataRead' <=> Before(at, Here)'
    OBVIOUS
  <2>1. /\ toastDataRead < Wanted.bytes /\ at \in Sought
        /\ SeqAt(at)' = SeqAt(at)
    BY <1>1, <1>2
  <2>2. SeqAt(at) <= toastDataRead <=> Before(at, Here)
    BY <2>1 DEF Collecting
  <2>3. Before(at, Here)' <=> Before(at, Here)
    BY <2>1
  <2> QED
    BY <2>1, <2>2, <2>3
<1> QED
  BY <1>1, <1>3 DEF Collecting

(* Before the end of the file there is a chunk left to find.               *)
LEMMA ChunkLeft ==
  ASSUME IInv, Fetching, Collecting, pc["toast"] = "read"
  PROVE  Available("toast") > 0
<1> DEFINE f == img["toast"]
           n == Wanted.bytes
           c == currentBlock["toast"]
           m == toastDataRead
<1>1. SUFFICES ASSUME ~(Available("toast") > 0) PROVE FALSE
  OBVIOUS
<1>2. /\ c \in Nat /\ fpos["toast"] \in Nat /\ f.size \in Nat
      /\ BlockSize \in Nat \ {0} /\ FrameOK("toast") /\ f.pages \in Seq(Page)
      /\ Len(f.pages) \in Nat /\ n \in Nat /\ m \in Nat
      /\ f.size = BlockSize * Len(f.pages)
  BY FetchTypes, LevelTypes DEF Levels, HealthyFile
<1>3. BlockSize * c >= f.size
  <2>1. ~(fpos["toast"] < f.size)
    BY <1>1, <1>2 DEF Available, Lesser
  <2>2. BlockSize * c \in Nat
    BY <1>2
  <2> QED
    BY <1>2, <2>1, <2>2 DEF FrameOK
<1>4. c >= Len(f.pages)
  <2> DEFINE k == Len(f.pages)
  <2>1. k \in Nat /\ BlockSize * c >= BlockSize * k
    BY <1>2, <1>3
  <2> HIDE DEF k, c
  <2>2. SUFFICES ASSUME c < k PROVE FALSE
    BY <1>2, <2>1 DEF k, c
  <2>3. c + 1 <= k /\ c \in Nat
    BY <1>2, <2>1, <2>2 DEF c
  <2>4. BlockSize * k >= BlockSize * (c + 1)
    BY <1>2, <2>1, <2>3
  <2>5. BlockSize * (c + 1) = BlockSize * c + BlockSize /\ BlockSize * c \in Nat
    BY <2>3, NextBlockOffset
  <2> QED
    BY <1>2, <2>1, <2>4, <2>5
<1>5. m < n /\ m + 1 \in 1..n
  BY <1>2 DEF Collecting
<1>6. PICK at \in Sought : SeqAt(at) = m + 1
  <2>1. {ChunkAt(f, at).seq : at \in ChunksOf(f, Wanted.oid)} = 1..n
    BY DEF Fetching, StoredInOrder
  <2> HIDE DEF m, n, f
  <2> QED
    BY <1>5, <2>1 DEF Sought, SeqAt, f
<1>7. ~Before(at, Here)
  BY <1>2, <1>5, <1>6 DEF Collecting
<1>8. at[1] \in 1..Len(f.pages)
  BY <1>2, ChunkPlace DEF Sought
<1>9. Here[1] = c + 1
  BY DEF Here
<1> QED
  BY <1>2, <1>4, <1>7, <1>8, <1>9 DEF Before

(* A page without a chunk left is passed in whole.                         *)
LEMMA PagePassed ==
  ASSUME IInv, Fetching, NEW at \in Sought, NEW c \in Nat, NEW i \in Nat,
         c + 1 \in 1..Len(img["toast"].pages),
         i > Len(img["toast"].pages[c + 1].items)
  PROVE  /\ Before(at, <<c + 1, i>>) <=> Before(at, <<c + 1, BlockSize + 1>>)
         /\ Before(at, <<c + 1, BlockSize + 1>>) <=> Before(at, <<c + 2, 1>>)
<1>1. /\ at[1] \in Nat /\ at[2] \in Nat /\ at[2] >= 1 /\ at[2] <= BlockSize
      /\ at[2] \in 1..Len(img["toast"].pages[at[1]].items)
  BY FetchTypes, ChunkPlace DEF Sought
<1>2. at[1] = c + 1 => at[2] < i
  <2>1. img["toast"].pages[c + 1] \in Page
    BY FetchTypes
  <2>2. img["toast"].pages[c + 1].items \in Seq(Item)
    BY <2>1 DEF Page
  <2>3. Len(img["toast"].pages[c + 1].items) \in Nat
    BY <2>2
  <2> QED
    BY <1>1, <2>3
<1>3. BlockSize \in Nat
  BY SizesAssumption
<1> QED
  BY <1>1, <1>2, <1>3 DEF Before

LEMMA ReadCollects ==
  ASSUME IInv, Fetching, Collecting, ReadBlock("toast") PROVE Collecting'
<1>1. /\ toastDataRead' = toastDataRead /\ toastValue' = toastValue
      /\ pc["toast"] = "read" /\ pc'["toast"] = "header"
      /\ currentBlock' = currentBlock /\ item' = item
  <2>1. "toast" \in Levels /\ pc \in [Levels ->
            {"closed", "open", "read", "header", "items", "special", "next",
             "finished", "failed"}]
    BY FetchTypes, LevelTypes DEF Levels
  <2> QED
    BY <2>1 DEF ReadBlock, Goto, Mode, value
<1>2. Here' = Here
  BY <1>1 DEF Here
<1> QED
  BY <1>1, <1>2, NothingCollected DEF ToastStep, Collecting, Before

LEMMA HeaderCollects ==
  ASSUME IInv, Fetching, Collecting, FormatHeader("toast") PROVE Collecting'
<1>0. "toast" \in Levels /\ item \in [Levels -> Nat] /\ pc \in [Levels ->
            {"closed", "open", "read", "header", "items", "special", "next",
             "finished", "failed"}]
  BY FetchTypes, LevelTypes DEF Levels
<1>1. pc["toast"] = "header" /\ InBlock("toast")
  BY DEF FormatHeader, InBlock
<1>2. /\ PointersRead(PageIn("toast")) /\ ~(bytesToFormat < HeaderSize)
      /\ ~PageIn("toast").meta
  BY <1>1, ToastHeld, HealthyPointers
<1>3. /\ toastDataRead' = toastDataRead /\ toastValue' = toastValue
      /\ pc'["toast"] = "items" /\ item'["toast"] = 1
      /\ currentBlock' = currentBlock
  BY <1>0, <1>2 DEF FormatHeader, Goto, value
<1>4. Here' = Here
  BY <1>1, <1>3 DEF Here
<1> QED
  BY <1>1, <1>3, <1>4, NothingCollected DEF ToastStep, Collecting, Before

LEMMA ItemsDoneCollects ==
  ASSUME IInv, Fetching, Collecting, ItemsDone("toast") PROVE Collecting'
<1>0. /\ "toast" \in Levels /\ pc \in [Levels ->
            {"closed", "open", "read", "header", "items", "special", "next",
             "finished", "failed"}]
      /\ currentBlock["toast"] \in Nat /\ item["toast"] \in Nat
  BY FetchTypes, LevelTypes DEF Levels
<1>1. /\ pc["toast"] = "items" /\ InBlock("toast")
      /\ item["toast"] > Len(PageIn("toast").items)
  BY DEF ItemsDone, InBlock
<1>2. /\ toastDataRead' = toastDataRead /\ toastValue' = toastValue
      /\ pc'["toast"] = "special" /\ currentBlock' = currentBlock
  BY <1>0 DEF ItemsDone, Goto, value
<1>3. /\ currentBlock["toast"] + 1 \in 1..Len(img["toast"].pages)
      /\ PageIn("toast") = img["toast"].pages[currentBlock["toast"] + 1]
  BY <1>1, ToastHeld
<1>4. /\ Here = <<currentBlock["toast"] + 1, item["toast"]>>
      /\ Here' = <<currentBlock["toast"] + 1, BlockSize + 1>>
  BY <1>1, <1>2 DEF Here
<1>5. \A at \in Sought : Before(at, Here') <=> Before(at, Here)
  BY <1>0, <1>1, <1>3, <1>4, PagePassed
<1> QED
  BY <1>1, <1>2, <1>5, NothingCollected DEF ToastStep, Before

LEMMA SpecialCollects ==
  ASSUME IInv, Fetching, Collecting, FormatSpecial("toast") PROVE Collecting'
<1>0. "toast" \in Levels /\ pc \in [Levels ->
            {"closed", "open", "read", "header", "items", "special", "next",
             "finished", "failed"}]
  BY FetchTypes, LevelTypes DEF Levels
<1>1. /\ toastDataRead' = toastDataRead /\ toastValue' = toastValue
      /\ pc["toast"] = "special" /\ pc'["toast"] = "next"
      /\ currentBlock' = currentBlock
  BY <1>0 DEF FormatSpecial, Goto, value
<1>2. Here' = Here
  BY <1>1 DEF Here
<1> QED
  BY <1>1, <1>2, NothingCollected DEF ToastStep, Before

LEMMA NextBlockCollects ==
  ASSUME IInv, Fetching, Collecting, NextBlock("toast") PROVE Collecting'
<1>0. /\ "toast" \in Levels /\ pc \in [Levels ->
            {"closed", "open", "read", "header", "items", "special", "next",
             "finished", "failed"}]
      /\ currentBlock \in [Levels -> Nat]
      /\ toastDataRead \in Nat /\ Wanted.bytes \in Nat
  BY FetchTypes, LevelTypes DEF Levels
<1> DEFINE c == currentBlock["toast"]
<1>1. /\ toastDataRead' = toastDataRead /\ toastValue' = toastValue
      /\ pc["toast"] = "next" /\ currentBlock'["toast"] = c + 1
      /\ pc'["toast"] = IF Enough(toastDataRead) THEN "finished" ELSE "read"
  BY <1>0 DEF NextBlock, Goto, AtRangeEnd, Ranged, value
<1>2. Enough(toastDataRead) <=> toastDataRead = Wanted.bytes
  BY <1>0 DEF Enough, Collecting
<1>3. toastDataRead < Wanted.bytes =>
        \A at \in Sought : Before(at, Here)' <=> Before(at, Here)
  <2> SUFFICES ASSUME toastDataRead < Wanted.bytes, NEW at \in Sought
               PROVE  Before(at, Here') <=> Before(at, Here)
    BY DEF Before
  <2>1. Here = <<c + 1, BlockSize + 1>> /\ Here' = <<(c + 1) + 1, 1>>
    BY <1>0, <1>1, <1>2 DEF Here
  <2>2. /\ at[1] \in Nat /\ at[2] \in Nat /\ at[2] >= 1 /\ at[2] <= BlockSize
    BY FetchTypes, ChunkPlace DEF Sought
  <2>3. c \in Nat /\ BlockSize \in Nat
    BY <1>0, SizesAssumption
  <2> QED
    BY <2>1, <2>2, <2>3 DEF Before
<1> QED
  BY <1>0, <1>1, <1>2, <1>3, NothingCollected DEF ToastStep, Collecting

(* The first m numbers, and the next.                                      *)
LEMMA AppendNext ==
  ASSUME NEW m \in Nat
  PROVE  Append([k \in 1..m |-> k], m + 1) = [k \in 1..(m + 1) |-> k]
<1> DEFINE s == [k \in 1..m |-> k]
           t == Append(s, m + 1)
           r == [k \in 1..(m + 1) |-> k]
<1>1. s \in Seq(Nat) /\ Len(s) = m
  OBVIOUS
<1>2. t \in Seq(Nat) /\ Len(t) = m + 1
  BY <1>1
<1>3. r \in Seq(Nat) /\ Len(r) = m + 1
  OBVIOUS
<1>4. \A k \in 1..(m + 1) : t[k] = k
  <2> SUFFICES ASSUME NEW k \in 1..(m + 1) PROVE t[k] = k
    OBVIOUS
  <2>1. CASE k = m + 1
    BY <1>1, <2>1
  <2>2. CASE k # m + 1
    <3>1. k \in 1..m
      BY <2>2
    <3>2. t[k] = s[k]
      BY <1>1, <3>1
    <3> QED
      BY <3>1, <3>2
  <2> QED
    BY <2>1, <2>2
<1>5. \A k \in 1..(m + 1) : t[k] = r[k]
  BY <1>4
<1> HIDE DEF s, t, r
<1>6. t = r
  BY <1>2, <1>3, <1>5
<1> QED
  BY <1>6 DEF t, r, s

(* The item at hand on the TOAST level is at Here.                         *)
LEMMA ItemHere ==
  ASSUME IInv, Fetching, AtItem("toast")
  PROVE  /\ Here = <<currentBlock["toast"] + 1, item["toast"]>>
         /\ ItemIn("toast") = ChunkAt(img["toast"], Here)
         /\ ItemIn("toast") \in Item
         /\ ItemIn("toast").oid = Wanted.oid => Here \in Sought
         /\ Here \in Sought => ItemIn("toast").oid = Wanted.oid
<1> DEFINE c == currentBlock["toast"]
           i == item["toast"]
           f == img["toast"]
<1>1. /\ pc["toast"] = "items" /\ InBlock("toast") /\ i <= Len(PageIn("toast").items)
  BY DEF AtItem, InBlock
<1>2. /\ c \in Nat /\ i \in Nat /\ i >= 1 /\ IsFile(f) /\ BlockSize \in Nat \ {0}
      /\ HeaderSize \in Nat \ {0}
  BY <1>1, FetchTypes, LevelTypes DEF Levels, FrameOK
<1>3. /\ c + 1 \in 1..Len(f.pages) /\ PageIn("toast") = f.pages[c + 1]
      /\ HealthyPage(PageIn("toast")) /\ PageIn("toast").items \in Seq(Item)
  BY <1>1, ToastHeld
<1>4. Here = <<c + 1, i>>
  BY <1>1 DEF Here
<1>5. i \in 1..Len(f.pages[c + 1].items) /\ i \in 0..BlockSize
  <2> DEFINE n == Len(PageIn("toast").items)
  <2>1. n \in Nat /\ HeaderSize + n <= BlockSize
    BY <1>3 DEF HealthyPage
  <2> HIDE DEF n
  <2>2. i \in 1..n /\ i \in 0..BlockSize
    BY <1>1, <1>2, <2>1 DEF n
  <2> QED
    BY <1>3, <2>2 DEF n
<1>6. ItemIn("toast") = ChunkAt(f, Here)
  BY <1>3, <1>4 DEF ItemIn, ChunkAt
<1>7. ItemIn("toast") \in Item
  BY <1>1, <1>2, ItemAtHand DEF Levels
<1>8. Here[1] = c + 1 /\ Here[2] = i /\ Here \in (1..Len(f.pages)) \X (0..BlockSize)
  BY <1>3, <1>4, <1>5
<1>9. ChunkAt(f, Here) = f.pages[Here[1]].items[Here[2]]
  BY DEF ChunkAt
<1>10. Here \in Sought <=> ChunkAt(f, Here).oid = Wanted.oid
  <2> HIDE DEF c, i
  <2> QED
    BY <1>5, <1>8, <1>9 DEF Sought, ChunksOf
<1> QED
  BY <1>4, <1>6, <1>7, <1>10

(* One item further, only the chunk at hand has been passed.               *)
LEMMA ItemPassed ==
  ASSUME IInv, Fetching, NEW at \in Sought, NEW c \in Nat, NEW i \in Nat
  PROVE  Before(at, <<c, i + 1>>) <=> Before(at, <<c, i>>) \/ at = <<c, i>>
<1>1. /\ at[1] \in Nat /\ at[2] \in Nat /\ at = <<at[1], at[2]>>
  BY FetchTypes, ChunkPlace DEF Sought
<1> QED
  BY <1>1 DEF Before

(* A chunk of the value is collected, anything else is passed by.          *)
LEMMA ToastItemCollects ==
  ASSUME IInv, Fetching, Collecting, ToastItem PROVE Collecting'
<1> DEFINE c == currentBlock["toast"]
           i == item["toast"]
           f == img["toast"]
           m == toastDataRead
           n == Wanted.bytes
<1>0. /\ "toast" \in Levels /\ pc \in [Levels ->
            {"closed", "open", "read", "header", "items", "special", "next",
             "finished", "failed"}]
      /\ item \in [Levels -> Nat] /\ c \in Nat /\ i \in Nat
      /\ f.pages \in Seq(Page) /\ m \in Nat /\ n \in Nat
  BY FetchTypes, LevelTypes DEF Levels
<1>1. /\ AtItem("toast") /\ pc["toast"] = "items" /\ currentBlock' = currentBlock
  BY DEF ToastItem, AtItem
<1>2. /\ Here = <<c + 1, i>>
      /\ ItemIn("toast") = ChunkAt(f, Here)
      /\ ItemIn("toast") \in Item
      /\ ItemIn("toast").oid = Wanted.oid <=> Here \in Sought
  BY <1>1, ItemHere
<1>3. m < n /\ \A at \in Sought : SeqAt(at) <= m <=> Before(at, Here)
  BY <1>1 DEF Collecting
<1>4. ASSUME item' = [item EXCEPT !["toast"] = @ + 1], pc' = pc
      PROVE  \A at \in Sought : Before(at, Here') <=> Before(at, Here) \/ at = Here
  <2>1. Here' = <<c + 1, i + 1>>
    BY <1>0, <1>1, <1>4 DEF Here
  <2> QED
    BY <1>0, <1>2, <2>1, ItemPassed
<1>5. CASE ItemIn("toast").oid # Wanted.oid
  <2>1. toastDataRead' = m /\ toastValue' = toastValue
        /\ item' = [item EXCEPT !["toast"] = @ + 1] /\ pc' = pc
    <3>1. CASE Skipped("toast")
      BY <3>1 DEF ToastItem, NextItem
    <3>2. CASE ~Skipped("toast")
      <4>1. toastDataRead' = m /\ toastValue' = toastValue
        BY <1>0, <1>5, <3>2 DEF ToastItem, CollectedWith
      <4>2. ~Enough(toastDataRead')
        BY <1>0, <1>3, <4>1 DEF Enough
      <4> QED
        BY <3>2, <4>1, <4>2 DEF ToastItem, NextItem
    <3> QED
      BY <3>1, <3>2
  <2>2. \A at \in Sought : Before(at, Here') <=> Before(at, Here)
    BY <1>2, <1>4, <1>5, <2>1
  <2> QED
    BY <1>1, <1>3, <2>1, <2>2, NothingCollected DEF ToastStep, Before
<1>6. CASE ItemIn("toast").oid = Wanted.oid
  <2>1. Here \in Sought
    BY <1>2, <1>6
  <2>2. /\ SeqAt(Here) = m + 1 /\ m + 1 <= n
        /\ \A at \in Sought : SeqAt(at) <= m + 1 <=> Before(at, Here) \/ at = Here
    <3>1. StoredInOrder(f, Wanted.oid, n)
      BY DEF Fetching
    <3> HIDE DEF f, m, n
    <3>2. \A at \in ChunksOf(f, Wanted.oid) :
            ChunkAt(f, at).seq <= m <=> Before(at, Here)
      BY <1>3 DEF Sought, SeqAt, f
    <3>3. /\ ChunkAt(f, Here).seq = m + 1 /\ m + 1 <= n
          /\ \A at \in ChunksOf(f, Wanted.oid) :
               ChunkAt(f, at).seq <= m + 1 <=> Before(at, Here) \/ at = Here
      <4>1. Here \in ChunksOf(f, Wanted.oid)
        BY <2>1 DEF Sought, f
      <4>2. f.pages \in Seq(Page) /\ m \in Nat /\ n \in Nat
        BY <1>0
      <4> HIDE DEF c, i
      <4> QED
        BY <3>1, <3>2, <4>1, <4>2, NextChunk
    <3> QED
      BY <3>3 DEF Sought, SeqAt, f
  <2>3. ItemIn("toast").bytes = 1 /\ ~ItemIn("toast").old
        /\ ItemIn("toast").seq = m + 1
    BY <1>2, <2>1, <2>2 DEF Fetching, StoredInOrder, Sought, SeqAt
  <2>4. /\ toastDataRead' = m + 1 /\ toastValue' = Append(toastValue, m + 1)
        /\ IF Enough(toastDataRead')
             THEN pc' = [pc EXCEPT !["toast"] = "special"] /\ item' = item
             ELSE item' = [item EXCEPT !["toast"] = @ + 1] /\ pc' = pc
    <3>1. ~Skipped("toast")
      BY <2>3 DEF Skipped
    <3> QED
      BY <1>0, <1>6, <2>3, <3>1 DEF ToastItem, CollectedWith, NextItem, Goto
  <2>5. toastValue' = [k \in 1..(m + 1) |-> k]
    <3>1. toastValue = [k \in 1..m |-> k]
      BY DEF Collecting
    <3> QED
      BY <1>0, <2>4, <3>1, AppendNext
  <2>6. img' = img /\ Wanted' = Wanted /\ Sought' = Sought
    BY SameWanted DEF Fetching, ToastStep
  <2>7. Enough(toastDataRead') <=> m + 1 = n
    BY <1>0, <2>2, <2>4 DEF Enough
  <2>8. CASE m + 1 = n
    <3>1. pc'["toast"] = "special"
      BY <1>0, <2>4, <2>7, <2>8
    <3> QED
      BY <1>0, <2>4, <2>5, <2>6, <2>8, <3>1 DEF Collecting
  <2>9. CASE m + 1 # n
    <3>1. item' = [item EXCEPT !["toast"] = @ + 1] /\ pc' = pc
      BY <2>4, <2>7, <2>9
    <3>2. \A at \in Sought : SeqAt(at)' = SeqAt(at)
      BY <2>6 DEF SeqAt, ChunkAt
    <3>3. \A at \in Sought' : SeqAt(at)' <= toastDataRead' <=> Before(at, Here)'
      <4> SUFFICES ASSUME NEW at \in Sought
                   PROVE  SeqAt(at)' <= m + 1 <=> Before(at, Here')
        BY <2>4, <2>6 DEF Before
      <4>1. SeqAt(at)' = SeqAt(at)
        BY <3>2
      <4>2. SeqAt(at) <= m + 1 <=> Before(at, Here) \/ at = Here
        BY <2>2
      <4>3. Before(at, Here') <=> Before(at, Here) \/ at = Here
        BY <1>4, <3>1
      <4> QED
        BY <4>1, <4>2, <4>3
    <3>4. m + 1 < n /\ m + 1 \in 0..n
      BY <1>0, <2>2, <2>9
    <3> QED
      BY <1>1, <2>4, <2>5, <2>6, <3>1, <3>3, <3>4 DEF Collecting
  <2> QED
    BY <2>8, <2>9
<1> QED
  BY <1>5, <1>6

(* No step of the detour loses what has been collected.                    *)
LEMMA FetchKeeps ==
  ASSUME IInv, VInv, active = "toast", ToastStep PROVE VInv'
<1>1. img' = img /\ Wanted' = Wanted /\ active' = "toast"
  BY SameWanted
<1> SUFFICES ASSUME Fetching' PROVE Collecting'
  BY DEF VInv
<1>2. Fetching
  BY <1>1 DEF Fetching
<1>3. Collecting
  BY <1>2 DEF VInv
<1>4. CASE ReadBlock("toast")
  BY <1>2, <1>3, <1>4, ReadCollects
<1>5. ~ReadNothing("toast")
  BY <1>2, <1>3, ChunkLeft, FetchTypes, LevelTypes DEF ReadNothing, Levels
<1>6. CASE FormatHeader("toast") \/ ItemsDone("toast")
  BY <1>2, <1>3, <1>6, HeaderCollects, ItemsDoneCollects
<1>7. ~ItemBeyondBlock("toast")
  <2>1. SUFFICES ASSUME ItemBeyondBlock("toast") PROVE FALSE
    OBVIOUS
  <2>2. /\ pc["toast"] = "items" /\ InBlock("toast") /\ ~Fits("toast")
        /\ item["toast"] <= Len(PageIn("toast").items)
    BY <2>1 DEF ItemBeyondBlock, AtItem, InBlock
  <2>3. bytesToFormat = BlockSize /\ HealthyFile(img["toast"])
    BY <1>2, <2>2, ToastHeld, FetchTypes
  <2> QED
    BY <2>2, <2>3, HealthyFits DEF Levels
<1>8. CASE FormatSpecial("toast") \/ NextBlock("toast")
  BY <1>2, <1>3, <1>8, SpecialCollects, NextBlockCollects
<1>9. CASE ToastItem
  BY <1>2, <1>3, <1>9, ToastItemCollects
<1> QED
  BY <1>4, <1>5, <1>6, <1>7, <1>8, <1>9 DEF ToastStep

(* A detour starts with nothing, before the first item.                    *)
LEMMA DetourCollects == ASSUME IInv, IInv', Detour PROVE VInv'
<1> SUFFICES ASSUME Fetching' PROVE Collecting'
  BY DEF VInv
<1>0. /\ "toast" \in Levels /\ pc \in [Levels ->
            {"closed", "open", "read", "header", "items", "special", "next",
             "finished", "failed"}]
      /\ currentBlock \in [Levels -> Nat]
  BY DEF IInv, TypeOK, Levels
<1>1. /\ pc'["toast"] = "read" /\ currentBlock'["toast"] = 0
      /\ toastDataRead' = 0 /\ toastValue' = <<>>
  BY <1>0 DEF Detour, Goto
<1>2. /\ img'["toast"].pages \in Seq(Page) /\ Wanted'.bytes \in Nat
  <2>1. /\ img' = img /\ fpos'["main"] = fpos["main"] /\ own'["main"] = own["main"]
        /\ item'["main"] = item["main"] /\ AtItem("main") /\ img["toast"] # NoFile
    BY DEF Detour, IInv, TypeOK, Levels
  <2>2. Wanted' = Wanted
    BY <2>1 DEF Wanted, ItemIn, PageIn
  <2>3. Wanted \in Item
    <3>1. IsFile(img["main"]) /\ "main" \in Levels
      BY DEF IInv, TypeOK, Levels
    <3> QED
      BY <2>1, <3>1, ItemAtHand DEF Wanted, AtItem
  <2>4. img["toast"].pages \in Seq(Page)
    BY <1>0, <2>1, LevelTypes
  <2> QED
    BY <2>1, <2>2, <2>3, <2>4 DEF Item
<1>3. /\ Wanted'.bytes > 0
      /\ \A at \in Sought' : SeqAt(at)' \in 1..Wanted'.bytes
  BY DEF Fetching, StoredInOrder, Sought, SeqAt
<1>4. Here' = <<1, 1>>
  BY <1>1 DEF Here
<1>5. ASSUME NEW at \in Sought'
      PROVE  SeqAt(at)' <= toastDataRead' <=> Before(at, Here)'
  <2>1. at[1] \in Nat /\ at[2] \in Nat /\ at[1] >= 1 /\ at[2] >= 1
    <3>1. /\ at[1] \in 1..Len(img'["toast"].pages) /\ at[1] \in Nat /\ at[2] \in Nat
          /\ at[2] >= 1
      BY <1>2, ChunkPlace DEF Sought
    <3> QED
      BY <1>2, <3>1
  <2>2. ~Before(at, Here')
    BY <1>4, <2>1 DEF Before
  <2> QED
    BY <1>1, <1>2, <1>3, <2>2 DEF Before
<1>6. toastValue' = [k \in 1..toastDataRead' |-> k]
  BY <1>1
<1> QED
  BY <1>1, <1>2, <1>3, <1>5, <1>6 DEF Collecting

(* Every step keeps the invariant.                                         *)
LEMMA NextCollects == IInv /\ IInv' /\ VInv /\ [Next]_vars => VInv'
<1> SUFFICES ASSUME IInv, IInv', VInv, [Next]_vars PROVE VInv'
  OBVIOUS
<1>1. CASE Start \/ StartFails \/ MainItem \/ DetourUnopened \/ Return \/ Exit
  <2>1. active' # "toast"
    BY <1>1 DEF Start, StartFails, MainItem, DetourUnopened, Return, Exit, AtItem
  <2> QED
    BY <2>1 DEF VInv, Fetching
<1>2. ASSUME NEW l \in Levels,
             \/ ReadBlock(l) \/ ReadNothing(l) \/ FormatHeader(l)
             \/ ItemsDone(l) \/ ItemBeyondBlock(l) \/ FormatSpecial(l)
             \/ NextBlock(l)
      PROVE  VInv'
  <2>1. active = l /\ active' = active
    BY <1>2 DEF ReadBlock, ReadNothing, FormatHeader, ItemsDone,
                ItemBeyondBlock, AtItem, FormatSpecial, NextBlock
  <2>2. CASE l = "toast"
    BY <1>2, <2>1, <2>2, FetchKeeps DEF ToastStep
  <2>3. CASE l # "toast"
    BY <2>1, <2>3 DEF VInv, Fetching
  <2> QED
    BY <2>2, <2>3
<1>3. CASE ToastItem
  <2>1. active = "toast"
    BY <1>3 DEF ToastItem, AtItem
  <2> QED
    BY <1>3, <2>1, FetchKeeps DEF ToastStep
<1>4. CASE Detour
  BY <1>4, DetourCollects
<1>5. CASE Ended \/ UNCHANGED vars
  <2>1. UNCHANGED <<img, active, pc, fpos, currentBlock, own, item, toastDataRead,
                    toastValue>>
    BY <1>5 DEF Ended, vars, locals, value
  <2> QED
    BY <2>1 DEF VInv, Fetching, Collecting, Wanted, ItemIn, PageIn, Sought, SeqAt,
                Here, Before, ChunkAt, ChunksOf
<1> QED
  BY <1>1, <1>2, <1>3, <1>4, <1>5 DEF Next

(* What is known of a detour in every behaviour.                           *)
LEMMA Collects == ASSUME SeekFits PROVE Spec => []VInv
<1>1. Init => VInv
  BY DEF Init, VInv, Fetching
<1> QED
  BY <1>1, NextCollects, Invariance, PTL DEF Spec

(* A value of any number of chunks, stored in order and in full in a       *)
(* healthy TOAST file, comes back as it was put in, whatever other values, *)
(* and old versions of them, lie between its chunks.                       *)
THEOREM ValuesComeBack == ASSUME SeekFits PROVE Spec => []ValueRestored
<1>1. IInv /\ VInv => ValueRestored
  <2> SUFFICES ASSUME IInv, VInv, pc["toast"] = "finished",
                      StoredInOrder(img["toast"], Wanted.oid, Wanted.bytes)
               PROVE  toastValue = [k \in 1..Wanted.bytes |-> k]
    BY DEF ValueRestored
  <2>1. Fetching
    BY DEF IInv, Nesting, Fetching
  <2> QED
    BY <2>1 DEF VInv, Collecting
<1> QED
  BY <1>1, Invariance, Collects, PTL

-----------------------------------------------------------------------------
(* Nothing is reported of a healthy file, whatever the range and the       *)
(* options, as long as no value is fetched from a TOAST file, or all that  *)
(* are fetched are found there.                                            *)

(* A block has room for more than its header: a special section is only    *)
(* looked at past it (pg_filedump.c:932).                                  *)
HeaderFits == HeaderSize < BlockSize

(* The cases the theorems are about.                                       *)
AllFound ==
  /\ ~opts.laterSegment
  /\ \A w \in PointersOf(img["main"]) : StoredInOrder(img["toast"], w.oid, w.bytes)
Undisturbed == HealthyFile(img["main"]) /\ (~opts.toast \/ AllFound)

(* What the outer level judges its block by, before a detour and after.    *)
JudgesFairly ==
  InBlock("main") =>
    /\ bytesToFormat = BlockSize
    /\ specialType \notin {"unknown", "boundary"}

Quiet == OnlyTheRange

(* Before its first block the dump stands where the range begins.          *)
FirstRead ==
  pc["main"] = "read" /\ own["main"] = 0 => fpos["main"] = StartPosition

WantedNamed == active = "toast" => opts.toast /\ Wanted \in PointersOf(img["main"])

AInv == Undisturbed => JudgesFairly /\ Quiet /\ WantedNamed

(* The start of the range stays in mind until a block has been read.       *)
LEMMA FirstReadStays == ASSUME SeekFits PROVE Spec => []FirstRead
<1>1. Init => FirstRead
  BY DEF Init, FirstRead
<1>2. ASSUME IInv, FirstRead, [Next]_vars PROVE FirstRead'
  <2>0. /\ "main" \in Levels /\ "toast" \in Levels
        /\ pc \in [Levels -> {"closed", "open", "read", "header", "items",
                              "special", "next", "finished", "failed"}]
        /\ fpos \in [Levels -> Nat] /\ own \in [Levels -> 0..BlockSize]
    BY <1>2 DEF IInv, TypeOK, Levels
  <2>1. ASSUME pc'["main"] = "read" => pc["main"] = "read",
               opts' = opts, own'["main"] = own["main"],
               fpos'["main"] = fpos["main"]
        PROVE  FirstRead'
    BY <1>2, <2>1 DEF FirstRead, StartPosition
  <2>2. CASE Start
    <3>1. fpos'["main"] = StartPosition /\ opts' = opts
      BY <2>0, <2>2 DEF Start
    <3> QED
      BY <3>1 DEF FirstRead, StartPosition
  <2>3. ASSUME NEW l \in Levels, ReadBlock(l) \/ ReadNothing(l) PROVE FirstRead'
    <3>1. /\ opts' = opts /\ pc'[l] # "read"
          /\ l # "main" => /\ pc'["main"] = pc["main"]
                           /\ own'["main"] = own["main"]
                           /\ fpos'["main"] = fpos["main"]
      BY <2>0, <2>3 DEF ReadBlock, ReadNothing, Goto
    <3> QED
      BY <1>2, <3>1 DEF FirstRead, StartPosition
  <2>4. ASSUME NEW l \in Levels, NextBlock(l) PROVE FirstRead'
    <3>1. CASE l = "main"
      <4>1. own["main"] # 0 /\ own' = own
        BY <1>2, <2>4, <3>1 DEF NextBlock, IInv, FrameOK, HoldsBlock
      <4> QED
        BY <4>1 DEF FirstRead
    <3>2. CASE l # "main"
      <4>1. /\ pc'["main"] = pc["main"] /\ opts' = opts
            /\ own' = own /\ fpos' = fpos
        BY <2>0, <2>4, <3>2 DEF NextBlock, Goto
      <4> QED
        BY <2>1, <4>1
    <3> QED
      BY <3>1, <3>2
  <2>5. ASSUME NEW l \in Levels,
               \/ FormatHeader(l) \/ ItemsDone(l) \/ ItemBeyondBlock(l)
               \/ FormatSpecial(l)
        PROVE  FirstRead'
    <3>1. /\ pc'["main"] = "read" => pc["main"] = "read"
          /\ opts' = opts /\ own' = own /\ fpos' = fpos
      BY <2>0, <2>5 DEF FormatHeader, ItemsDone, ItemBeyondBlock, AtItem,
         FormatSpecial, Goto
    <3> QED
      BY <2>1, <3>1
  <2>6. CASE StartFails \/ MainItem \/ ToastItem \/ Detour \/ DetourUnopened
               \/ Return \/ Exit
    <3>1. /\ pc'["main"] = "read" => pc["main"] = "read"
          /\ opts' = opts /\ own'["main"] = own["main"]
          /\ fpos'["main"] = fpos["main"]
      BY <2>0, <2>6 DEF StartFails, MainItem, ToastItem, Detour, DetourUnopened,
         Return, Exit, AtItem, Goto, locals
    <3> QED
      BY <2>1, <3>1
  <2>7. CASE Ended \/ UNCHANGED vars
    BY <2>1, <2>7 DEF Ended, vars, locals
  <2> QED
    BY <1>2, <2>2, <2>3, <2>4, <2>5, <2>6, <2>7 DEF Next
<1> QED
  BY <1>1, <1>2, Invariance, PTL DEF Spec

(* The first read of a healthy file finds nothing only where the range     *)
(* begins past its end.                                                    *)
LEMMA PrematureMeans ==
  ASSUME IInv, FirstRead, HealthyFile(img["main"]), active = "main",
         ReadNothing("main"), own["main"] = 0
  PROVE  opts.range /\ BlockSize * opts.first >= img["main"].size
<1>1. pc["main"] = "read" /\ Available("main") = 0
  BY DEF ReadNothing
<1>2. /\ img["main"].size \in Nat /\ img["main"].size > 0
      /\ fpos["main"] \in Nat
  BY ActiveFile DEF HealthyFile, Levels
<1>3. fpos["main"] >= img["main"].size
  BY <1>1, <1>2, SizesAssumption DEF Available, Lesser
<1>4. fpos["main"] = StartPosition
  BY <1>1 DEF FirstRead
<1>5. opts.range
  BY <1>2, <1>3, <1>4 DEF StartPosition
<1>6. opts.first \in Nat
  BY DEF IInv, TypeOK, Options
<1>7. BlockSize * opts.first \in Nat
  BY <1>6, NextBlockOffset
<1>8. Wrap(BlockSize * opts.first) <= BlockSize * opts.first
  <2> DEFINE n == BlockSize * opts.first
  <2>1. n \in Nat
    BY <1>7
  <2> HIDE DEF n
  <2>2. n % WordRange <= n
    BY <2>1, SizesAssumption
  <2> QED
    BY <2>2 DEF Wrap, n
<1> DEFINE w == Wrap(BlockSize * opts.first)
           b == BlockSize * opts.first
<1>9. w \in Nat /\ b \in Nat /\ w <= b /\ w >= img["main"].size
  BY <1>3, <1>4, <1>5, <1>7, <1>8, WrapType DEF StartPosition
<1> HIDE DEF w, b
<1>10. b >= img["main"].size
  BY <1>2, <1>9
<1> QED
  BY <1>5, <1>10 DEF b

(* The file the running level reads is healthy, and what is wanted of it   *)
(* is there.                                                               *)
LEMMA RunningHealthy ==
  ASSUME IInv, AInv, Undisturbed, NEW l \in Levels, active = l
  PROVE  /\ HealthyFile(img[l]) /\ img[l] # NoFile
         /\ l = "toast" => Fetching /\ ~opts.laterSegment
<1>1. CASE l = "main"
  BY <1>1 DEF Undisturbed, HealthyFile
<1>2. CASE l = "toast"
  <2>1. opts.toast /\ Wanted \in PointersOf(img["main"])
    BY <1>2 DEF AInv, WantedNamed
  <2>2. AllFound
    BY <2>1 DEF Undisturbed
  <2>3. Fetching
    BY <1>2, <2>1, <2>2 DEF AllFound, Fetching
  <2> QED
    BY <1>2, <2>2, <2>3 DEF Fetching, StoredInOrder, HealthyFile, AllFound
<1> QED
  BY <1>1, <1>2 DEF Levels

(* Both levels judge their blocks by whole blocks.                         *)
LEMMA WholeJudged ==
  ASSUME IInv, AInv, Undisturbed, NEW l \in Levels, active = l, InBlock(l)
  PROVE  /\ bytesToFormat = BlockSize /\ own[l] = BlockSize
         /\ HealthyPage(PageIn(l)) /\ PageIn(l) \in Page
         /\ PageIn(l).items \in Seq(Item)
         /\ specialType \notin {"unknown", "boundary"}
<1>1. /\ HealthyPage(PageIn(l)) /\ PageIn(l) \in Page
      /\ PageIn(l).items \in Seq(Item) /\ own[l] = BlockSize
  BY RunningHealthy, HealthyHeld
<1>2. InBlock("main")
  BY DEF IInv, Nesting, InBlock, Levels
<1> QED
  BY <1>1, <1>2 DEF AInv, JudgesFairly

(* A complaint about nothing leaves the log alone.                         *)
LEMMA NoComplaint ==
  ASSUME NEW l, Complain(l, {}) PROVE errors' = errors
  BY DEF Complain

(* A healthy file has a header for GetBlockSize.                           *)
LEMMA HeaderThere ==
  ASSUME HeaderFits, IInv, NEW l \in Levels, HealthyFile(img[l])
  PROVE  BlockSizeErrors(l) = {}
<1> DEFINE n == Len(img[l].pages)
<1>1. n \in Nat /\ img[l].size = BlockSize * n /\ img[l].size > 0
  BY LevelTypes DEF HealthyFile
<1> HIDE DEF n
<1>2. n >= 1
  BY <1>1, SizesAssumption
<1>3. BlockSize * n >= BlockSize
  BY <1>1, <1>2, SizesAssumption
<1>4. ~(img[l].size < HeaderSize)
  BY <1>1, <1>3, SizesAssumption DEF HeaderFits
<1> QED
  BY <1>4 DEF BlockSizeErrors

(* A read puts a whole healthy block under the eyes of the checks.         *)
LEMMA ReadBlockQuiet ==
  ASSUME HeaderFits, IInv, AInv, Undisturbed, NEW l \in Levels, ReadBlock(l)
  PROVE  /\ errors' = errors
         /\ InBlock("main")' => /\ bytesToFormat' = BlockSize
                                /\ specialType' \notin {"unknown", "boundary"}
<1>0. "main" \in Levels /\ pc \in [Levels ->
            {"closed", "open", "read", "header", "items", "special", "next",
             "finished", "failed"}]
  BY DEF IInv, TypeOK, Levels
<1>1. /\ active = l /\ pc[l] = "read" /\ Available(l) > 0
      /\ bytesToFormat' = Available(l) /\ errors' = errors
  BY DEF ReadBlock, BytesRead
<1>2. /\ Available(l) = BlockSize /\ HealthyPage(PageAt(l)) /\ PageAt(l) \in Page
  BY <1>1, RunningHealthy, HealthyRead
<1>3. InBlock("main")' => specialType' = SpecialOf(PageAt(l), BlockSize)
  BY <1>0, <1>1, <1>2 DEF ReadBlock, Goto, Mode, InBlock, Levels
<1>4. SpecialOf(PageAt(l), BlockSize) \notin {"unknown", "boundary"}
  <2>1. /\ PageAt(l).special \in 1..BlockSize
        /\ PageAt(l).special = BlockSize \/ PageAt(l).index # "unknown"
        /\ PageAt(l).index \in {"sequence", "index", "unknown"}
    BY <1>2 DEF HealthyPage, Page
  <2> QED
    BY <2>1, SizesAssumption DEF SpecialOf, HeaderFits
<1> QED
  BY <1>1, <1>2, <1>3, <1>4

(* The header of a healthy page passes every check.                        *)
LEMMA FormatHeaderQuiet ==
  ASSUME HeaderFits, IInv, AInv, Undisturbed, NEW l \in Levels, FormatHeader(l)
  PROVE  errors' = errors
<1>1. active = l /\ pc[l] = "header" /\ InBlock(l)
  BY DEF FormatHeader, InBlock
<1>2. /\ bytesToFormat = BlockSize /\ own[l] = BlockSize
      /\ HealthyPage(PageIn(l)) /\ PageIn(l) \in Page
  BY <1>1, WholeJudged
<1>3. PICK sum \in ChecksumOutcomes(l) : Complain(l, HeaderErrors(l, sum))
  BY DEF FormatHeader
<1>4. sum
  <2>1. PageIn(l).sumOK /\ (l = "toast" => ~opts.laterSegment)
    BY <1>1, <1>2, RunningHealthy DEF HealthyPage
  <2>2. ~(own[l] < BlockSize)
    BY <1>2, SizesAssumption
  <2>3. \/ sum \in {TRUE}
        \/ sum \in {PageIn(l).sumOK /\ (l = "toast" => ~opts.laterSegment)}
    BY <1>3, <2>2 DEF ChecksumOutcomes
  <2> QED
    BY <2>1, <2>3
<1>5. PointersRead(PageIn(l)) /\ ~(bytesToFormat < HeaderSize) /\ PageIn(l).sane
  BY <1>2, HealthyPointers DEF HealthyPage
<1>6. HeaderErrors(l, sum) = {}
  BY <1>4, <1>5 DEF HeaderErrors
<1> QED
  BY <1>3, <1>6, NoComplaint

(* No item of a healthy page is beyond its block.                          *)
LEMMA NoItemBeyond ==
  ASSUME IInv, AInv, Undisturbed, NEW l \in Levels, ItemBeyondBlock(l)
  PROVE  FALSE
<1>1. /\ active = l /\ pc[l] = "items" /\ ~Fits(l) /\ InBlock(l)
      /\ item[l] <= Len(PageIn(l).items)
  BY DEF ItemBeyondBlock, AtItem, InBlock
<1>2. bytesToFormat = BlockSize /\ HealthyFile(img[l])
  BY <1>1, WholeJudged, RunningHealthy
<1> QED
  BY <1>1, <1>2, HealthyFits

(* The special section was classified in full.                             *)
LEMMA FormatSpecialQuiet ==
  ASSUME IInv, AInv, Undisturbed, NEW l \in Levels, FormatSpecial(l)
  PROVE  errors' = errors
<1>1. active = l /\ InBlock(l)
  BY DEF FormatSpecial, InBlock
<1>2. specialType \notin {"unknown", "boundary"}
  BY <1>1, WholeJudged
<1>3. Complain(l, {})
  BY <1>2 DEF FormatSpecial
<1> QED
  BY <1>3, NoComplaint

(* A level's steps raise no alarm.                                         *)
LEMMA LevelQuiet ==
  ASSUME HeaderFits, IInv, VInv, AInv, FirstRead, NEW l \in Levels,
         \/ ReadBlock(l) \/ ReadNothing(l) \/ FormatHeader(l)
         \/ ItemsDone(l) \/ ItemBeyondBlock(l) \/ FormatSpecial(l)
         \/ NextBlock(l)
  PROVE  AInv'
<1>0. /\ "main" \in Levels /\ "toast" \in Levels /\ pc \in [Levels ->
            {"closed", "open", "read", "header", "items", "special", "next",
             "finished", "failed"}]
  BY DEF IInv, TypeOK, Levels
<1>1. active = l /\ active' = active /\ img' = img /\ opts' = opts
  BY DEF ReadBlock, ReadNothing, FormatHeader, ItemsDone, ItemBeyondBlock, AtItem,
     FormatSpecial, NextBlock
<1>2. Undisturbed' <=> Undisturbed
  BY <1>1 DEF Undisturbed, AllFound
<1> SUFFICES ASSUME Undisturbed PROVE JudgesFairly' /\ Quiet' /\ WantedNamed'
  BY <1>2 DEF AInv
<1>3. WantedNamed'
  <2>1. CASE l = "toast"
    <3>1. Wanted' = Wanted
      BY <1>1, <2>1, SameWanted DEF ToastStep
    <3> QED
      BY <1>1, <2>1, <3>1 DEF AInv, WantedNamed
  <2>2. CASE l # "toast"
    BY <1>1, <2>2 DEF WantedNamed
  <2> QED
    BY <2>1, <2>2
<1>4. ASSUME errors' = errors, bytesToFormat' = bytesToFormat,
             specialType' = specialType, InBlock("main")' => InBlock("main")
      PROVE  JudgesFairly' /\ Quiet'
  BY <1>1, <1>4 DEF AInv, JudgesFairly, Quiet, OnlyTheRange
<1>5. CASE ReadBlock(l)
  <2>1. /\ errors' = errors
        /\ InBlock("main")' => /\ bytesToFormat' = BlockSize
                               /\ specialType' \notin {"unknown", "boundary"}
    BY <1>5, ReadBlockQuiet
  <2> QED
    BY <1>1, <1>3, <2>1 DEF AInv, JudgesFairly, Quiet, OnlyTheRange
<1>6. CASE ReadNothing(l)
  <2>1. l = "main"
    <3>1. SUFFICES ASSUME l = "toast" PROVE FALSE
      BY DEF Levels
    <3>2. Fetching /\ pc["toast"] = "read" /\ Available("toast") = 0
      BY <1>1, <1>6, <3>1, RunningHealthy DEF ReadNothing
    <3> QED
      BY <3>2, ChunkLeft DEF VInv
  <2>2. ~InBlock("main")'
    BY <1>0, <1>6, <2>1 DEF ReadNothing, Goto, InBlock
  <2>3. Quiet
    BY DEF AInv
  <2>4. OnlyTheRange'
    <3>1. CASE own["main"] = 0
      <4>1. opts.range /\ BlockSize * opts.first >= img["main"].size
        BY <1>1, <1>6, <2>1, <3>1, PrematureMeans DEF Undisturbed
      <4>2. errors' \subseteq errors \cup {<<"main", "premature">>}
        BY <1>6, <2>1 DEF ReadNothing
      <4> QED
        BY <1>1, <2>3, <4>1, <4>2 DEF Quiet, OnlyTheRange
    <3>2. CASE own["main"] # 0
      <4>1. errors' = errors
        BY <1>6, <2>1, <3>2 DEF ReadNothing, InitialRead
      <4> QED
        BY <1>1, <2>3, <4>1 DEF Quiet, OnlyTheRange
    <3> QED
      BY <3>1, <3>2
  <2> QED
    BY <1>3, <2>2, <2>4 DEF JudgesFairly, Quiet
<1>7. CASE FormatHeader(l)
  <2>1. errors' = errors
    BY <1>7, FormatHeaderQuiet
  <2>2. bytesToFormat' = bytesToFormat /\ specialType' = specialType
        /\ (InBlock("main")' => InBlock("main"))
    BY <1>0, <1>7 DEF FormatHeader, Goto, InBlock
  <2> QED
    BY <1>3, <1>4, <2>1, <2>2
<1>8. CASE ItemsDone(l)
  <2>1. /\ errors' = errors /\ bytesToFormat' = bytesToFormat
        /\ specialType' = specialType /\ (InBlock("main")' => InBlock("main"))
    BY <1>0, <1>8 DEF ItemsDone, Goto, InBlock, globals
  <2> QED
    BY <1>3, <1>4, <2>1
<1>9. ~ItemBeyondBlock(l)
  BY NoItemBeyond
<1>10. CASE FormatSpecial(l)
  <2>1. errors' = errors
    BY <1>10, FormatSpecialQuiet
  <2>2. bytesToFormat' = bytesToFormat /\ specialType' = specialType
        /\ (InBlock("main")' => InBlock("main"))
    BY <1>0, <1>10 DEF FormatSpecial, Goto, InBlock
  <2> QED
    BY <1>3, <1>4, <2>1, <2>2
<1>11. CASE NextBlock(l)
  <2>1. /\ errors' = errors /\ bytesToFormat' = bytesToFormat
        /\ specialType' = specialType /\ (InBlock("main")' => InBlock("main"))
    BY <1>0, <1>11 DEF NextBlock, Goto, InBlock, globals
  <2> QED
    BY <1>3, <1>4, <2>1
<1> QED
  BY <1>5, <1>6, <1>7, <1>8, <1>9, <1>10, <1>11

(* A detour starts on a healthy file, for a value a pointer names, with a  *)
(* whole block of the outer level in the shared variables.                 *)
LEMMA DetourQuiet == ASSUME HeaderFits, IInv, AInv, Detour PROVE AInv'
<1>1. /\ "main" \in Levels /\ "toast" \in Levels /\ pc["main"] = "items"
      /\ AtItem("main") /\ External /\ active = "main" /\ active' = "toast"
      /\ img' = img /\ opts' = opts /\ pc'["main"] = pc["main"]
      /\ fpos'["main"] = fpos["main"] /\ own'["main"] = own["main"]
      /\ item'["main"] = item["main"]
      /\ bytesToFormat' = bytesToFormat /\ specialType' = specialType
      /\ Complain("toast", BlockSizeErrors("toast"))
  BY DEF Detour, AtItem, Goto, IInv, TypeOK, Levels
<1>2. Undisturbed' <=> Undisturbed
  BY <1>1 DEF Undisturbed, AllFound
<1> SUFFICES ASSUME Undisturbed PROVE JudgesFairly' /\ Quiet' /\ WantedNamed'
  BY <1>2 DEF AInv
<1>3. Wanted' = Wanted
  BY <1>1 DEF Wanted, ItemIn, PageIn
<1>4. Wanted \in PointersOf(img["main"]) /\ opts.toast
  <2> DEFINE f == img["main"]
             p == currentBlock["main"] + 1
             i == item["main"]
  <2>1. /\ HealthyFile(f) /\ InBlock("main") /\ i <= Len(PageIn("main").items)
        /\ f # NoFile
    BY <1>1, RunningHealthy DEF AtItem, InBlock
  <2>2. /\ p \in 1..Len(f.pages) /\ PageIn("main") = f.pages[p]
        /\ PageIn("main").items \in Seq(Item)
    BY <1>1, <2>1, HealthyHeld
  <2>3. i \in 1..Len(f.pages[p].items)
    <3>1. FrameOK("main") /\ i \in Nat
      BY <1>1, <2>1, LevelTypes
    <3>2. i >= 1
      BY <1>1, <3>1 DEF FrameOK
    <3>3. Len(PageIn("main").items) \in Nat
      BY <2>2
    <3> HIDE DEF i, p
    <3>4. i \in 1..Len(PageIn("main").items)
      BY <2>1, <3>1, <3>2, <3>3
    <3> QED
      BY <2>2, <3>4
  <2>4. Wanted = f.pages[p].items[i]
    BY <2>2 DEF Wanted, ItemIn
  <2>5. Wanted.oid # 0 /\ opts.toast
    BY <1>1 DEF External, Wanted
  <2> HIDE DEF p, i
  <2>6. Wanted \in {f.pages[p].items[j] : j \in 1..Len(f.pages[p].items)}
    BY <2>3, <2>4
  <2>7. Wanted \in UNION {{f.pages[q].items[j] : j \in 1..Len(f.pages[q].items)} :
                            q \in 1..Len(f.pages)}
    BY <2>2, <2>6
  <2> QED
    BY <2>5, <2>7 DEF PointersOf
<1>5. HealthyFile(img["toast"])
  <2>1. AllFound
    BY <1>4 DEF Undisturbed
  <2> QED
    BY <1>4, <2>1 DEF AllFound, StoredInOrder
<1>6. errors' = errors
  BY <1>1, <1>5, HeaderThere, NoComplaint
<1> QED
  BY <1>1, <1>3, <1>4, <1>6 DEF AInv, JudgesFairly, Quiet, OnlyTheRange,
     WantedNamed, InBlock

(* Every step keeps the invariant.                                         *)
LEMMA NextQuiet ==
  ASSUME HeaderFits, IInv, VInv, AInv, FirstRead, [Next]_vars PROVE AInv'
<1>0. /\ "main" \in Levels /\ "toast" \in Levels /\ pc \in [Levels ->
            {"closed", "open", "read", "header", "items", "special", "next",
             "finished", "failed"}]
  BY DEF IInv, TypeOK, Levels
<1>1. CASE Start
  <2>1. /\ img' = img /\ opts' = opts /\ active' = "main" /\ pc'["main"] = "read"
        /\ Complain("main", IF SizeGiven THEN {} ELSE BlockSizeErrors("main"))
    BY <1>0, <1>1 DEF Start, Goto
  <2> SUFFICES ASSUME Undisturbed PROVE JudgesFairly' /\ Quiet' /\ WantedNamed'
    BY <2>1 DEF AInv, Undisturbed, AllFound
  <2>2. Complain("main", {})
    BY <1>0, <2>1, HeaderThere DEF Undisturbed
  <2> QED
    BY <2>1, <2>2, NoComplaint DEF AInv, JudgesFairly, Quiet, OnlyTheRange,
       WantedNamed, InBlock
<1>2. CASE StartFails
  <2>1. /\ img' = img /\ opts' = opts /\ active' = "exit" /\ pc'["main"] = "failed"
        /\ Complain("main",
             {"seek"} \cup (IF SizeGiven THEN {} ELSE BlockSizeErrors("main")))
    BY <1>0, <1>2 DEF StartFails, Goto
  <2> SUFFICES ASSUME Undisturbed PROVE JudgesFairly' /\ Quiet' /\ WantedNamed'
    BY <2>1 DEF AInv, Undisturbed, AllFound
  <2>2. (IF SizeGiven THEN {} ELSE BlockSizeErrors("main")) = {}
    BY <1>0, HeaderThere DEF Undisturbed
  <2>3. errors' = errors \cup {<<"main", "seek">>}
    BY <2>1, <2>2 DEF Complain
  <2>4. Quiet
    BY DEF AInv
  <2>5. Quiet'
    BY <2>1, <2>3, <2>4 DEF Quiet, OnlyTheRange
  <2> QED
    BY <2>1, <2>5 DEF JudgesFairly, WantedNamed, InBlock
<1>3. ASSUME NEW l \in Levels,
             \/ ReadBlock(l) \/ ReadNothing(l) \/ FormatHeader(l)
             \/ ItemsDone(l) \/ ItemBeyondBlock(l) \/ FormatSpecial(l)
             \/ NextBlock(l)
      PROVE  AInv'
  BY <1>3, LevelQuiet
<1>4. CASE Detour
  BY <1>4, DetourQuiet
<1>5. CASE ToastItem
  <2>1. /\ active = "toast" /\ errors' = errors /\ bytesToFormat' = bytesToFormat
        /\ specialType' = specialType /\ pc'["main"] = pc["main"]
        /\ img' = img /\ opts' = opts /\ active' = "toast"
    BY <1>0, <1>5 DEF ToastItem, AtItem, Goto, globals
  <2>2. Wanted' = Wanted
    BY <1>5, <2>1, SameWanted DEF ToastStep
  <2> QED
    BY <2>1, <2>2 DEF AInv, Undisturbed, AllFound, JudgesFairly, Quiet,
       OnlyTheRange, WantedNamed, InBlock
<1>6. CASE MainItem \/ DetourUnopened \/ Return \/ Exit
  <2>1. /\ errors' = errors /\ bytesToFormat' = bytesToFormat
        /\ specialType' = specialType /\ pc'["main"] = pc["main"]
        /\ img' = img /\ opts' = opts /\ active' # "toast"
    BY <1>0, <1>6 DEF MainItem, DetourUnopened, Return, Exit, AtItem, Goto, globals,
       locals
  <2> QED
    BY <2>1 DEF AInv, Undisturbed, AllFound, JudgesFairly, Quiet, OnlyTheRange,
       WantedNamed, InBlock
<1>7. CASE Ended \/ UNCHANGED vars
  <2>1. UNCHANGED <<img, opts, active, pc, fpos, own, item, bytesToFormat, specialType,
                    errors>>
    BY <1>7 DEF Ended, vars, locals, globals
  <2> QED
    BY <2>1 DEF AInv, Undisturbed, AllFound, JudgesFairly, Quiet, OnlyTheRange,
       WantedNamed, InBlock, Wanted, ItemIn, PageIn
<1> QED
  BY <1>1, <1>2, <1>3, <1>4, <1>5, <1>6, <1>7 DEF Next

(* What a healthy file lets be known in every behaviour.                   *)
LEMMA StaysQuiet == ASSUME SeekFits, HeaderFits PROVE Spec => []AInv
<1>1. Init => AInv
  BY DEF Init, AInv, JudgesFairly, Quiet, OnlyTheRange, WantedNamed, InBlock
<1>2. IInv /\ VInv /\ AInv /\ FirstRead /\ [Next]_vars => AInv'
  BY NextQuiet
<1> QED
  BY <1>1, <1>2, Invariance, Collects, FirstReadStays, PTL DEF Spec

(* Whatever the options and the range, nothing in a healthy file is called *)
(* an error, as long as no external values are fetched: the messages that  *)
(* remain are a failed seek and a range that begins past the end.          *)
THEOREM NoAlarm == ASSUME SeekFits, HeaderFits PROVE Spec => []NoFalseAlarm
<1>1. AInv => NoFalseAlarm
  BY DEF AInv, Undisturbed, Quiet, NoFalseAlarm
<1> QED
  BY <1>1, StaysQuiet, PTL

(* Nor when external values are fetched and all are found: each detour     *)
(* ends with a whole block in hand, so that the outer level is judged by   *)
(* what the nested dump left as it would have been by its own.             *)
THEOREM NoAlarmWhenFound ==
  ASSUME SeekFits, HeaderFits PROVE Spec => []NoFalseAlarmWhenFound
<1>1. AInv => NoFalseAlarmWhenFound
  BY DEF AInv, Undisturbed, AllFound, Quiet, NoFalseAlarmWhenFound
<1> QED
  BY <1>1, StaysQuiet, PTL
(***************************************************************************)
(* Damage is reported: no item that lies beyond its block is passed over,  *)
(* before a detour or after.                                               *)
(***************************************************************************)

Logged == <<"main", "item">> \in errors
AtPage == currentBlock["main"] + 1
BeyondHere(i) == Beyond(img["main"], AtPage, i)

Damaged(p) ==
  /\ ItemsShown(img["main"], p)
  /\ \E i \in 1..Len(img["main"].pages[p].items) : Beyond(img["main"], p, i)

(* The blocks before the current one, the current one once its items are   *)
(* done, and the items before the one at hand have been reported.          *)
BlocksReported ==
  \A p \in 1..Len(img["main"].pages) :
    p - 1 >= FirstAsked /\ p <= currentBlock["main"] /\ Damaged(p) => Logged

BlockReported ==
  \/ pc["main"] \in {"special", "next"}
  \/ pc["main"] = "finished" /\ own["main"] > 0
  => (Damaged(AtPage) => Logged)

ItemsReported ==
  pc["main"] = "items" =>
    \A i \in 1..Len(PageIn("main").items) :
      i < item["main"] /\ BeyondHere(i) => Logged

(* The outer level judges by its own bytes until it has fetched a value.   *)
BytesKnown ==
  active = "main" /\ pc["main"] \in {"header", "items"} =>
    \/ bytesToFormat = own["main"]
    \/ /\ pc["main"] = "items" /\ opts.toast
       /\ \E j \in 1..(item["main"] - 1) : PageIn("main").items[j].oid # 0

FetchesFit ==
  active = "toast" => opts.toast /\ Wanted.oid # 0 /\ ~BeyondHere(item["main"])

DInv ==
  opts.mode = "interpret" =>
    BlocksReported /\ BlockReported /\ ItemsReported /\ BytesKnown /\ FetchesFit

(* What is used of the types.                                              *)
LEMMA LenOfItems == ASSUME NEW s \in Seq(Item) PROVE Len(s) \in Nat
  OBVIOUS

LEMMA DamageTypes ==
  ASSUME IInv
  PROVE  /\ "main" \in Levels /\ "toast" \in Levels /\ "main" # "toast"
         /\ pc \in [Levels -> {"closed", "open", "read", "header", "items",
                               "special", "next", "finished", "failed"}]
         /\ currentBlock \in [Levels -> Nat] /\ own \in [Levels -> 0..BlockSize]
         /\ item \in [Levels -> Nat] /\ fpos \in [Levels -> Nat]
         /\ currentBlock["main"] \in Nat /\ own["main"] \in Nat
         /\ item["main"] \in Nat /\ FirstAsked \in Nat
         /\ Len(img["main"].pages) \in Nat
<1>1. /\ pc \in [Levels -> {"closed", "open", "read", "header", "items",
                            "special", "next", "finished", "failed"}]
      /\ currentBlock \in [Levels -> Nat] /\ own \in [Levels -> 0..BlockSize]
      /\ item \in [Levels -> Nat] /\ fpos \in [Levels -> Nat]
  BY DEF IInv, TypeOK
<1>2. opts.first \in Nat
  BY OuterTypes
<1>3. Len(img["main"].pages) \in Nat
  BY OuterNumbers
<1> QED
  BY <1>1, <1>2, <1>3, OuterNumbers DEF Levels, FirstAsked

(* The block in the buffer is the page of its number, with the bytes the   *)
(* file holds of it.                                                       *)
LEMMA PageAtHand ==
  ASSUME IInv, HoldsBlock("main")
  PROVE  /\ AtPage \in 1..Len(img["main"].pages)
         /\ PageIn("main") = img["main"].pages[AtPage]
         /\ BytesHeld(img["main"], AtPage) = own["main"]
         /\ Len(PageIn("main").items) \in Nat
<1> DEFINE b == BlockSize * currentBlock["main"]
           w == own["main"]
           n == fpos["main"]
           size == img["main"].size
<1>1. /\ b \in Nat /\ w \in 0..BlockSize /\ n \in Nat /\ size \in Nat
      /\ currentBlock["main"] \in Nat /\ BlockSize \in Nat \ {0}
  BY DamageTypes, OuterNumbers, OuterOffset, SizesAssumption
<1>2. /\ w > 0 /\ n = b + w /\ n <= size /\ (w = BlockSize \/ n = size)
  BY DEF HoldsBlock
<1>3. AtPage - 1 = currentBlock["main"]
  BY <1>1 DEF AtPage
<1>4. BytesHeld(img["main"], AtPage) = Lesser(BlockSize, size - b)
  BY <1>3 DEF BytesHeld
<1>5. n - w = b
  <2> HIDE DEF b, w, n, size
  <2> QED
    BY <1>1, <1>2
<1>6. Lesser(BlockSize, size - b) = w
  <2> HIDE DEF b, w, n, size
  <2> QED
    BY <1>1, <1>2 DEF Lesser
<1>7. b \div BlockSize = currentBlock["main"]
  <2> DEFINE c == currentBlock["main"]
  <2> HIDE DEF c
  <2>1. c \in Nat
    BY <1>1 DEF c
  <2>2. (BlockSize * c) \div BlockSize = c
    BY <1>1, <2>1
  <2> QED
    BY <2>2 DEF c
<1>8. PageIn("main") = img["main"].pages[AtPage]
  BY <1>5, <1>7 DEF PageIn, AtPage
<1>9. AtPage \in 1..Len(img["main"].pages)
  <2>1. /\ size <= Len(img["main"].pages) * BlockSize
        /\ Len(img["main"].pages) \in Nat
    BY DamageTypes DEF IInv, TypeOK, IsFile
  <2>2. b < size
    <3> HIDE DEF b, w, n, size
    <3> QED
      BY <1>1, <1>2
  <2>3. currentBlock["main"] < Len(img["main"].pages)
    BY <1>1, <2>1, <2>2, BlockBelowPages
  <2>4. currentBlock["main"] \in Nat
    BY <1>1
  <2>5. currentBlock["main"] + 1 \in 1..Len(img["main"].pages)
    BY <2>1, <2>3, <2>4
  <2> QED
    BY <2>5 DEF AtPage
<1>10. Len(PageIn("main").items) \in Nat
  <2>1. IsFile(img["main"])
    BY DEF IInv, TypeOK
  <2>2. PageIn("main").items \in Seq(Item)
    BY <2>1, HeldPage, DamageTypes
  <2> QED
    BY <2>2
<1> QED
  BY <1>4, <1>6, <1>8, <1>9, <1>10

(* An item that is found to fit is not one that had to be reported.        *)
LEMMA FitIsNotBeyond ==
  ASSUME IInv, BytesKnown, active = "main", AtItem("main"), Fits("main")
  PROVE  ~BeyondHere(item["main"])
<1>1. /\ pc["main"] = "items" /\ HoldsBlock("main")
      /\ item["main"] <= Len(PageIn("main").items)
  BY OuterTypes DEF AtItem, FrameOK, InBlock
<1>2. /\ PageIn("main") = img["main"].pages[AtPage]
      /\ BytesHeld(img["main"], AtPage) = own["main"]
  BY <1>1, PageAtHand
<1> DEFINE e == PageIn("main").items[item["main"]].end
<1>3. e \in Nat
  <2>1. /\ IsFile(img["main"]) /\ PageIn("main").items \in Seq(Item)
    BY <1>1, HeldPage, DamageTypes DEF IInv, TypeOK
  <2>2. item["main"] >= 1 /\ item["main"] \in Nat
    BY <1>1, OuterTypes, DamageTypes DEF FrameOK
  <2>3. item["main"] \in 1..Len(PageIn("main").items)
    BY <1>1, <2>1, <2>2
  <2>4. PageIn("main").items[item["main"]] \in Item
    BY <2>1, <2>3
  <2> QED
    BY <2>4 DEF Item
<1>4. e <= BlockSize /\ e <= bytesToFormat
  BY DEF Fits, ItemIn
<1>5. bytesToFormat \in Nat /\ own["main"] \in Nat
  BY DamageTypes, SizesAssumption DEF IInv, TypeOK
<1>6. ~(e > BlockSize)
  BY <1>3, <1>4, SizesAssumption
<1>7. CASE bytesToFormat = own["main"]
  <2>1. ~(e > own["main"])
    BY <1>3, <1>4, <1>5, <1>7
  <2> QED
    BY <1>2, <1>6, <2>1 DEF BeyondHere, Beyond
<1>8. CASE bytesToFormat # own["main"]
  <2>1. /\ opts.toast
        /\ \E j \in 1..(item["main"] - 1) : PageIn("main").items[j].oid # 0
    BY <1>1, <1>8 DEF BytesKnown
  <2> QED
    BY <1>2, <1>6, <2>1 DEF BeyondHere, Beyond
<1> QED
  BY <1>7, <1>8

(* Nothing is taken from the log.                                          *)
LEMMA LogGrows == ASSUME [Next]_vars PROVE errors \subseteq errors'
<1>1. ASSUME NEW l, NEW kinds, Complain(l, kinds) PROVE errors \subseteq errors'
  BY <1>1 DEF Complain
<1>2. CASE Start
  BY <1>1, <1>2 DEF Start
<1>3. CASE StartFails
  BY <1>1, <1>3 DEF StartFails
<1>4. CASE Detour
  BY <1>1, <1>4 DEF Detour
<1>5. ASSUME NEW l \in Levels,
             FormatHeader(l) \/ ItemBeyondBlock(l) \/ FormatSpecial(l)
      PROVE  errors \subseteq errors'
  BY <1>1, <1>5 DEF FormatHeader, ItemBeyondBlock, FormatSpecial
<1>6. ASSUME NEW l \in Levels,
             ReadBlock(l) \/ ReadNothing(l) \/ ItemsDone(l) \/ NextBlock(l)
      PROVE  errors \subseteq errors'
  BY <1>6 DEF ReadBlock, ReadNothing, ItemsDone, NextBlock
<1>7. CASE MainItem \/ ToastItem \/ DetourUnopened \/ Return \/ Exit
  BY <1>7 DEF MainItem, ToastItem, DetourUnopened, Return, Exit
<1>8. CASE Ended \/ UNCHANGED vars
  BY <1>8 DEF Ended, vars
<1> QED
  BY <1>2, <1>3, <1>4, <1>5, <1>6, <1>7, <1>8 DEF Next

(* What was reported stays so while the block number stays.                *)
LEMMA StillReported ==
  ASSUME IInv, BlocksReported, img' = img, opts' = opts, errors \subseteq errors',
         currentBlock'["main"] = currentBlock["main"]
  PROVE  BlocksReported'
  BY DEF BlocksReported, Damaged, Logged, FirstAsked, ItemsShown, BytesHeld,
     Beyond

(* A step of the inner level, or one that leaves the outer level where it  *)
(* is, keeps what was reported.                                            *)
LEMMA OuterRests ==
  ASSUME IInv, DInv, errors \subseteq errors',
         img' = img, opts' = opts, pc'["main"] = pc["main"],
         fpos'["main"] = fpos["main"], own'["main"] = own["main"],
         currentBlock'["main"] = currentBlock["main"],
         item'["main"] = item["main"],
         \/ active' = active /\ bytesToFormat' = bytesToFormat
         \/ active' = "toast" /\ active = "toast"
         \/ active' \notin Levels
  PROVE  DInv'
<1> SUFFICES ASSUME opts.mode = "interpret"
             PROVE  /\ BlocksReported' /\ BlockReported' /\ ItemsReported'
                    /\ BytesKnown' /\ FetchesFit'
  BY DEF DInv
<1>1. BlocksReported /\ BlockReported /\ ItemsReported /\ BytesKnown /\ FetchesFit
  BY DEF DInv
<1>2. PageIn("main")' = PageIn("main")
  BY DEF PageIn
<1>3. BlocksReported'
  BY <1>1, StillReported
<1>4. BlockReported'
  BY <1>1 DEF BlockReported, Damaged, Logged, AtPage, ItemsShown, BytesHeld, Beyond
<1>5. ItemsReported'
  BY <1>1, <1>2 DEF ItemsReported, Logged, BeyondHere, AtPage, BytesHeld, Beyond
<1>6. BytesKnown'
  BY <1>1, <1>2 DEF BytesKnown, Levels
<1>7. FetchesFit'
  BY <1>1, <1>2 DEF FetchesFit, Wanted, ItemIn, BeyondHere, AtPage, BytesHeld,
     Beyond, Levels
<1> QED
  BY <1>3, <1>4, <1>5, <1>6, <1>7

(* Items that fit, and items that are reported, are passed by.             *)
LEMMA OuterItemPassed ==
  ASSUME IInv, DInv, opts.mode = "interpret", errors \subseteq errors',
         img' = img, opts' = opts, pc["main"] = "items",
         pc'["main"] = "items", active' = "main",
         fpos'["main"] = fpos["main"], own'["main"] = own["main"],
         currentBlock'["main"] = currentBlock["main"],
         item'["main"] = item["main"] + 1,
         BeyondHere(item["main"]) => Logged',
         \/ active = "main" /\ bytesToFormat' = bytesToFormat
         \/ opts.toast /\ ItemIn("main").oid # 0
  PROVE  DInv'
<1>1. BlocksReported /\ ItemsReported /\ BytesKnown
  BY DEF DInv
<1>2. PageIn("main")' = PageIn("main")
  BY DEF PageIn
<1>3. item["main"] \in Nat /\ item["main"] >= 1
  BY DamageTypes, OuterTypes DEF FrameOK
<1>4. BlocksReported'
  BY <1>1, StillReported
<1>5. BlockReported'
  BY DEF BlockReported
<1>6. ItemsReported'
  <2> SUFFICES ASSUME NEW i \in 1..Len(PageIn("main").items),
                      i < item["main"] + 1, BeyondHere(i)'
               PROVE  Logged'
    BY <1>2 DEF ItemsReported
  <2>1. BeyondHere(i)
    BY DEF BeyondHere, AtPage, BytesHeld, Beyond
  <2>2. i < item["main"] \/ i = item["main"]
    BY <1>3
  <2>3. i < item["main"] => Logged
    BY <1>1, <2>1 DEF ItemsReported
  <2> QED
    BY <2>1, <2>2, <2>3 DEF Logged
<1>7. BytesKnown'
  <2>1. CASE active = "main" /\ bytesToFormat' = bytesToFormat
    <3>1. CASE bytesToFormat = own["main"]
      BY <2>1, <3>1 DEF BytesKnown
    <3>2. CASE bytesToFormat # own["main"]
      <4>1. /\ opts.toast
            /\ \E j \in 1..(item["main"] - 1) : PageIn("main").items[j].oid # 0
        BY <1>1, <2>1, <3>2 DEF BytesKnown
      <4>2. PICK j \in 1..(item["main"] - 1) : PageIn("main").items[j].oid # 0
        BY <4>1
      <4>3. j \in 1..(item'["main"] - 1)
        BY <1>3, <4>2
      <4> QED
        BY <1>2, <4>1, <4>2, <4>3 DEF BytesKnown
    <3> QED
      BY <3>1, <3>2
  <2>2. CASE opts.toast /\ ItemIn("main").oid # 0
    <3>1. item["main"] \in 1..(item'["main"] - 1)
      BY <1>3
    <3>2. PageIn("main").items[item["main"]].oid # 0
      BY <2>2 DEF ItemIn
    <3> QED
      BY <1>2, <2>2, <3>1, <3>2 DEF BytesKnown
  <2> QED
    BY <2>1, <2>2
<1>8. FetchesFit'
  BY DEF FetchesFit
<1> QED
  BY <1>4, <1>5, <1>6, <1>7, <1>8 DEF DInv

(* The header: items are gone through next, or they are not to be shown.   *)
LEMMA HeaderDamage == ASSUME IInv, DInv, FormatHeader("main"), errors \subseteq errors'
                      PROVE  DInv'
<1> SUFFICES ASSUME opts.mode = "interpret"
             PROVE  /\ BlocksReported' /\ BlockReported' /\ ItemsReported'
                    /\ BytesKnown' /\ FetchesFit'
  BY DEF DInv, FormatHeader
<1>0. BlocksReported /\ BytesKnown
  BY DEF DInv
<1>1. /\ active = "main" /\ pc["main"] = "header" /\ active' = "main"
      /\ img' = img /\ opts' = opts /\ fpos' = fpos /\ own' = own
      /\ currentBlock' = currentBlock /\ item'["main"] = 1
      /\ bytesToFormat' = bytesToFormat
      /\ pc'["main"] = (IF bytesToFormat < HeaderSize \/ ~PointersRead(PageIn("main"))
                          THEN "next"
                        ELSE IF PageIn("main").meta /\ bytesToFormat = BlockSize
                          THEN "special" ELSE "items")
  BY DamageTypes DEF FormatHeader, Goto
<1>2. bytesToFormat = own["main"]
  BY <1>0, <1>1 DEF BytesKnown
<1>3. HoldsBlock("main")
  BY <1>1, OuterTypes DEF FrameOK, InBlock
<1>4. /\ PageIn("main") = img["main"].pages[AtPage]
      /\ BytesHeld(img["main"], AtPage) = own["main"]
      /\ Len(PageIn("main").items) \in Nat
  BY <1>3, PageAtHand
<1>5. BlocksReported'
  BY <1>0, <1>1, StillReported
<1>6. pc'["main"] # "items" => ~ItemsShown(img["main"], AtPage)
  <2> SUFFICES ASSUME ItemsShown(img["main"], AtPage) PROVE pc'["main"] = "items"
    OBVIOUS
  <2>1. bytesToFormat >= HeaderSize + Len(PageIn("main").items)
    BY <1>2, <1>4 DEF ItemsShown
  <2>2. ~(PageIn("main").meta /\ bytesToFormat = BlockSize)
    BY <1>2, <1>4 DEF ItemsShown
  <2>3. bytesToFormat \in Nat
    BY <1>2, DamageTypes
  <2>4. ~(bytesToFormat < HeaderSize)
    BY <1>4, <2>1, <2>3, SizesAssumption
  <2>5. PointersRead(PageIn("main"))
    BY <2>1 DEF PointersRead
  <2> QED
    BY <1>1, <2>2, <2>4, <2>5
<1>7. BlockReported'
  <2>1. ItemsShown(img["main"], AtPage)' <=> ItemsShown(img["main"], AtPage)
    BY <1>1 DEF ItemsShown, BytesHeld, AtPage
  <2>2. pc'["main"] # "finished"
    BY <1>1
  <2> QED
    BY <1>6, <2>1, <2>2 DEF BlockReported, Damaged
<1>8. ItemsReported'
  <2> SUFFICES ASSUME NEW i \in 1..Len(PageIn("main")'.items), i < 1
               PROVE  FALSE
    BY <1>1 DEF ItemsReported
  <2>1. PageIn("main")' = PageIn("main")
    BY <1>1 DEF PageIn
  <2> QED
    BY <1>4, <2>1
<1>9. BytesKnown'
  BY <1>1, <1>2 DEF BytesKnown
<1>10. FetchesFit'
  BY <1>1 DEF FetchesFit
<1> QED
  BY <1>5, <1>7, <1>8, <1>9, <1>10

(* The rest of the outer loop's steps.                                     *)
LEMMA LoopDamage ==
  ASSUME IInv, DInv, errors \subseteq errors',
         \/ Start \/ StartFails \/ ReadBlock("main") \/ ReadNothing("main")
         \/ ItemsDone("main") \/ FormatSpecial("main") \/ NextBlock("main")
  PROVE  DInv'
<1>0. opts' = opts /\ img' = img
  BY DEF Start, StartFails, ReadBlock, ReadNothing, ItemsDone, FormatSpecial, NextBlock
<1> SUFFICES ASSUME opts.mode = "interpret"
             PROVE  /\ BlocksReported' /\ BlockReported' /\ ItemsReported'
                    /\ BytesKnown' /\ FetchesFit'
  BY <1>0 DEF DInv
<1>1. BlocksReported /\ BlockReported /\ ItemsReported /\ BytesKnown
  BY DEF DInv
<1>2. FirstAsked' = FirstAsked /\ Len(img["main"].pages) \in Nat
      /\ currentBlock["main"] \in Nat /\ FirstAsked \in Nat
  BY <1>0, SameRange, DamageTypes
<1>3. Damaged(AtPage)' <=> ItemsShown(img["main"], AtPage') /\
        \E i \in 1..Len(img["main"].pages[AtPage'].items) :
          Beyond(img["main"], AtPage', i)
  BY <1>0 DEF Damaged, ItemsShown, BytesHeld, Beyond
<1>4. CASE Start
  <2>1. /\ pc'["main"] = "read" /\ active' = "main"
        /\ currentBlock'["main"] = FirstAsked
    BY <1>4, DamageTypes DEF Start, Goto, FirstAsked
  <2>2. BlocksReported'
    BY <1>0, <1>2, <2>1 DEF BlocksReported
  <2> QED
    BY <2>1, <2>2 DEF BlockReported, ItemsReported, BytesKnown, FetchesFit
<1>5. CASE StartFails
  <2>1. /\ pc'["main"] = "failed" /\ active' = "exit"
        /\ currentBlock' = currentBlock
    BY <1>5, DamageTypes DEF StartFails, Goto
  <2>2. BlocksReported'
    BY <1>0, <1>1, <2>1, StillReported
  <2> QED
    BY <2>1, <2>2 DEF BlockReported, ItemsReported, BytesKnown, FetchesFit
<1>6. CASE ReadBlock("main")
  <2>1. /\ pc'["main"] = "header" /\ active' = "main"
        /\ currentBlock' = currentBlock /\ bytesToFormat' = own'["main"]
    BY <1>6, DamageTypes DEF ReadBlock, BytesRead, Goto, Mode
  <2>2. BlocksReported'
    BY <1>0, <1>1, <2>1, StillReported
  <2> QED
    BY <2>1, <2>2 DEF BlockReported, ItemsReported, BytesKnown, FetchesFit
<1>7. CASE ReadNothing("main")
  <2>1. /\ pc'["main"] = "finished" /\ active' = "main" /\ own'["main"] = 0
        /\ currentBlock' = currentBlock
    BY <1>7, DamageTypes DEF ReadNothing, Goto
  <2>2. BlocksReported'
    BY <1>0, <1>1, <2>1, StillReported
  <2> QED
    BY <2>1, <2>2 DEF BlockReported, ItemsReported, BytesKnown, FetchesFit
<1>8. CASE ItemsDone("main")
  <2>1. /\ pc["main"] = "items" /\ pc'["main"] = "special" /\ active' = "main"
        /\ currentBlock' = currentBlock
        /\ item["main"] > Len(PageIn("main").items)
    BY <1>8, DamageTypes DEF ItemsDone, Goto
  <2>2. BlocksReported'
    BY <1>0, <1>1, <2>1, StillReported
  <2>3. HoldsBlock("main")
    BY <2>1, OuterTypes DEF FrameOK, InBlock
  <2>4. PageIn("main") = img["main"].pages[AtPage]
        /\ Len(PageIn("main").items) \in Nat
    BY <2>3, PageAtHand
  <2>5. Damaged(AtPage) => Logged
    <3> SUFFICES ASSUME NEW i \in 1..Len(PageIn("main").items), BeyondHere(i)
                 PROVE  Logged
      BY <2>4 DEF Damaged, BeyondHere
    <3>1. i < item["main"]
      BY <2>1, <2>4, DamageTypes
    <3> QED
      BY <1>1, <2>1, <3>1 DEF ItemsReported
  <2>6. AtPage' = AtPage
    BY <2>1 DEF AtPage
  <2>7. BlockReported'
    BY <1>3, <2>5, <2>6 DEF BlockReported, Damaged, Logged
  <2> QED
    BY <2>1, <2>2, <2>7 DEF ItemsReported, BytesKnown, FetchesFit
<1>9. CASE FormatSpecial("main")
  <2>1. /\ pc["main"] = "special" /\ pc'["main"] = "next" /\ active' = "main"
        /\ currentBlock' = currentBlock
    BY <1>9, DamageTypes DEF FormatSpecial, Goto
  <2>2. BlocksReported'
    BY <1>0, <1>1, <2>1, StillReported
  <2>3. AtPage' = AtPage
    BY <2>1 DEF AtPage
  <2>4. BlockReported'
    BY <1>1, <1>3, <2>1, <2>3 DEF BlockReported, Damaged, Logged
  <2> QED
    BY <2>1, <2>2, <2>4 DEF ItemsReported, BytesKnown, FetchesFit
<1>10. CASE NextBlock("main")
  <2>1. /\ pc["main"] = "next" /\ active' = "main" /\ own' = own
        /\ \/ /\ currentBlock'["main"] = currentBlock["main"]
              /\ pc'["main"] = "finished"
           \/ /\ currentBlock'["main"] = currentBlock["main"] + 1
              /\ pc'["main"] = "read"
    BY <1>10, DamageTypes DEF NextBlock, Goto
  <2>2. Damaged(AtPage) => Logged
    BY <1>1, <2>1 DEF BlockReported
  <2>3. CASE /\ currentBlock'["main"] = currentBlock["main"]
             /\ pc'["main"] = "finished"
    <3>1. BlocksReported'
      BY <1>0, <1>1, <2>3, StillReported
    <3>2. AtPage' = AtPage
      BY <2>3 DEF AtPage
    <3>3. BlockReported'
      BY <1>3, <2>2, <3>2 DEF BlockReported, Damaged, Logged
    <3> QED
      BY <2>1, <2>3, <3>1, <3>3 DEF ItemsReported, BytesKnown, FetchesFit
  <2>4. CASE /\ currentBlock'["main"] = currentBlock["main"] + 1
             /\ pc'["main"] = "read"
    <3>1. BlocksReported'
      <4> SUFFICES ASSUME NEW p \in 1..Len(img["main"].pages),
                          p - 1 >= FirstAsked, p <= currentBlock["main"] + 1,
                          Damaged(p)'
                   PROVE  Logged'
        BY <1>0, <1>2, <2>4 DEF BlocksReported
      <4>1. Damaged(p)
        BY <1>0 DEF Damaged, ItemsShown, BytesHeld, Beyond
      <4>2. p <= currentBlock["main"] \/ p = AtPage
        BY <1>2 DEF AtPage
      <4>3. Logged
        BY <1>1, <2>2, <4>1, <4>2 DEF BlocksReported
      <4> QED
        BY <4>3 DEF Logged
    <3> QED
      BY <2>1, <2>4, <3>1 DEF BlockReported, ItemsReported, BytesKnown, FetchesFit
  <2> QED
    BY <2>1, <2>3, <2>4
<1> QED
  BY <1>4, <1>5, <1>6, <1>7, <1>8, <1>9, <1>10

(* What becomes of an item of the outer level.                             *)
LEMMA ItemDamage ==
  ASSUME IInv, DInv, opts.mode = "interpret", errors \subseteq errors',
         ItemBeyondBlock("main") \/ MainItem \/ Detour \/ DetourUnopened
  PROVE  DInv'
<1>0. BytesKnown
  BY DEF DInv
<1>1. active = "main" /\ pc["main"] = "items" /\ AtItem("main")
  BY DEF ItemBeyondBlock, MainItem, Detour, DetourUnopened, AtItem
<1>2. CASE ItemBeyondBlock("main")
  <2>1. Logged'
    BY <1>2 DEF ItemBeyondBlock, Complain, Logged
  <2>2. /\ img' = img /\ opts' = opts /\ pc' = pc /\ active' = "main"
        /\ fpos' = fpos /\ own' = own /\ currentBlock' = currentBlock
        /\ item'["main"] = item["main"] + 1 /\ bytesToFormat' = bytesToFormat
    BY <1>1, <1>2, DamageTypes DEF ItemBeyondBlock, NextItem
  <2> QED
    BY <1>1, <2>1, <2>2, OuterItemPassed
<1>3. CASE MainItem
  <2>1. /\ img' = img /\ opts' = opts /\ pc' = pc /\ active' = "main"
        /\ fpos' = fpos /\ own' = own /\ currentBlock' = currentBlock
        /\ item'["main"] = item["main"] + 1 /\ bytesToFormat' = bytesToFormat
        /\ Fits("main")
    BY <1>1, <1>3, DamageTypes DEF MainItem, NextItem, globals
  <2>2. ~BeyondHere(item["main"])
    BY <1>0, <1>1, <2>1, FitIsNotBeyond
  <2> QED
    BY <1>1, <2>1, <2>2, OuterItemPassed
<1>4. CASE Detour
  <2>1. /\ img' = img /\ opts' = opts /\ pc'["main"] = pc["main"]
        /\ active' = "toast" /\ fpos'["main"] = fpos["main"]
        /\ own'["main"] = own["main"]
        /\ currentBlock'["main"] = currentBlock["main"]
        /\ item'["main"] = item["main"] /\ Fits("main") /\ External
    BY <1>4, DamageTypes DEF Detour, Goto
  <2>2. ~BeyondHere(item["main"])
    BY <1>0, <1>1, <2>1, FitIsNotBeyond
  <2>3. BlocksReported /\ ItemsReported
    BY DEF DInv
  <2>4. PageIn("main")' = PageIn("main")
    BY <2>1 DEF PageIn
  <2>5. BlocksReported'
    BY <2>1, <2>3, StillReported
  <2>6. ItemsReported'
    BY <1>1, <2>1, <2>3, <2>4 DEF ItemsReported, Logged, BeyondHere, AtPage,
       BytesHeld, Beyond
  <2>7. FetchesFit'
    BY <2>1, <2>2, <2>4 DEF FetchesFit, External, Wanted, ItemIn, BeyondHere,
       AtPage, BytesHeld, Beyond
  <2>8. BlockReported' /\ BytesKnown'
    BY <1>1, <2>1 DEF BlockReported, BytesKnown
  <2> QED
    BY <2>5, <2>6, <2>7, <2>8 DEF DInv
<1>5. CASE DetourUnopened
  <2>1. /\ img' = img /\ opts' = opts /\ pc' = pc /\ fpos' = fpos /\ own' = own
        /\ currentBlock' = currentBlock /\ bytesToFormat' = bytesToFormat
        /\ Fits("main")
        /\ \/ item'["main"] = item["main"] + 1 /\ active' = "main"
           \/ item' = item /\ active' = "crash"
    BY <1>1, <1>5, DamageTypes DEF DetourUnopened, NextItem, globals
  <2>2. ~BeyondHere(item["main"])
    BY <1>0, <1>1, <2>1, FitIsNotBeyond
  <2>3. CASE item'["main"] = item["main"] + 1 /\ active' = "main"
    BY <1>1, <2>1, <2>2, <2>3, OuterItemPassed
  <2>4. CASE item' = item /\ active' = "crash"
    BY <2>1, <2>4, OuterRests DEF Levels
  <2> QED
    BY <2>1, <2>3, <2>4
<1> QED
  BY <1>2, <1>3, <1>4, <1>5

(* Every step keeps what was reported.                                     *)
LEMMA NextDamage == ASSUME IInv, DInv, [Next]_vars PROVE DInv'
<1>0. errors \subseteq errors'
  BY LogGrows
<1>1. CASE Start \/ StartFails
  BY <1>0, <1>1, LoopDamage
<1>2. ASSUME NEW l \in Levels,
             \/ ReadBlock(l) \/ ReadNothing(l) \/ FormatHeader(l)
             \/ ItemsDone(l) \/ ItemBeyondBlock(l) \/ FormatSpecial(l)
             \/ NextBlock(l)
      PROVE  DInv'
  <2>1. CASE l = "main"
    <3>1. CASE FormatHeader(l)
      BY <1>0, <2>1, <3>1, HeaderDamage
    <3>2. CASE ItemBeyondBlock(l)
      <4>1. opts' = opts
        BY <3>2 DEF ItemBeyondBlock
      <4> QED
        BY <1>0, <2>1, <3>2, <4>1, ItemDamage DEF DInv
    <3>3. CASE \/ ReadBlock(l) \/ ReadNothing(l) \/ ItemsDone(l)
               \/ FormatSpecial(l) \/ NextBlock(l)
      BY <1>0, <2>1, <3>3, LoopDamage
    <3> QED
      BY <1>2, <3>1, <3>2, <3>3
  <2>2. CASE l = "toast"
    <3>1. /\ active = "toast" /\ active' = "toast" /\ img' = img /\ opts' = opts
          /\ pc'["main"] = pc["main"] /\ fpos'["main"] = fpos["main"]
          /\ own'["main"] = own["main"] /\ item'["main"] = item["main"]
          /\ currentBlock'["main"] = currentBlock["main"]
      BY <1>2, <2>2, DamageTypes DEF ReadBlock, ReadNothing, FormatHeader,
         ItemsDone, ItemBeyondBlock, AtItem, NextItem, FormatSpecial, NextBlock,
         Goto
    <3> QED
      BY <1>0, <3>1, OuterRests
  <2> QED
    BY <2>1, <2>2 DEF Levels
<1>3. CASE MainItem \/ Detour \/ DetourUnopened
  <2>1. opts' = opts
    BY <1>3 DEF MainItem, Detour, DetourUnopened
  <2> QED
    BY <1>0, <1>3, <2>1, ItemDamage DEF DInv
<1>4. CASE ToastItem
  <2>1. /\ active = "toast" /\ active' = "toast" /\ img' = img /\ opts' = opts
        /\ pc'["main"] = pc["main"] /\ fpos' = fpos /\ own' = own
        /\ item'["main"] = item["main"] /\ currentBlock' = currentBlock
    BY <1>4, DamageTypes DEF ToastItem, AtItem, NextItem, Goto
  <2> QED
    BY <1>0, <2>1, OuterRests
<1>5. CASE Return
  <2>1. /\ active = "toast" /\ active' = "main" /\ img' = img /\ opts' = opts
        /\ pc'["main"] = pc["main"] /\ fpos' = fpos /\ own' = own
        /\ item'["main"] = item["main"] + 1 /\ currentBlock' = currentBlock
    BY <1>5, DamageTypes DEF Return, NextItem, Goto
  <2>2. pc["main"] = "items"
    BY <2>1 DEF IInv, Nesting
  <2> SUFFICES ASSUME opts.mode = "interpret" PROVE DInv'
    BY <2>1 DEF DInv
  <2>3. opts.toast /\ ItemIn("main").oid # 0 /\ ~BeyondHere(item["main"])
    BY <2>1 DEF DInv, FetchesFit, Wanted
  <2> QED
    BY <1>0, <2>1, <2>2, <2>3, OuterItemPassed
<1>6. CASE Exit
  <2>1. /\ active' = "exit" /\ img' = img /\ opts' = opts /\ pc' = pc
        /\ fpos' = fpos /\ own' = own /\ item' = item
        /\ currentBlock' = currentBlock
    BY <1>6 DEF Exit, locals
  <2> QED
    BY <1>0, <2>1, OuterRests DEF Levels
<1>7. CASE Ended \/ UNCHANGED vars
  <2>1. UNCHANGED <<img, opts, active, pc, fpos, own, item, currentBlock,
                    bytesToFormat>>
    BY <1>7 DEF Ended, vars, locals, globals
  <2> QED
    BY <1>0, <2>1, OuterRests
<1> QED
  BY <1>1, <1>2, <1>3, <1>4, <1>5, <1>6, <1>7 DEF Next

(* A dump that comes to its end has reported every block asked for that    *)
(* has an item beyond it, whatever was fetched from the TOAST file on the  *)
(* way: the outer loop goes on with its own block and judges it by its own *)
(* bytes, except for the items named in Beyond.                            *)
THEOREM DamageIsReported == ASSUME SeekFits PROVE Spec => []DamageReported
<1>1. Init => DInv
  <2> SUFFICES ASSUME Init PROVE DInv
    OBVIOUS
  <2>1. Len(img["main"].pages) \in Nat
    BY InitIInv, DamageTypes
  <2>2. /\ currentBlock["main"] = 0 /\ pc["main"] = "open" /\ active = "main"
    BY DEF Init, Levels
  <2>3. BlocksReported
    BY <2>1, <2>2 DEF BlocksReported
  <2> QED
    BY <2>2, <2>3 DEF DInv, BlockReported, ItemsReported, BytesKnown, FetchesFit
<1>2. IInv /\ DInv /\ [Next]_vars => DInv'
  BY NextDamage
<1>3. IInv /\ RInv /\ DInv => DamageReported
  <2> SUFFICES ASSUME IInv, RInv, DInv, Outcome = "complete",
                      opts.mode = "interpret",
                      NEW p \in 1..Len(img["main"].pages),
                      p - 1 \in FirstAsked..LastAsked, Damaged(p)
               PROVE  Logged
    BY DEF DamageReported, Damaged, Logged
  <2>1. pc["main"] = "finished"
    BY DEF Outcome
  <2>2. BlocksReported /\ BlockReported
    BY DEF DInv
  <2>3. /\ currentBlock["main"] \in Nat /\ FirstAsked \in Nat
        /\ Len(img["main"].pages) \in Nat /\ own["main"] \in Nat
    BY DamageTypes
  <2>4. LastAsked \in Nat
    BY <2>3, OuterTypes DEF LastAsked
  <2>5. p <= currentBlock["main"] => Logged
    BY <2>2, <2>3, <2>4 DEF BlocksReported
  <2>6. CASE own["main"] > 0
    <3>1. currentBlock["main"] + 1 > LastAsked
      BY <2>1, <2>6 DEF RInv, EndExplained
    <3>2. p <= currentBlock["main"] \/ p = AtPage
      BY <2>3, <2>4, <3>1 DEF AtPage
    <3>3. p = AtPage => Logged
      BY <2>1, <2>2, <2>6 DEF BlockReported
    <3> QED
      BY <2>5, <3>2, <3>3
  <2>7. CASE ~(own["main"] > 0)
    <3> DEFINE c == currentBlock["main"]
               size == img["main"].size
    <3>1. c * BlockSize >= size /\ c \in Nat /\ size \in Nat
      BY <2>1, <2>3, <2>7, OuterNumbers DEF RInv, EndExplained
    <3>2. ASSUME p > c PROVE FALSE
      <4>1. BytesHeld(img["main"], p) >= HeaderSize + Len(img["main"].pages[p].items)
        BY DEF Damaged, ItemsShown
      <4>2. BlockSize * (p - 1) >= c * BlockSize
        <5> HIDE DEF c
        <5>1. p - 1 >= c /\ p - 1 \in Nat
          BY <2>3, <3>1, <3>2
        <5>2. (p - 1) * BlockSize >= c * BlockSize
          BY <3>1, <5>1, SizesAssumption
        <5> QED
          BY <5>1, <5>2, SizesAssumption
      <4>3. Len(img["main"].pages[p].items) \in Nat
        <5>1. img["main"].pages \in Seq(Page)
          BY OuterNumbers
        <5>2. img["main"].pages[p] \in Page
          BY <5>1
        <5>3. img["main"].pages[p].items \in Seq(Item)
          BY <5>2 DEF Page
        <5> QED
          BY <5>3, LenOfItems
      <4> DEFINE at == BlockSize * (p - 1)
                 till == c * BlockSize
      <4>4. at \in Int /\ till \in Int
        BY <2>3, <3>1, SizesAssumption
      <4>5. BytesHeld(img["main"], p) = Lesser(BlockSize, size - at)
        BY DEF BytesHeld
      <4>6. at >= till /\ till >= size
        BY <3>1, <4>2
      <4> HIDE DEF at, till, c, size
      <4>7. Lesser(BlockSize, size - at) <= 0
        BY <3>1, <4>4, <4>6, SizesAssumption DEF Lesser
      <4>8. Lesser(BlockSize, size - at) \in Int
        BY <3>1, <4>4, SizesAssumption DEF Lesser
      <4> QED
        BY <4>1, <4>3, <4>5, <4>7, <4>8, SizesAssumption
    <3>3. p <= c
      <4> HIDE DEF c
      <4> QED
        BY <2>3, <3>1, <3>2
    <3> QED
      BY <2>5, <3>3
  <2> QED
    BY <2>6, <2>7
<1>4. IInv /\ RInv /\ [Next]_vars => RInv'
  BY NextWithin
<1> QED
  BY <1>1, <1>2, <1>3, <1>4, InitRInv, Invariance, PTL DEF Spec
(***************************************************************************)
(* The dump ends: a number falls with every step, those of a detour        *)
(* included.                                                               *)
(***************************************************************************)

(* What a level has not read yet; the range is not known to be in the file *)
(* before the dump is open.                                                *)
LeftInFile(l) ==
  IF pc[l] = "open" THEN img[l].size
  ELSE IF fpos[l] < img[l].size THEN img[l].size - fpos[l] ELSE 0

ItemsLeft(l) ==
  LET items == Len(PageIn(l).items)
  IN IF item[l] <= items THEN items + 1 - item[l] ELSE 0

(* The steps a level takes in its block; no page has more items than bytes. *)
StepsInBlock(l) ==
  IF pc[l] = "header" THEN BlockSize + 6
  ELSE IF pc[l] = "items" THEN 5 + ItemsLeft(l)
  ELSE IF pc[l] = "special" THEN 4
  ELSE IF pc[l] \in {"next", "open"} THEN 3
  ELSE IF pc[l] = "read" THEN 2
  ELSE IF pc[l] = "finished" THEN 1 ELSE 0

Round == BlockSize + 8
LevelSteps(l) == Round * LeftInFile(l) + StepsInBlock(l)

(* The steps of a whole detour, and those of the one under way.            *)
WholeDetour == IF img["toast"] = NoFile THEN 1 ELSE Round * (img["toast"].size + 1)
InDetour ==
  IF active = "main" THEN WholeDetour
  ELSE IF active = "toast" THEN LevelSteps("toast") ELSE 0

(* Each step of the outer level may hold a detour.                         *)
StepsLeft == WholeDetour * LevelSteps("main") + InDetour

\* One round less is worth less than a whole round.
LEMMA RoundsFall ==
  ASSUME NEW d \in Nat, NEW a \in Nat, NEW b \in Nat, NEW r \in Nat, NEW s \in Nat,
         (b < a /\ s < r + d) \/ (b = a /\ s < r)
  PROVE  d * b + s < d * a + r /\ d * b + s \in Nat
<1>0. d * b \in Nat /\ d * a \in Nat
  OBVIOUS
<1>1. CASE b = a
  BY <1>0, <1>1
<1>2. CASE b < a
  <2>1. d * (b + 1) = d * b + d
    OBVIOUS
  <2>2. d * (b + 1) <= d * a
    BY <1>2
  <2> DEFINE x == d * b
             y == d * a
  <2>3. x \in Nat /\ y \in Nat /\ x + d <= y
    BY <1>0, <2>1, <2>2
  <2> HIDE DEF x, y
  <2>4. x + s < y + r
    BY <1>2, <2>3
  <2> QED
    BY <2>3, <2>4 DEF x, y
<1> QED
  BY <1>1, <1>2

\* The measure of a level that reads a file.
LEMMA LevelMeasure ==
  ASSUME IInv, NEW l \in Levels, IsFile(img[l])
  PROVE  /\ LeftInFile(l) \in Nat /\ StepsInBlock(l) \in Nat /\ Round \in Nat
         /\ LevelSteps(l) \in Nat /\ img[l].size \in Nat /\ fpos[l] \in Nat
         /\ item[l] \in Nat /\ BlockSize \in Nat /\ DOMAIN pc = Levels
         /\ DOMAIN fpos = Levels /\ DOMAIN item = Levels /\ DOMAIN own = Levels
         /\ pc[l] = "items" => Len(PageIn(l).items) \in Nat
<1>1. /\ img[l].size \in Nat /\ fpos[l] \in Nat /\ item[l] \in Nat
      /\ BlockSize \in Nat /\ DOMAIN pc = Levels
      /\ DOMAIN fpos = Levels /\ DOMAIN item = Levels /\ DOMAIN own = Levels
  BY SizesAssumption DEF IsFile, File, IInv, TypeOK
<1>2. ASSUME pc[l] = "items" PROVE Len(PageIn(l).items) \in Nat
  <2>1. HoldsBlock(l)
    BY <1>2 DEF IInv, Levels, FrameOK, InBlock
  <2>2. PageIn(l).items \in Seq(Item)
    BY <2>1, HeldPage
  <2> QED
    BY <2>2
<1>3. LeftInFile(l) \in Nat
  BY <1>1 DEF LeftInFile
<1>4. StepsInBlock(l) \in Nat
  BY <1>1, <1>2 DEF StepsInBlock, ItemsLeft
<1>5. Round \in Nat /\ Round * LeftInFile(l) \in Nat
  BY <1>1, <1>3 DEF Round
<1> QED
  BY <1>1, <1>2, <1>3, <1>4, <1>5 DEF LevelSteps

\* A step inside a block, or one that opens or ends the dump.
LEMMA BlockStep ==
  ASSUME IInv, NEW l \in Levels, IsFile(img[l]), img' = img, pc'[l] # "open",
         fpos'[l] \in Nat, pc[l] = "open" \/ fpos'[l] = fpos[l],
         StepsInBlock(l)' \in Nat, StepsInBlock(l)' < StepsInBlock(l)
  PROVE  LevelSteps(l)' < LevelSteps(l) /\ LevelSteps(l)' \in Nat
<1>1. /\ LeftInFile(l) \in Nat /\ StepsInBlock(l) \in Nat /\ Round \in Nat
      /\ img[l].size \in Nat /\ fpos[l] \in Nat /\ Round' = Round
  BY LevelMeasure DEF Round
<1>2. LeftInFile(l)' \in Nat /\ LeftInFile(l)' <= LeftInFile(l)
  BY <1>1 DEF LeftInFile
<1> DEFINE a == LeftInFile(l)
           b == LeftInFile(l)'
           r == StepsInBlock(l)
           s == StepsInBlock(l)'
<1>3. a \in Nat /\ b \in Nat /\ r \in Nat /\ s \in Nat /\ b <= a /\ s < r
  BY <1>1, <1>2
<1>4. LevelSteps(l) = Round * a + r /\ LevelSteps(l)' = Round * b + s
  BY <1>1 DEF LevelSteps
<1> HIDE DEF a, b, r, s
<1>5. (b < a /\ s < r + Round) \/ (b = a /\ s < r)
  BY <1>1, <1>3
<1> QED
  BY <1>1, <1>3, <1>4, <1>5, RoundsFall

\* A block is read: the rest of the file is shorter.
LEMMA ReadStep ==
  ASSUME IInv, NEW l \in Levels, ReadBlock(l)
  PROVE  LevelSteps(l)' < LevelSteps(l) /\ LevelSteps(l)' \in Nat
<1>1. active = l /\ pc[l] = "read" /\ img' = img
  BY DEF ReadBlock
<1>2. IsFile(img[l])
  BY <1>1, ActiveFile
<1>3. /\ LeftInFile(l) \in Nat /\ StepsInBlock(l) \in Nat /\ Round \in Nat
      /\ img[l].size \in Nat /\ fpos[l] \in Nat /\ Round' = Round /\ BlockSize \in Nat
      /\ DOMAIN pc = Levels /\ DOMAIN fpos = Levels
  BY <1>2, LevelMeasure DEF Round
<1>4. Available(l) \in Nat /\ Available(l) > 0
  BY <1>1, <1>3, ReadBounds DEF ReadBlock
<1>5. fpos'[l] = fpos[l] + Available(l)
  BY <1>3 DEF ReadBlock
<1>6. fpos[l] < img[l].size
  BY <1>4 DEF Available
<1>7. /\ pc'[l] \in {"header", "finished", "next"}
      /\ StepsInBlock(l)' \in Nat /\ StepsInBlock(l)' <= BlockSize + 6
  <2>1. pc'[l] \in {"header", "finished", "next"}
    BY <1>3 DEF ReadBlock, Goto
  <2> QED
    BY <1>3, <2>1 DEF StepsInBlock
<1>8. LeftInFile(l)' \in Nat /\ LeftInFile(l)' < LeftInFile(l)
  BY <1>1, <1>3, <1>4, <1>5, <1>6, <1>7 DEF LeftInFile
<1> DEFINE a == LeftInFile(l)
           b == LeftInFile(l)'
           r == StepsInBlock(l)
           s == StepsInBlock(l)'
<1>9. a \in Nat /\ b \in Nat /\ r \in Nat /\ s \in Nat /\ b < a /\ s <= BlockSize + 6
  BY <1>3, <1>7, <1>8
<1>10. LevelSteps(l) = Round * a + r /\ LevelSteps(l)' = Round * b + s
  BY <1>3 DEF LevelSteps
<1> HIDE DEF a, b, r, s
<1>11. b < a /\ s < r + Round
  BY <1>3, <1>9 DEF Round
<1> QED
  BY <1>3, <1>9, <1>10, <1>11, RoundsFall

\* An item is passed.
LEMMA ItemStep ==
  ASSUME IInv, NEW l \in Levels, IsFile(img[l]), pc[l] = "items",
         item[l] <= Len(PageIn(l).items), item'[l] = item[l] + 1,
         img' = img, pc'[l] = "items", fpos'[l] = fpos[l], own'[l] = own[l]
  PROVE  LevelSteps(l)' < LevelSteps(l) /\ LevelSteps(l)' \in Nat
<1>1. /\ fpos[l] \in Nat /\ item[l] \in Nat /\ Len(PageIn(l).items) \in Nat
      /\ DOMAIN item = Levels
  BY LevelMeasure
<1>2. PageIn(l)' = PageIn(l)
  BY DEF PageIn
<1>3. ItemsLeft(l)' \in Nat /\ ItemsLeft(l) \in Nat /\ ItemsLeft(l)' < ItemsLeft(l)
  BY <1>1, <1>2 DEF ItemsLeft
<1>4. StepsInBlock(l) = 5 + ItemsLeft(l) /\ StepsInBlock(l)' = 5 + ItemsLeft(l)'
  BY DEF StepsInBlock
<1>5. StepsInBlock(l)' \in Nat /\ StepsInBlock(l)' < StepsInBlock(l)
  BY <1>3, <1>4
<1> QED
  BY <1>1, <1>5, BlockStep

\* The header leads to the items, of which there are no more than bytes.
LEMMA HeaderStep ==
  ASSUME IInv, NEW l \in Levels, FormatHeader(l)
  PROVE  LevelSteps(l)' < LevelSteps(l) /\ LevelSteps(l)' \in Nat
<1>1. /\ active = l /\ pc[l] = "header" /\ img' = img /\ fpos' = fpos /\ own' = own
      /\ item' = [item EXCEPT ![l] = 1]
  BY DEF FormatHeader
<1>2. IsFile(img[l])
  BY <1>1, ActiveFile
<1>3. /\ fpos[l] \in Nat /\ BlockSize \in Nat /\ DOMAIN pc = Levels /\ DOMAIN item = Levels
  BY <1>2, LevelMeasure
<1>4. pc'[l] \in {"next", "special", "items"}
  BY <1>3 DEF FormatHeader, Goto
<1>5. ASSUME pc'[l] = "items" PROVE ItemsLeft(l)' \in Nat /\ ItemsLeft(l)' <= BlockSize
  <2>1. bytesToFormat >= HeaderSize + Len(PageIn(l).items)
    BY <1>3, <1>5 DEF FormatHeader, Goto, PointersRead
  <2>2. HoldsBlock(l)
    BY <1>1 DEF IInv, Levels, FrameOK, InBlock
  <2>3. Len(PageIn(l).items) \in Nat
    BY <1>2, <2>2, HeldPage
  <2>4. bytesToFormat \in Nat /\ bytesToFormat <= BlockSize /\ HeaderSize \in Nat
    BY SizesAssumption DEF IInv, TypeOK
  <2>5. item'[l] = 1 /\ PageIn(l)' = PageIn(l)
    BY <1>1, <1>3 DEF PageIn
  <2>6. Len(PageIn(l).items) <= BlockSize
    BY <1>3, <2>1, <2>3, <2>4
  <2> QED
    BY <1>3, <2>3, <2>5, <2>6 DEF ItemsLeft
<1>6. StepsInBlock(l) = BlockSize + 6
  BY <1>1 DEF StepsInBlock
<1>7. StepsInBlock(l)' \in Nat /\ StepsInBlock(l)' < BlockSize + 6
  BY <1>3, <1>4, <1>5 DEF StepsInBlock
<1> QED
  BY <1>1, <1>2, <1>3, <1>4, <1>6, <1>7, BlockStep

\* Every step of a level that both levels know.
LEMMA LevelFalls ==
  ASSUME IInv, NEW l \in Levels,
         \/ ReadBlock(l) \/ ReadNothing(l) \/ FormatHeader(l) \/ ItemsDone(l)
         \/ ItemBeyondBlock(l) \/ FormatSpecial(l) \/ NextBlock(l)
  PROVE  LevelSteps(l)' < LevelSteps(l) /\ LevelSteps(l)' \in Nat
<1>1. active = l
  BY DEF ReadBlock, ReadNothing, FormatHeader, ItemsDone, ItemBeyondBlock, AtItem,
         FormatSpecial, NextBlock
<1>2. IsFile(img[l])
  BY <1>1, ActiveFile
<1>3. fpos[l] \in Nat /\ DOMAIN pc = Levels
  BY <1>2, LevelMeasure
<1>4. CASE ReadBlock(l)
  BY <1>4, ReadStep
<1>5. CASE FormatHeader(l)
  BY <1>5, HeaderStep
<1>6. CASE ItemBeyondBlock(l)
  <2>1. /\ img' = img /\ pc' = pc /\ fpos' = fpos /\ own' = own /\ pc[l] = "items"
        /\ item[l] <= Len(PageIn(l).items) /\ item'[l] = item[l] + 1
    BY <1>2, <1>6, LevelMeasure DEF ItemBeyondBlock, AtItem, NextItem
  <2> QED
    BY <1>2, <2>1, ItemStep
<1>7. CASE ReadNothing(l)
  <2>1. img' = img /\ fpos' = fpos /\ pc[l] = "read" /\ pc'[l] = "finished"
    BY <1>3, <1>7 DEF ReadNothing, Goto
  <2>2. StepsInBlock(l) = 2 /\ StepsInBlock(l)' = 1
    BY <2>1 DEF StepsInBlock
  <2> QED
    BY <1>2, <1>3, <2>1, <2>2, BlockStep
<1>8. CASE ItemsDone(l)
  <2>1. img' = img /\ fpos' = fpos /\ pc[l] = "items" /\ pc'[l] = "special"
    BY <1>3, <1>8 DEF ItemsDone, Goto
  <2>2. ItemsLeft(l) \in Nat
    BY <1>2, <2>1, LevelMeasure DEF ItemsLeft
  <2>3. StepsInBlock(l) = 5 + ItemsLeft(l) /\ StepsInBlock(l)' = 4
    BY <2>1 DEF StepsInBlock
  <2>4. StepsInBlock(l)' \in Nat /\ StepsInBlock(l)' < StepsInBlock(l)
    BY <2>2, <2>3
  <2> QED
    BY <1>2, <1>3, <2>1, <2>4, BlockStep
<1>9. CASE FormatSpecial(l)
  <2>1. img' = img /\ fpos' = fpos /\ pc[l] = "special" /\ pc'[l] = "next"
    BY <1>3, <1>9 DEF FormatSpecial, Goto
  <2>2. StepsInBlock(l) = 4 /\ StepsInBlock(l)' = 3
    BY <2>1 DEF StepsInBlock
  <2> QED
    BY <1>2, <1>3, <2>1, <2>2, BlockStep
<1>10. CASE NextBlock(l)
  <2>1. img' = img /\ fpos' = fpos /\ pc[l] = "next" /\ pc'[l] \in {"read", "finished"}
    BY <1>3, <1>10 DEF NextBlock, Goto
  <2>2. StepsInBlock(l) = 3 /\ StepsInBlock(l)' \in {1, 2}
    BY <2>1 DEF StepsInBlock
  <2> QED
    BY <1>2, <1>3, <2>1, <2>2, BlockStep
<1> QED
  BY <1>4, <1>5, <1>6, <1>7, <1>8, <1>9, <1>10

\* A chunk is collected or passed by, or the value is complete.
LEMMA ChunkFalls ==
  ASSUME IInv, ToastItem
  PROVE  LevelSteps("toast")' < LevelSteps("toast") /\ LevelSteps("toast")' \in Nat
<1>1. /\ "toast" \in Levels /\ active = "toast" /\ pc["toast"] = "items"
      /\ item["toast"] <= Len(PageIn("toast").items)
      /\ img' = img /\ fpos' = fpos /\ own' = own
  BY DEF ToastItem, AtItem, Levels
<1>2. IsFile(img["toast"])
  BY <1>1, ActiveFile
<1>3. fpos["toast"] \in Nat /\ DOMAIN pc = Levels
  BY <1>1, <1>2, LevelMeasure
<1>4. CASE NextItem("toast") /\ pc' = pc
  <2>1. item'["toast"] = item["toast"] + 1
    BY <1>1, <1>2, <1>4, LevelMeasure DEF NextItem
  <2> QED
    BY <1>1, <1>2, <1>4, <2>1, ItemStep
<1>5. CASE Goto("toast", "special")
  <2>1. pc'["toast"] = "special"
    BY <1>1, <1>3, <1>5 DEF Goto
  <2>2. ItemsLeft("toast") \in Nat
    BY <1>1, <1>2, LevelMeasure DEF ItemsLeft
  <2>3. StepsInBlock("toast") = 5 + ItemsLeft("toast") /\ StepsInBlock("toast")' = 4
    BY <1>1, <2>1 DEF StepsInBlock
  <2>4. StepsInBlock("toast")' \in Nat /\ StepsInBlock("toast")' < StepsInBlock("toast")
    BY <2>2, <2>3
  <2> QED
    BY <1>1, <1>2, <1>3, <2>1, <2>4, BlockStep
<1> QED
  BY <1>4, <1>5 DEF ToastItem

\* A level that does not move keeps its measure.
LEMMA LevelWaits ==
  ASSUME NEW l \in Levels, img' = img, pc'[l] = pc[l], fpos'[l] = fpos[l],
         own'[l] = own[l], item'[l] = item[l]
  PROVE  LevelSteps(l)' = LevelSteps(l)
<1>1. PageIn(l)' = PageIn(l)
  BY DEF PageIn
<1>2. LeftInFile(l)' = LeftInFile(l) /\ StepsInBlock(l)' = StepsInBlock(l)
  BY <1>1 DEF LeftInFile, StepsInBlock, ItemsLeft
<1> QED
  BY <1>2 DEF LevelSteps, Round

\* What the whole measure is made of.
LEMMA WholeMeasure ==
  ASSUME IInv
  PROVE  /\ LevelSteps("main") \in Nat /\ WholeDetour \in Nat /\ WholeDetour > 0
         /\ InDetour \in Nat /\ StepsLeft \in Nat /\ IsFile(img["main"])
         /\ active = "toast" => IsFile(img["toast"])
         /\ "main" \in Levels /\ "toast" \in Levels
         /\ DOMAIN pc = Levels /\ DOMAIN fpos = Levels
         /\ DOMAIN own = Levels /\ DOMAIN item = Levels
<1>1. /\ IsFile(img["main"]) /\ (img["toast"] = NoFile \/ IsFile(img["toast"]))
      /\ "main" \in Levels /\ "toast" \in Levels
      /\ active = "toast" => img["toast"] # NoFile
  BY DEF IInv, TypeOK, Nesting, Levels
<1>2. LevelSteps("main") \in Nat /\ Round \in Nat /\ BlockSize \in Nat
  BY <1>1, LevelMeasure
<1>3. WholeDetour \in Nat /\ WholeDetour > 0
  <2>1. CASE img["toast"] = NoFile
    BY <2>1 DEF WholeDetour
  <2>2. CASE img["toast"] # NoFile
    <3>1. img["toast"].size \in Nat
      BY <1>1, <2>2 DEF IsFile, File
    <3> DEFINE z == img["toast"].size
    <3>2. z \in Nat
      BY <3>1
    <3> HIDE DEF z
    <3>3. Round * (z + 1) = Round * z + Round /\ Round * z \in Nat
      BY <1>2, <3>2
    <3>4. Round * (z + 1) \in Nat /\ Round * (z + 1) > 0
      BY <1>2, <3>3 DEF Round
    <3> QED
      BY <2>2, <3>4 DEF WholeDetour, z
  <2> QED
    BY <2>1, <2>2
<1>4. InDetour \in Nat
  BY <1>1, <1>3, LevelMeasure DEF InDetour
<1>5. StepsLeft \in Nat
  <2>1. WholeDetour * LevelSteps("main") \in Nat
    BY <1>2, <1>3
  <2> QED
    BY <1>4, <2>1 DEF StepsLeft
<1>6. /\ DOMAIN pc = Levels /\ DOMAIN fpos = Levels
      /\ DOMAIN own = Levels /\ DOMAIN item = Levels
  BY DEF IInv, TypeOK
<1> QED
  BY <1>1, <1>2, <1>3, <1>4, <1>5, <1>6

\* Either the outer level moves, and a whole detour is to come or not, or it
\* waits and the rest of the detour gets shorter.
LEMMA WholeFalls ==
  ASSUME IInv, img' = img, LevelSteps("main")' \in Nat, InDetour' \in Nat,
         \/ LevelSteps("main")' < LevelSteps("main")
            /\ InDetour' < InDetour + WholeDetour
         \/ LevelSteps("main")' = LevelSteps("main") /\ InDetour' < InDetour
  PROVE  StepsLeft' < StepsLeft
<1> DEFINE d == WholeDetour
           a == LevelSteps("main")
           b == LevelSteps("main")'
           r == InDetour
           s == InDetour'
<1>1. d \in Nat /\ a \in Nat /\ b \in Nat /\ r \in Nat /\ s \in Nat
  BY WholeMeasure
<1>2. (b < a /\ s < r + d) \/ (b = a /\ s < r)
  OBVIOUS
<1>3. WholeDetour' = d
  BY DEF WholeDetour, Round
<1>4. StepsLeft = d * a + r /\ StepsLeft' = d * b + s
  BY <1>3 DEF StepsLeft
<1> HIDE DEF d, a, b, r, s
<1>5. d * b + s < d * a + r
  BY <1>1, <1>2, RoundsFall
<1> QED
  BY <1>4, <1>5

LEMMA StepsFall ==
  ASSUME IInv, Next, active \in Levels
  PROVE  StepsLeft' < StepsLeft
<1>0. /\ LevelSteps("main") \in Nat /\ WholeDetour \in Nat /\ WholeDetour > 0
      /\ InDetour \in Nat /\ IsFile(img["main"])
      /\ active = "toast" => IsFile(img["toast"])
      /\ "main" \in Levels /\ "toast" \in Levels
      /\ DOMAIN pc = Levels /\ DOMAIN fpos = Levels
      /\ DOMAIN own = Levels /\ DOMAIN item = Levels
  BY WholeMeasure
<1>1. img' = img => WholeDetour' = WholeDetour
  BY DEF WholeDetour, Round
\* The outer level moves and goes on or ends.
<1>2. ASSUME img' = img, active = "main", active' \in {"main", "exit", "crash"},
             LevelSteps("main")' < LevelSteps("main"), LevelSteps("main")' \in Nat
      PROVE  StepsLeft' < StepsLeft
  <2>1. InDetour = WholeDetour /\ InDetour' \in {0, WholeDetour}
    BY <1>1, <1>2 DEF InDetour
  <2>2. InDetour' \in Nat /\ InDetour' < InDetour + WholeDetour
    BY <1>0, <2>1
  <2> QED
    BY <1>2, <2>2, WholeFalls
\* The outer level waits.
<1>3. ASSUME img' = img, pc'["main"] = pc["main"], fpos'["main"] = fpos["main"],
             own'["main"] = own["main"], item'["main"] = item["main"],
             InDetour' \in Nat, InDetour' < InDetour
      PROVE  StepsLeft' < StepsLeft
  <2>1. LevelSteps("main")' = LevelSteps("main")
    BY <1>0, <1>3, LevelWaits
  <2> QED
    BY <1>0, <1>3, <2>1, WholeFalls
<1>4. ASSUME NEW l \in Levels,
             \/ ReadBlock(l) \/ ReadNothing(l) \/ FormatHeader(l) \/ ItemsDone(l)
             \/ ItemBeyondBlock(l) \/ FormatSpecial(l) \/ NextBlock(l)
      PROVE  StepsLeft' < StepsLeft
  <2>1. LevelSteps(l)' < LevelSteps(l) /\ LevelSteps(l)' \in Nat
    BY <1>4, LevelFalls
  <2>2. /\ active = l /\ active' = l /\ img' = img
        /\ \A k \in Levels \ {l} : /\ pc'[k] = pc[k] /\ fpos'[k] = fpos[k]
                                   /\ own'[k] = own[k] /\ item'[k] = item[k]
    BY <1>0, <1>4 DEF ReadBlock, ReadNothing, FormatHeader, ItemsDone,
       ItemBeyondBlock, AtItem, NextItem, FormatSpecial, NextBlock, Goto
  <2>3. CASE l = "main"
    BY <1>2, <2>1, <2>2, <2>3
  <2>4. CASE l = "toast"
    <3>1. "main" \in Levels \ {l}
      BY <1>0, <2>4
    <3>2. InDetour = LevelSteps("toast") /\ InDetour' = LevelSteps("toast")'
      BY <2>2, <2>4 DEF InDetour
    <3> QED
      BY <1>3, <2>1, <2>2, <2>4, <3>1, <3>2
  <2> QED
    BY <2>3, <2>4 DEF Levels
<1>5. CASE Start
  <2>1. /\ active = "main" /\ active' = "main" /\ img' = img /\ pc["main"] = "open"
        /\ pc'["main"] = "read" /\ fpos'["main"] = StartPosition
    BY <1>0, <1>5 DEF Start, Goto
  <2>2. fpos'["main"] \in Nat
    <3>1. opts.first \in Nat /\ BlockSize \in Nat
      BY SizesAssumption DEF IInv, TypeOK, Options
    <3>2. BlockSize * opts.first \in Nat
      BY <3>1
    <3> QED
      BY <2>1, <3>2, WrapType DEF StartPosition
  <2>3. StepsInBlock("main") = 3 /\ StepsInBlock("main")' = 2
    BY <2>1 DEF StepsInBlock
  <2>4. LevelSteps("main")' < LevelSteps("main") /\ LevelSteps("main")' \in Nat
    BY <1>0, <2>1, <2>2, <2>3, BlockStep
  <2> QED
    BY <1>2, <2>1, <2>4
<1>6. CASE StartFails
  <2>1. /\ active = "main" /\ active' = "exit" /\ img' = img /\ pc["main"] = "open"
        /\ pc'["main"] = "failed" /\ fpos' = fpos
    BY <1>0, <1>6 DEF StartFails, Goto
  <2>2. fpos["main"] \in Nat
    BY <1>0, LevelMeasure
  <2>3. StepsInBlock("main") = 3 /\ StepsInBlock("main")' = 0
    BY <2>1 DEF StepsInBlock
  <2>4. LevelSteps("main")' < LevelSteps("main") /\ LevelSteps("main")' \in Nat
    BY <1>0, <2>1, <2>2, <2>3, BlockStep
  <2> QED
    BY <1>2, <2>1, <2>4
<1>7. CASE MainItem
  <2>1. /\ active = "main" /\ active' = "main" /\ img' = img /\ pc["main"] = "items"
        /\ item["main"] <= Len(PageIn("main").items)
        /\ item'["main"] = item["main"] + 1
        /\ pc' = pc /\ fpos' = fpos /\ own' = own
    BY <1>0, <1>7 DEF MainItem, AtItem, NextItem
  <2>2. LevelSteps("main")' < LevelSteps("main") /\ LevelSteps("main")' \in Nat
    BY <1>0, <2>1, ItemStep
  <2> QED
    BY <1>2, <2>1, <2>2
<1>8. CASE ToastItem
  <2>1. LevelSteps("toast")' < LevelSteps("toast") /\ LevelSteps("toast")' \in Nat
    BY <1>8, ChunkFalls
  <2>2. /\ active = "toast" /\ active' = "toast" /\ img' = img
        /\ pc'["main"] = pc["main"] /\ fpos' = fpos /\ own' = own
        /\ item'["main"] = item["main"]
    BY <1>0, <1>8 DEF ToastItem, AtItem, Goto, NextItem
  <2>3. InDetour = LevelSteps("toast") /\ InDetour' = LevelSteps("toast")'
    BY <2>2 DEF InDetour
  <2> QED
    BY <1>3, <2>1, <2>2, <2>3
<1>9. CASE Detour
  <2>1. /\ active = "main" /\ active' = "toast" /\ img' = img /\ img["toast"] # NoFile
        /\ pc'["main"] = pc["main"] /\ fpos'["main"] = fpos["main"]
        /\ own'["main"] = own["main"] /\ item'["main"] = item["main"]
        /\ pc'["toast"] = "read" /\ fpos'["toast"] = 0
    BY <1>0, <1>9 DEF Detour, AtItem, Goto
  <2>2. img["toast"].size \in Nat /\ Round \in Nat /\ Round > 2
    <3>1. IsFile(img["toast"])
      BY <2>1 DEF IInv, TypeOK
    <3> QED
      BY <3>1, SizesAssumption DEF IsFile, File, Round
  <2>3. LeftInFile("toast")' = img["toast"].size /\ StepsInBlock("toast")' = 2
    BY <2>1, <2>2 DEF LeftInFile, StepsInBlock
  <2> DEFINE z == img["toast"].size
  <2>4. /\ InDetour = Round * (z + 1) /\ InDetour' = Round * z + 2 /\ z \in Nat
    BY <2>1, <2>2, <2>3 DEF InDetour, WholeDetour, LevelSteps, Round
  <2> HIDE DEF z
  <2>5. Round * (z + 1) = Round * z + Round /\ Round * z \in Nat
    BY <2>2, <2>4
  <2>6. InDetour' \in Nat /\ InDetour' < InDetour
    BY <2>2, <2>4, <2>5
  <2> QED
    BY <1>3, <2>1, <2>6
<1>10. CASE DetourUnopened
  <2>1. /\ active = "main" /\ img' = img /\ pc["main"] = "items"
        /\ item["main"] <= Len(PageIn("main").items)
        /\ pc' = pc /\ fpos' = fpos /\ own' = own
        /\ \/ item'["main"] = item["main"] + 1 /\ active' = "main"
           \/ active' = "crash" /\ item' = item
    BY <1>0, <1>10 DEF DetourUnopened, AtItem, NextItem
  <2>2. CASE item'["main"] = item["main"] + 1 /\ active' = "main"
    <3>1. LevelSteps("main")' < LevelSteps("main") /\ LevelSteps("main")' \in Nat
      BY <1>0, <2>1, <2>2, ItemStep
    <3> QED
      BY <1>2, <2>1, <2>2, <3>1
  <2>3. CASE active' = "crash" /\ item' = item
    <3>1. InDetour = WholeDetour /\ InDetour' = 0
      BY <2>1, <2>3 DEF InDetour
    <3> QED
      BY <1>0, <1>3, <2>1, <2>3, <3>1
  <2> QED
    BY <2>1, <2>2, <2>3
<1>11. CASE Return
  <2>1. /\ active = "toast" /\ pc["toast"] = "finished" /\ active' = "main"
        /\ img' = img /\ fpos' = fpos /\ own' = own
        /\ item'["main"] = item["main"] + 1 /\ pc'["main"] = pc["main"]
    BY <1>0, <1>11 DEF Return, Goto, NextItem
  <2>2. pc["main"] = "items" /\ item["main"] <= Len(PageIn("main").items)
    BY <2>1 DEF IInv, Nesting
  <2>3. LevelSteps("main")' < LevelSteps("main") /\ LevelSteps("main")' \in Nat
    BY <1>0, <2>1, <2>2, ItemStep
  <2>4. LeftInFile("toast") \in Nat /\ Round \in Nat /\ StepsInBlock("toast") = 1
    BY <1>0, <2>1, LevelMeasure DEF StepsInBlock
  <2>5. Round * LeftInFile("toast") \in Nat
    BY <2>4
  <2>6. InDetour > 0 /\ InDetour' = WholeDetour
    BY <1>1, <2>1, <2>4, <2>5 DEF InDetour, LevelSteps
  <2>7. InDetour' \in Nat /\ InDetour' < InDetour + WholeDetour
    BY <1>0, <2>6
  <2> QED
    BY <2>1, <2>3, <2>7, WholeFalls
<1>12. CASE Exit
  <2>1. /\ active = "main" /\ active' = "exit" /\ img' = img /\ pc' = pc /\ fpos' = fpos
        /\ own' = own /\ item' = item
    BY <1>12 DEF Exit, locals
  <2>2. InDetour = WholeDetour /\ InDetour' = 0
    BY <2>1 DEF InDetour
  <2> QED
    BY <1>0, <1>3, <2>1, <2>2
<1>13. CASE Ended
  BY <1>13 DEF Ended, Levels
<1> QED
  BY <1>4, <1>5, <1>6, <1>7, <1>8, <1>9, <1>10, <1>11, <1>12, <1>13 DEF Next

(* Whatever the files hold, the dump cannot go on forever: a natural       *)
(* number falls with every step until the program ends, the steps of any   *)
(* number of detours included, so neither a block nor an item nor a TOAST  *)
(* file is gone through again without end.                                 *)
THEOREM DumpCannotGoOn ==
  ASSUME SeekFits
  PROVE  Spec => [](StepsLeft \in Nat)
                 /\ [][(active \in Levels) => StepsLeft' < StepsLeft]_vars
<1>1. IInv => StepsLeft \in Nat
  BY WholeMeasure
<1>2. IInv /\ [Next]_vars => [(active \in Levels) => StepsLeft' < StepsLeft]_vars
  BY StepsFall
<1> QED
  BY <1>1, <1>2, Invariance, PTL DEF Spec
=============================================================================
