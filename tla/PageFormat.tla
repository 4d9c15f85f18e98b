----------------------------- MODULE PageFormat -----------------------------
(***************************************************************************)
(* FormatBlock on one page (src/pg_filedump.c): what kind of page it is    *)
(* taken for, how its header is judged, how each item is interpreted with  *)
(* -i and dumped with -f, and how the special section is.  Checksums, -o,  *)
(* -D and the sequence of blocks are in RelationDump and TupleDecode.      *)
(*                                                                         *)
(* A page is a record of the fields that are looked at.  Sizes are those   *)
(* of the server's structures; only the block is smaller.                  *)
(***************************************************************************)
EXTENDS Integers, Sequences

CONSTANTS
  Pages,           \* the pages considered
  OptionSets,      \* combinations of -d, -i, -f, -x and -y
  BytesRead,       \* how much of the page may have been read
  BlockSize,
  StructSize,      \* sizeof(PageHeaderData): 24, or 28 in older servers
  MetaSize         \* sizeof(BTMetaPageData)

HeaderSize == 24
PointerSize == 4
LayoutVersion == 4

(* MAXALIGN(sizeof(...PageOpaqueData)): B-tree, hash and GiST; sequence,   *)
(* GIN and SP-GiST.                                                        *)
LargeOpaque == 16
SmallOpaque == 8

SequenceMagic == 5911
MaxBtCycleId == 65407
HashoPageId == 65408
GistPageId == 65409
SpgistPageId == 65410

Methods == {"heap", "sequence", "btree", "hash", "gist", "gin", "spgist"}
IndexTypes == {"btree", "hash", "gist", "gin"}
SpecialTypes == {"none", "sequence", "spgist", "unknown", "boundary"} \cup IndexTypes

(* What an item holds, read as any kind of tuple: the size it says it has  *)
(* (t_info of an index tuple, "size" of an SP-GiST tuple), the prefix and  *)
(* the sizes of the nodes of an inner tuple, and the header of a heap      *)
(* tuple.                                                                  *)
Tuple == [size : Nat, prefix : Nat, nodes : Seq(Nat),
          hoff : Nat, natts : Nat, nulls : BOOLEAN, oid : BOOLEAN]
Item == [off : Nat, len : Nat, tuple : Tuple]

(* The special section: its first 4 bytes, the last 2 of the page, the 2   *)
(* where a B-tree keeps its cycle id, and the flags of a meta page or an   *)
(* SP-GiST leaf.  "stated" is the page size the header states; "method"    *)
(* is not looked at.                                                       *)
Opaque == [first : Nat, last : Nat, cycle : Nat, meta : BOOLEAN, leaf : BOOLEAN]
Page == [method : Methods, lower : Nat, upper : Nat, special : Nat,
         stated : Nat, version : Nat, opaque : Opaque, items : Seq(Item)]

Options == [noInterpret : BOOLEAN, detail : BOOLEAN, binary : BOOLEAN,
            as : {"auto", "index", "heap"}]

(* PageGetMaxOffsetNumber.                                                 *)
MaxOffsetOf(p) ==
  IF p.lower <= HeaderSize THEN 0 ELSE (p.lower - HeaderSize) \div PointerSize

ASSUME PagesAssumption ==
  /\ Pages \subseteq Page
  /\ \A p \in Pages :
       /\ HeaderSize + PointerSize * MaxOffsetOf(p) <= BlockSize =>
            Len(p.items) = MaxOffsetOf(p)
       /\ p.special = BlockSize - LargeOpaque => p.opaque.cycle = p.opaque.last
ASSUME OptionsAssumption == OptionSets \subseteq Options
ASSUME SizesAssumption ==
  /\ StructSize \in {24, 28} /\ MetaSize \in Nat
  /\ BlockSize \in Nat /\ BlockSize > StructSize
  /\ BytesRead \subseteq 1..BlockSize

VARIABLES
  page, opts,
  bytesToFormat,   \* file scope: how much of the page was read
  specialType,     \* file scope: kind of special section
  pc,
  x,               \* number of the item looked at
  i,               \* nodes of an inner tuple shown so far
  off,             \* where the next one is in the tuple
  dumped,          \* ranges given to FormatBinary
  shown,           \* what each item was interpreted as, and its nodes shown
  exitCode

vars == <<page, opts, bytesToFormat, specialType, pc, x, i, off, dumped, shown,
          exitCode>>

Init ==
  /\ page \in Pages
  /\ opts \in OptionSets
  /\ bytesToFormat \in BytesRead
  /\ specialType = "none"
  /\ pc = "classify"
  /\ x = 1 /\ i = 0 /\ off = 0
  /\ dumped = {} /\ shown = <<>>
  /\ exitCode = 0

MaxAlign(n) == ((n + 7) \div 8) * 8
Full == bytesToFormat = BlockSize
MaxOffset == MaxOffsetOf(page)
SpecialSize == BlockSize - page.special

Dump(what, start, size) ==
  dumped' = IF opts.binary /\ size > 0
              THEN dumped \cup {[what |-> what, start |-> start, size |-> size]}
              ELSE dumped

-----------------------------------------------------------------------------
(* GetSpecialSectionType: the size of the special section, then the words  *)
(* that tell sections of one size apart.                                   *)

SmallSection ==
  IF ~Full THEN "unknown"
  ELSE IF page.opaque.first = SequenceMagic THEN "sequence"
  ELSE IF page.opaque.last = SpgistPageId THEN "spgist"
  ELSE "gin"

\* Variant: the last cycle id is not one.
LargeSectionBelow ==
  IF ~Full THEN "unknown"
  ELSE IF page.opaque.last < MaxBtCycleId THEN "btree"
  ELSE IF page.opaque.last = HashoPageId THEN "hash"
  ELSE IF page.opaque.last = GistPageId THEN "gist"
  ELSE "unknown"

LargeSection ==
  IF ~Full THEN "unknown"
  ELSE IF page.opaque.last <= MaxBtCycleId THEN "btree"
  ELSE IF page.opaque.last = HashoPageId THEN "hash"
  ELSE IF page.opaque.last = GistPageId THEN "gist"
  ELSE "unknown"

SpecialSectionType ==
  IF bytesToFormat <= StructSize THEN "unknown"
  ELSE IF page.special = 0 \/ page.special > BlockSize
            \/ page.special > bytesToFormat
    THEN "boundary"
  ELSE IF SpecialSize = 0 THEN "none"
  ELSE IF SpecialSize = SmallOpaque THEN SmallSection
  ELSE IF SpecialSize = LargeOpaque THEN LargeSection
  ELSE "unknown"

Classify ==
  /\ pc = "classify"
  /\ specialType' = SpecialSectionType
  /\ pc' = IF opts.noInterpret THEN "raw" ELSE "header"
  /\ UNCHANGED <<page, opts, bytesToFormat, x, i, off, dumped, shown, exitCode>>

(* -d: the bytes that were read, uninterpreted.                            *)
DumpRaw ==
  /\ pc = "raw"
  /\ dumped' = {[what |-> "block", start |-> 0, size |-> bytesToFormat]}
  /\ pc' = "done"
  /\ UNCHANGED <<page, opts, bytesToFormat, specialType, x, i, off, shown,
                 exitCode>>

-----------------------------------------------------------------------------
(* FormatHeader.                                                           *)

(* Not even the fixed part of the header was read.                         *)
HeaderCut ==
  /\ pc = "header" /\ bytesToFormat < HeaderSize
  /\ exitCode' = 1
  /\ Dump("header", 0, bytesToFormat)
  /\ pc' = "done"
  /\ UNCHANGED <<page, opts, bytesToFormat, specialType, x, i, off, shown>>

(* IsBtreeMetaPage goes by the page size the header states; where that is  *)
(* not the block's, it looks at other bytes, maybe past the block.         *)
IsBtreeMetaPage ==
  /\ page.stated - page.special = LargeOpaque
  /\ Full
  /\ page.opaque.cycle <= MaxBtCycleId
  /\ page.opaque.meta

ArrayEnd == HeaderSize + PointerSize * MaxOffset
HeaderValid ==
  /\ page.version = LayoutVersion
  /\ MaxOffset <= BlockSize
  /\ page.upper <= BlockSize /\ page.upper <= page.special
  /\ page.lower >= StructSize - PointerSize
  /\ page.lower <= BlockSize /\ page.lower <= page.upper
  /\ page.special <= BlockSize

HeaderBytes ==
  (IF ArrayEnd > bytesToFormat THEN bytesToFormat ELSE ArrayEnd)
    + (IF IsBtreeMetaPage THEN MetaSize ELSE 0)

(* Looking past the block may end the program.                             *)
StatedBeyondBlock ==
  /\ pc = "header" /\ bytesToFormat >= HeaderSize
  /\ Full /\ page.stated - page.special = LargeOpaque
  /\ page.stated > BlockSize
  /\ pc' = "crash"
  /\ UNCHANGED <<page, opts, bytesToFormat, specialType, x, i, off, dumped,
                 shown, exitCode>>

\* Variant: the item array is not checked against the bytes read.
FormatHeaderUncut ==
  /\ pc = "header" /\ bytesToFormat >= HeaderSize
  /\ exitCode' = IF HeaderValid THEN exitCode ELSE 1
  /\ Dump("header", 0, ArrayEnd)
  /\ pc' = IF IsBtreeMetaPage THEN "special" ELSE "items"
  /\ UNCHANGED <<page, opts, bytesToFormat, specialType, x, i, off, shown>>

FormatHeader ==
  /\ pc = "header" /\ bytesToFormat >= HeaderSize
  /\ exitCode' = IF HeaderValid /\ ArrayEnd <= bytesToFormat THEN exitCode ELSE 1
  /\ Dump("header", 0, HeaderBytes)
  /\ pc' = IF ArrayEnd > bytesToFormat THEN "done"
           ELSE IF IsBtreeMetaPage THEN "special" ELSE "items"
  /\ UNCHANGED <<page, opts, bytesToFormat, specialType, x, i, off, shown>>

-----------------------------------------------------------------------------
(* FormatItemBlock and FormatItem.  The item array was found to lie inside *)
(* the bytes read, so its own check of maxOffset cannot fail here.         *)

(* -x and -y first, then the kind of page.                                 *)
FormatAs ==
  IF opts.as # "auto" THEN opts.as
  ELSE IF specialType \in IndexTypes THEN "index"
  ELSE IF specialType = "spgist" THEN (IF page.opaque.leaf THEN "leaf" ELSE "inner")
  ELSE "heap"

Current == page.items[x]
AtItem == pc = "items" /\ x <= MaxOffset

Fits ==
  /\ Current.off + Current.len <= BlockSize
  /\ Current.off + Current.len <= bytesToFormat

ItemsDone ==
  /\ pc = "items" /\ x > MaxOffset
  /\ pc' = "special"
  /\ UNCHANGED <<page, opts, bytesToFormat, specialType, x, i, off, dumped,
                 shown, exitCode>>

ItemBeyondBlock ==
  /\ AtItem
  /\ ~Fits
  /\ exitCode' = 1
  /\ x' = x + 1
  /\ UNCHANGED <<page, opts, bytesToFormat, specialType, pc, i, off, dumped,
                 shown>>

(* Go on with the next item after dumping this one.                        *)
NextItem ==
  /\ Dump("item", Current.off, Current.len)
  /\ x' = x + 1
  /\ pc' = "items"

Show(how, nodes) ==
  shown' = Append(shown, [item |-> x, how |-> how, nodes |-> nodes])

ItemNotDetailed ==
  /\ AtItem
  /\ Fits
  /\ ~opts.detail
  /\ NextItem
  /\ UNCHANGED <<page, opts, bytesToFormat, specialType, i, off, shown,
                 exitCode>>

(* The bytes each kind of tuple needs before its header is looked at:      *)
(* ItemPointerData, MAXALIGN(sizeof(HeapTupleHeaderData)), SGLTHDRSZ and   *)
(* SGITHDRSZ.                                                              *)
InnerHeader == 8
NodeHeader == 8
LeastBytes == [index |-> 6, heap |-> 24, leaf |-> 16, inner |-> InnerHeader]

(* An item of no length is not interpreted and no error.                   *)
ItemTooShort ==
  /\ AtItem
  /\ Fits /\ opts.detail
  /\ Current.len < LeastBytes[FormatAs]
  /\ exitCode' = IF Current.len > 0 THEN 1 ELSE exitCode
  /\ NextItem
  /\ UNCHANGED <<page, opts, bytesToFormat, specialType, i, off, shown>>

Interpreted(how) ==
  /\ AtItem
  /\ Fits /\ opts.detail
  /\ FormatAs = how
  /\ Current.len >= LeastBytes[how]

\* Variant: a difference in size is shown only.
SizedItemUnjudged ==
  /\ \E how \in {"index", "leaf"} : Interpreted(how) /\ Show(how, 0)
  /\ NextItem
  /\ UNCHANGED <<page, opts, bytesToFormat, specialType, i, off, exitCode>>

SizedItem ==
  /\ \E how \in {"index", "leaf"} : Interpreted(how) /\ Show(how, 0)
  /\ exitCode' = IF Current.tuple.size # Current.len THEN 1 ELSE exitCode
  /\ NextItem
  /\ UNCHANGED <<page, opts, bytesToFormat, specialType, i, off>>

(* The length of the header is computed from the number of attributes, the *)
(* null bitmap after the 23 bytes before it, and the object identifier.    *)
BitmapLength(t) == IF t.nulls THEN (t.natts + 7) \div 8 ELSE 0

\* Variant: the object identifier is forgotten.
ComputedLengthNoOid(t) == MaxAlign(23 + BitmapLength(t))

ComputedLength(t) == MaxAlign(23 + BitmapLength(t) + (IF t.oid THEN 4 ELSE 0))

HeapItem ==
  /\ Interpreted("heap")
  /\ Show("heap", 0)
  /\ exitCode' = IF ComputedLength(Current.tuple) # Current.tuple.hoff THEN 1
                 ELSE exitCode
  /\ NextItem
  /\ UNCHANGED <<page, opts, bytesToFormat, specialType, i, off>>

InnerDiffers ==
  /\ Interpreted("inner")
  /\ Current.tuple.size # Current.len
  /\ Show("inner", 0)
  /\ exitCode' = 1
  /\ NextItem
  /\ UNCHANGED <<page, opts, bytesToFormat, specialType, i, off>>

(* The nodes are walked only behind an aligned prefix.                     *)
InnerUnaligned ==
  /\ Interpreted("inner")
  /\ Current.tuple.size = Current.len
  /\ Current.tuple.prefix # MaxAlign(Current.tuple.prefix)
  /\ Show("inner", 0)
  /\ NextItem
  /\ UNCHANGED <<page, opts, bytesToFormat, specialType, i, off, exitCode>>

InnerItem ==
  /\ Interpreted("inner")
  /\ Current.tuple.size = Current.len
  /\ Current.tuple.prefix = MaxAlign(Current.tuple.prefix)
  /\ Dump("prefix", Current.off,
          IF InnerHeader + Current.tuple.prefix <= Current.len
            THEN InnerHeader + Current.tuple.prefix ELSE 0)
  /\ i' = 0
  /\ off' = InnerHeader + Current.tuple.prefix
  /\ pc' = "nodes"
  /\ UNCHANGED <<page, opts, bytesToFormat, specialType, x, shown, exitCode>>

(* SGITITERATE, "but only while pointer is sane".                          *)
NodeAtHand == pc = "nodes" /\ i < Len(Current.tuple.nodes)
NodeSize == Current.tuple.nodes[i + 1]

\* Variants: the bound is for the start of a node only, or leaves out the last.
NodeFitsBegun == off < Current.len
NodeFitsTightly == off + NodeHeader < Current.len

NodeFits == off + NodeHeader <= Current.len

Node ==
  /\ NodeAtHand
  /\ NodeFits
  /\ Dump("node", Current.off + off,
          IF off + NodeSize <= Current.len THEN NodeSize ELSE 0)
  /\ i' = i + 1
  /\ off' = off + NodeSize
  /\ pc' = IF NodeSize = MaxAlign(NodeSize) THEN "nodes" ELSE "nodesDone"
  /\ UNCHANGED <<page, opts, bytesToFormat, specialType, x, shown, exitCode>>

NodesDone ==
  /\ \/ pc = "nodesDone"
     \/ pc = "nodes" /\ (i = Len(Current.tuple.nodes) \/ ~NodeFits)
  /\ Show("inner", i)
  /\ NextItem
  /\ UNCHANGED <<page, opts, bytesToFormat, specialType, i, off, exitCode>>

-----------------------------------------------------------------------------
(* FormatSpecial, for a page that has a special section.                   *)

NoSpecial ==
  /\ pc = "special" /\ specialType = "none"
  /\ pc' = "done"
  /\ UNCHANGED <<page, opts, bytesToFormat, specialType, x, i, off, dumped,
                 shown, exitCode>>

FormatSpecial ==
  /\ pc = "special" /\ specialType # "none"
  /\ exitCode' = IF specialType \in {"unknown", "boundary"} THEN 1 ELSE exitCode
  /\ IF specialType = "boundary" THEN UNCHANGED dumped
     ELSE Dump("special", page.special,
               IF SpecialSize >= 0 THEN SpecialSize ELSE 0)
  /\ pc' = "done"
  /\ UNCHANGED <<page, opts, bytesToFormat, specialType, x, i, off, shown>>

Ended ==
  /\ pc \in {"done", "crash"}
  /\ UNCHANGED vars

FormatItemBlock ==
  \/ ItemsDone \/ ItemBeyondBlock \/ ItemNotDetailed
  \/ ItemTooShort \/ SizedItem \/ HeapItem
  \/ InnerDiffers \/ InnerUnaligned \/ InnerItem \/ Node \/ NodesDone

Next ==
  \/ Classify \/ DumpRaw
  \/ HeaderCut \/ StatedBeyondBlock \/ FormatHeader
  \/ FormatItemBlock
  \/ NoSpecial \/ FormatSpecial \/ Ended

Spec == Init /\ [][Next]_vars

(***************************************************************************)
(* Properties                                                              *)
(***************************************************************************)

(* Every variable keeps its type.                                          *)
TypeOK ==
  /\ page \in Page /\ opts \in Options
  /\ bytesToFormat \in 1..BlockSize
  /\ specialType \in SpecialTypes
  /\ pc \in {"classify", "raw", "header", "items", "nodes", "nodesDone",
             "special", "done", "crash"}
  /\ x \in Nat /\ i \in Nat /\ off \in Nat
  /\ dumped \subseteq [what : {"block", "header", "item", "prefix", "node", "special"},
                       start : Nat, size : Nat]
  /\ shown \in Seq([item : Nat, nodes : Nat,
                    how : {"index", "heap", "leaf", "inner"}])
  /\ exitCode \in {0, 1}

(* What the server puts in the special section of each kind of page: its   *)
(* size, and the words that tell kinds apart.  The first word of a GIN     *)
(* page is the number of its right sibling, which may be any but the magic *)
(* number of a sequence; its last is its flags.                            *)
Marked(p) ==
  LET size == BlockSize - p.special
      last == p.opaque.last
      magic == p.opaque.first = SequenceMagic
  IN /\ p.method = "heap" => size = 0
     /\ p.method \in {"btree", "hash", "gist"} => size = LargeOpaque
     /\ p.method \in {"spgist", "gin", "sequence"} => size = SmallOpaque
     /\ p.method = "btree" => last <= MaxBtCycleId
     /\ p.method = "hash" => last = HashoPageId
     /\ p.method = "gist" => last = GistPageId
     /\ p.method = "spgist" => last = SpgistPageId
     /\ p.method = "gin" => last < 256
     /\ p.method \in {"spgist", "gin"} => ~magic
     /\ p.method = "sequence" => magic

Kind(p) == IF p.method = "heap" THEN "none" ELSE p.method

(* A whole page with the marks of its access method is taken for a page of *)
(* that method, although the sections share sizes and the words that tell  *)
(* them apart.                                                             *)
TakenForWhatItIs ==
  pc # "classify" /\ Full /\ Marked(page) => specialType = Kind(page)

(* Where the server writes items: behind the item array, before the        *)
(* special section, each as long as it says.                               *)
NodesUpTo(t, n) ==
  LET end[m \in 0..Len(t.nodes)] ==
        IF m = 0 THEN InnerHeader + t.prefix ELSE end[m - 1] + t.nodes[m]
  IN end[n]
NodesEnd(t) == NodesUpTo(t, Len(t.nodes))

(* heap_form_tuple: a header of a multiple of 8 bytes, just long enough.   *)
HeaderFilled(t) ==
  LET bits == IF t.nulls THEN t.natts ELSE 0
      rest == t.hoff - 23 - (IF t.oid THEN 4 ELSE 0)
  IN t.hoff % 8 = 0 /\ bits <= 8 * rest /\ 8 * (rest - 8) < bits

InnerFilled(t) ==
  /\ t.prefix % 8 = 0
  /\ \A n \in 1..Len(t.nodes) : t.nodes[n] % 8 = 0 /\ t.nodes[n] >= NodeHeader
  /\ NodesEnd(t) <= t.size

HeapPage(p) == p.method \in {"heap", "sequence"}

WellFormed(p, item) ==
  \/ item.len = 0 /\ item.off <= BlockSize
  \/ /\ item.off >= p.upper /\ item.off + item.len <= p.special
     /\ HeapPage(p) => item.len >= 24 /\ HeaderFilled(item.tuple)
     /\ ~HeapPage(p) => item.len = item.tuple.size /\ item.len >= 16
     /\ p.method = "spgist" /\ ~p.opaque.leaf => InnerFilled(item.tuple)

(* A page as its access method leaves it: items of its own format in every *)
(* place, or a B-tree meta page.                                           *)
AsWritten(p) ==
  /\ Marked(p)
  /\ p.stated = BlockSize /\ p.version = LayoutVersion
  /\ HeaderSize <= p.lower /\ p.lower <= p.upper /\ p.upper <= p.special
  /\ \/ p.method = "btree" /\ p.opaque.meta
     \/ \A n \in 1..Len(p.items) : WellFormed(p, p.items[n])

(* A whole page as the server leaves it is dumped without an error, unless *)
(* -x or -y asks for another format.                                       *)
NoFalseAlarm ==
  Full /\ AsWritten(page) /\ (opts.as = "auto" \/ ~opts.detail) => exitCode = 0

(* Every item of such a page is interpreted once, in the order of the      *)
(* array, in the format of its access method, with all nodes it has.       *)
Form(p) ==
  CASE p.method \in IndexTypes -> "index"
    [] p.method = "spgist" -> (IF p.opaque.leaf THEN "leaf" ELSE "inner")
    [] OTHER -> "heap"

InterpretedUpTo(p, n) ==
  LET upTo[m \in 0..Len(p.items)] ==
        IF m = 0 THEN <<>>
        ELSE IF p.items[m].len = 0 THEN upTo[m - 1]
        ELSE Append(upTo[m - 1],
                    [item |-> m, how |-> Form(p),
                     nodes |-> IF Form(p) = "inner"
                                 THEN Len(p.items[m].tuple.nodes) ELSE 0])
  IN upTo[n]
Interpretation(p) == InterpretedUpTo(p, Len(p.items))

AllInterpreted ==
  /\ pc = "done" /\ Full /\ AsWritten(page)
  /\ opts.detail /\ opts.as = "auto" /\ ~opts.noInterpret
  => shown = IF page.method = "btree" /\ page.opaque.meta THEN <<>>
             ELSE Interpretation(page)

(* What is dumped lies in the block and was read, but for what follows the *)
(* item array of a meta page and the special section of a partial block.   *)
DumpsWhatWasRead ==
  \A d \in dumped :
    \/ d.start + d.size <= bytesToFormat
    \/ d.what = "header" /\ IsBtreeMetaPage
    \/ d.what = "special" /\ ~Full /\ d.start + d.size <= BlockSize

(* The numbers of nodes that can be walked in an inner tuple of any        *)
(* contents: none where the tuple denies its size or its prefix is not     *)
(* aligned; else each node is behind the sizes of all before it, which are *)
(* aligned, and its header is inside the item.                             *)
SaneWalks(item) ==
  LET t == item.tuple
  IN {n \in 0..Len(t.nodes) :
        /\ n > 0 => t.size = item.len /\ t.prefix % 8 = 0
        /\ \A m \in 1..n : /\ NodesUpTo(t, m - 1) + NodeHeader <= item.len
                           /\ m < n => t.nodes[m] % 8 = 0}

(* "Try to print the nodes, but only while pointer is sane"                *)
(* (pg_filedump.c:1512): of every inner tuple shown, damaged ones too, as  *)
(* many nodes are shown as can be walked, not one more and not one fewer.  *)
NodesWhileSane ==
  \A n \in 1..Len(shown) :
    shown[n].how = "inner" =>
      LET sane == SaneWalks(page.items[shown[n].item])
      IN /\ shown[n].nodes \in sane
         /\ \A count \in sane : count <= shown[n].nodes

(* An item is inside what was read and, when it holds anything, has the    *)
(* size its tuple says, or the header length its heap tuple says.          *)
SoundItem(item) ==
  /\ item.off + item.len <= bytesToFormat
  /\ item.len > 0 =>
       IF specialType \in IndexTypes \cup {"spgist"}
         THEN item.tuple.size = item.len
         ELSE ComputedLength(item.tuple) = item.tuple.hoff

(* No error means no damage: with -i every line pointer and every tuple on *)
(* the page was as it has to be.                                           *)
Detailed == opts.detail /\ opts.as = "auto" /\ ~opts.noInterpret
SilenceMeansSound ==
  pc = "done" /\ exitCode = 0 /\ Detailed
    => /\ page.version = LayoutVersion
       /\ ArrayEnd <= bytesToFormat /\ page.upper <= page.special
       /\ specialType \notin {"unknown", "boundary"}
       /\ IsBtreeMetaPage \/ \A n \in 1..MaxOffset : SoundItem(page.items[n])
=============================================================================
