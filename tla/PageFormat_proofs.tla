------------------------- MODULE PageFormat_proofs -------------------------
(***************************************************************************)
(* Proofs about PageFormat: its types, the kind of page each page is taken *)
(* for, what is dumped of it, that a dump without an error is one of a     *)
(* page without damage, and which items and nodes are shown.               *)
(***************************************************************************)
EXTENDS PageFormat, Recursion, TLAPS

AtItems == pc \in {"items", "nodes", "nodesDone"}

(* What is known of the page and of its kind.                              *)
Considered ==
  /\ page \in Pages /\ opts \in OptionSets
  /\ pc # "classify" => specialType = SpecialSectionType
  /\ pc = "raw" => opts.noInterpret

(* The item array is inside what was read while the items are looked at,   *)
(* and the item inside while its nodes are.                                *)
TupleAtHand ==
  /\ x >= 1
  /\ pc \in {"classify", "header"} => x = 1
  /\ AtItems => ArrayEnd <= bytesToFormat
  /\ pc \in {"nodes", "nodesDone"} =>
       x <= MaxOffset /\ Fits /\ Current.tuple.size = Current.len

(* The items seen without an error so far, in the two ways to the special  *)
(* section.                                                                *)
SoundSoFar ==
  exitCode = 0 /\ Detailed =>
    /\ AtItems \/ pc = "special" =>
         /\ page.version = LayoutVersion
         /\ ArrayEnd <= bytesToFormat /\ page.upper <= page.special
    /\ pc \in {"nodes", "nodesDone"} => FormatAs = "inner"
    /\ AtItems => \A n \in 1..(x - 1) : SoundItem(page.items[n])
    /\ pc = "special" =>
         IsBtreeMetaPage \/ \A n \in 1..MaxOffset : SoundItem(page.items[n])

(* The items of a meta page are left out.                                  *)
NotMeta == AtItems => ~IsBtreeMetaPage

IInv == TypeOK /\ Considered /\ TupleAtHand

-----------------------------------------------------------------------------
(* Facts about the constants and the page at hand.                         *)

\* Sizes of structures and of the block.
LEMMA Sizes == StructSize \in Nat /\ StructSize >= 24 /\ BlockSize \in Nat /\ MetaSize \in Nat
BY SizesAssumption

\* The page and the options have their types.
LEMMA PageTyped ==
  ASSUME TypeOK
  PROVE  /\ page.lower \in Nat /\ page.upper \in Nat /\ page.special \in Nat
         /\ page.stated \in Nat /\ page.version \in Nat
         /\ page.items \in Seq(Item) /\ page.opaque \in Opaque
         /\ bytesToFormat \in Nat /\ bytesToFormat <= BlockSize
         /\ MaxOffset \in Nat /\ ArrayEnd \in Nat
<1>1. page \in Page /\ bytesToFormat \in 1..BlockSize
  BY DEF TypeOK
<1>2. page.lower \in Nat
  BY <1>1 DEF Page
<1>3. MaxOffset \in Nat
  BY <1>2 DEF MaxOffset, MaxOffsetOf, HeaderSize, PointerSize
<1> QED
  BY <1>1, <1>3, Sizes DEF Page, ArrayEnd, HeaderSize, PointerSize

\* An item the loop is at is an item of the page.
LEMMA ItemTyped ==
  ASSUME TypeOK, Considered, TupleAtHand, AtItems, x <= MaxOffset
  PROVE  /\ x \in 1..Len(page.items)
         /\ Current.off \in Nat /\ Current.len \in Nat /\ Current.tuple \in Tuple
<1>1. page \in Pages /\ x \in Nat /\ x >= 1
  BY DEF Considered, TupleAtHand, TypeOK
<1>2. ArrayEnd <= BlockSize
  BY PageTyped, Sizes DEF TupleAtHand
<1>3. Len(page.items) = MaxOffset
  BY <1>1, <1>2, PagesAssumption DEF MaxOffset, ArrayEnd
<1>4. Current \in Item
  BY <1>1, <1>3, PageTyped DEF Current
<1> QED
  BY <1>1, <1>3, <1>4 DEF Item

\* The special section is one of the kinds.
LEMMA TypeOfSection == SpecialSectionType \in SpecialTypes
BY DEF SpecialSectionType, SpecialTypes, SmallSection, LargeSection, IndexTypes

\* Kinds of items.
LEMMA Forms ==
  ASSUME TypeOK PROVE FormatAs \in {"index", "heap", "leaf", "inner"}
<1>1. opts \in Options
  BY DEF TypeOK
<1>2. opts.as \in {"auto", "index", "heap"}
  BY <1>1 DEF Options
<1> QED
  BY <1>2 DEF FormatAs

-----------------------------------------------------------------------------
(* Types.                                                                  *)

Dumps == [what : {"block", "header", "item", "prefix", "node", "special"},
          start : Nat, size : Nat]
Showns == [item : Nat, nodes : Nat, how : {"index", "heap", "leaf", "inner"}]

\* A dump adds at most the range it names.
LEMMA DumpAdds ==
  ASSUME NEW what \in {"block", "header", "item", "prefix", "node", "special"},
         NEW start \in Nat, NEW size \in Int, Dump(what, start, size)
  PROVE  /\ dumped \subseteq Dumps => dumped' \subseteq Dumps
         /\ \A d \in dumped' \ dumped :
              d = [what |-> what, start |-> start, size |-> size] /\ size > 0
BY DEF Dump, Dumps

\* The next item's number and what is dumped of this one.
LEMMA NextItemTyped ==
  ASSUME IInv, AtItems, x <= MaxOffset, NextItem
  PROVE  x' \in Nat /\ dumped' \subseteq Dumps
<1>1. Current.off \in Nat /\ Current.len \in Nat /\ x \in Nat /\ dumped \subseteq Dumps
  BY ItemTyped DEF IInv, TypeOK, Dumps
<1> QED
  BY <1>1, DumpAdds DEF NextItem

\* What is shown of an item.
LEMMA ShowTyped ==
  ASSUME TypeOK, NEW how \in {"index", "heap", "leaf", "inner"}, NEW n \in Nat,
         Show(how, n)
  PROVE  shown' \in Seq(Showns)
<1>1. shown \in Seq(Showns) /\ x \in Nat
  BY DEF TypeOK, Showns
<1>2. [item |-> x, how |-> how, nodes |-> n] \in Showns
  BY <1>1 DEF Showns
<1> QED
  BY <1>1, <1>2 DEF Show

\* The types before the loop over the items.
LEMMA HeaderTyped ==
  ASSUME IInv,
         \/ Classify \/ DumpRaw \/ HeaderCut
         \/ StatedBeyondBlock \/ FormatHeader
  PROVE  TypeOK'
<1>1. bytesToFormat \in Nat /\ ArrayEnd \in Nat /\ dumped \subseteq Dumps
  BY PageTyped DEF IInv, TypeOK, Dumps
<1>2. HeaderBytes \in Nat
  BY <1>1, Sizes DEF HeaderBytes
<1>3. CASE Classify
  BY <1>3, TypeOfSection DEF Classify, IInv, TypeOK
<1>4. CASE DumpRaw
  BY <1>1, <1>4 DEF DumpRaw, IInv, TypeOK
<1>5. CASE HeaderCut
  <2>1. dumped' \subseteq Dumps
    BY <1>1, <1>5, DumpAdds DEF HeaderCut
  <2> QED
    BY <1>5, <2>1 DEF HeaderCut, IInv, TypeOK, Dumps
<1>6. CASE StatedBeyondBlock
  BY <1>6 DEF StatedBeyondBlock, IInv, TypeOK
<1>7. CASE FormatHeader
  <2>1. dumped' \subseteq Dumps
    BY <1>1, <1>2, <1>7, DumpAdds DEF FormatHeader
  <2>2. exitCode' \in {0, 1}
    BY <1>7 DEF FormatHeader, IInv, TypeOK
  <2> QED
    BY <1>7, <2>1, <2>2 DEF FormatHeader, IInv, TypeOK, Dumps
<1> QED
  BY <1>3, <1>4, <1>5, <1>6, <1>7

\* The types when the loop goes on with the next item.
LEMMA LoopTyped ==
  ASSUME IInv,
         \/ ItemsDone \/ ItemBeyondBlock \/ ItemNotDetailed \/ ItemTooShort
         \/ SizedItem \/ HeapItem \/ InnerDiffers \/ InnerUnaligned \/ NodesDone
  PROVE  TypeOK'
<1>0. IInv /\ TypeOK
  BY DEF IInv
<1>1. CASE ItemsDone
  BY <1>0, <1>1 DEF ItemsDone, TypeOK
<1>2. CASE ItemBeyondBlock
  BY <1>0, <1>2 DEF ItemBeyondBlock, TypeOK
<1>3. CASE ItemNotDetailed
  <2>1. x' \in Nat /\ dumped' \subseteq Dumps
    BY <1>0, <1>3, NextItemTyped DEF ItemNotDetailed, AtItem, AtItems
  <2> QED
    BY <1>0, <1>3, <2>1 DEF ItemNotDetailed, NextItem, TypeOK, Dumps
<1>4. CASE ItemTooShort
  <2>1. x' \in Nat /\ dumped' \subseteq Dumps
    BY <1>0, <1>4, NextItemTyped DEF ItemTooShort, AtItem, AtItems
  <2>2. exitCode' \in {0, 1}
    BY <1>0, <1>4 DEF ItemTooShort, TypeOK
  <2> QED
    BY <1>0, <1>4, <2>1, <2>2 DEF ItemTooShort, NextItem, TypeOK, Dumps
<1>5. CASE SizedItem
  <2>1. x' \in Nat /\ dumped' \subseteq Dumps
    BY <1>0, <1>5, NextItemTyped DEF SizedItem, Interpreted, AtItem, AtItems
  <2>2. shown' \in Seq(Showns)
    BY <1>0, <1>5, ShowTyped DEF SizedItem
  <2>3. exitCode' \in {0, 1}
    BY <1>0, <1>5 DEF SizedItem, TypeOK
  <2> QED
    BY <1>0, <1>5, <2>1, <2>2, <2>3 DEF SizedItem, NextItem, TypeOK, Dumps, Showns
<1>6. CASE HeapItem
  <2>1. x' \in Nat /\ dumped' \subseteq Dumps
    BY <1>0, <1>6, NextItemTyped DEF HeapItem, Interpreted, AtItem, AtItems
  <2>2. shown' \in Seq(Showns)
    BY <1>0, <1>6, ShowTyped DEF HeapItem
  <2>3. exitCode' \in {0, 1}
    BY <1>0, <1>6 DEF HeapItem, TypeOK
  <2> QED
    BY <1>0, <1>6, <2>1, <2>2, <2>3 DEF HeapItem, NextItem, TypeOK, Dumps, Showns
<1>7. CASE InnerDiffers
  <2>1. x' \in Nat /\ dumped' \subseteq Dumps
    BY <1>0, <1>7, NextItemTyped DEF InnerDiffers, Interpreted, AtItem, AtItems
  <2>2. shown' \in Seq(Showns)
    BY <1>0, <1>7, ShowTyped DEF InnerDiffers
  <2> QED
    BY <1>0, <1>7, <2>1, <2>2 DEF InnerDiffers, NextItem, TypeOK, Dumps, Showns
<1>8. CASE InnerUnaligned
  <2>1. x' \in Nat /\ dumped' \subseteq Dumps
    BY <1>0, <1>8, NextItemTyped DEF InnerUnaligned, Interpreted, AtItem, AtItems
  <2>2. shown' \in Seq(Showns)
    BY <1>0, <1>8, ShowTyped DEF InnerUnaligned
  <2> QED
    BY <1>0, <1>8, <2>1, <2>2 DEF InnerUnaligned, NextItem, TypeOK, Dumps, Showns
<1>9. CASE NodesDone
  <2>0. pc \in {"nodes", "nodesDone"} /\ x <= MaxOffset
    BY <1>0, <1>9 DEF NodesDone, IInv, TupleAtHand
  <2>1. x' \in Nat /\ dumped' \subseteq Dumps
    BY <1>0, <1>9, <2>0, NextItemTyped DEF NodesDone, AtItems
  <2>2. i \in Nat
    BY <1>0 DEF TypeOK
  <2>3. shown' \in Seq(Showns)
    BY <1>0, <1>9, <2>2, ShowTyped DEF NodesDone
  <2> QED
    BY <1>0, <1>9, <2>1, <2>3 DEF NodesDone, NextItem, TypeOK, Dumps, Showns
<1> QED
  BY <1>1, <1>2, <1>3, <1>4, <1>5, <1>6, <1>7, <1>8, <1>9

\* The fields of an inner tuple.
LEMMA TupleTyped ==
  ASSUME IInv, AtItems, x <= MaxOffset
  PROVE  /\ Current.off \in Nat /\ Current.len \in Nat
         /\ Current.tuple.prefix \in Nat /\ Current.tuple.size \in Nat
         /\ \A n \in 1..Len(Current.tuple.nodes) : Current.tuple.nodes[n] \in Nat
         /\ Len(Current.tuple.nodes) \in Nat
<1>1. Current.off \in Nat /\ Current.len \in Nat /\ Current.tuple \in Tuple
  BY ItemTyped DEF IInv
<1>2. /\ Current.tuple.nodes \in Seq(Nat)
      /\ Current.tuple.prefix \in Nat
      /\ Current.tuple.size \in Nat
  BY <1>1 DEF Tuple
<1>3. ASSUME NEW s \in Seq(Nat)
      PROVE  Len(s) \in Nat /\ \A n \in 1..Len(s) : s[n] \in Nat
  OBVIOUS
<1>4. /\ Len(Current.tuple.nodes) \in Nat
      /\ \A n \in 1..Len(Current.tuple.nodes) : Current.tuple.nodes[n] \in Nat
  BY <1>2, <1>3
<1> QED
  BY <1>1, <1>2, <1>4

\* What the walk along the nodes looks at is natural.
LEMMA NodeTyped ==
  ASSUME IInv, NodeAtHand
  PROVE  /\ AtItems /\ x <= MaxOffset /\ Fits /\ NodeSize \in Nat
         /\ i \in Nat /\ off \in Nat /\ Current.off \in Nat /\ Current.len \in Nat
<1>1. AtItems /\ x <= MaxOffset /\ Fits
  BY DEF IInv, TupleAtHand, NodeAtHand, AtItems
<1>2. i \in Nat /\ off \in Nat
  BY DEF IInv, TypeOK
<1>3. i + 1 \in 1..Len(Current.tuple.nodes)
  BY <1>1, <1>2, TupleTyped DEF NodeAtHand
<1> QED
  BY <1>1, <1>2, <1>3, TupleTyped DEF NodeSize

\* The types while the nodes of an inner tuple are walked.
LEMMA NodesTyped ==
  ASSUME IInv, InnerItem \/ Node
  PROVE  TypeOK'
<1>0. IInv /\ TypeOK /\ dumped \subseteq Dumps
  BY DEF IInv, TypeOK, Dumps
<1>1. CASE InnerItem
  <2>1. /\ Current.off \in Nat /\ Current.len \in Nat
        /\ Current.tuple.prefix \in Nat
    BY <1>0, <1>1, TupleTyped DEF InnerItem, Interpreted, AtItem, AtItems
  <2>2. InnerHeader + Current.tuple.prefix \in Nat
    BY <2>1 DEF InnerHeader
  <2>3. dumped' \subseteq Dumps
    BY <1>0, <1>1, <2>1, <2>2, DumpAdds DEF InnerItem
  <2> QED
    BY <1>0, <1>1, <2>2, <2>3 DEF InnerItem, TypeOK, Dumps
<1>2. CASE Node
  <2>1. /\ i \in Nat /\ off \in Nat /\ NodeSize \in Nat
        /\ Current.off \in Nat /\ Current.len \in Nat
    BY <1>0, <1>2, NodeTyped DEF Node
  <2>2. dumped' \subseteq Dumps
    BY <1>0, <1>2, <2>1, DumpAdds DEF Node
  <2> QED
    BY <1>0, <1>2, <2>1, <2>2 DEF Node, TypeOK, Dumps
<1> QED
  BY <1>1, <1>2

\* The types at the special section.
LEMMA SpecialTyped ==
  ASSUME IInv, NoSpecial \/ FormatSpecial
  PROVE  TypeOK'
<1>0. TypeOK /\ dumped \subseteq Dumps /\ page.special \in Nat /\ SpecialSize \in Int
  BY PageTyped, Sizes DEF IInv, TypeOK, Dumps, SpecialSize
<1>1. CASE NoSpecial
  BY <1>0, <1>1 DEF NoSpecial, TypeOK
<1>2. CASE FormatSpecial
  <2>1. dumped' \subseteq Dumps
    BY <1>0, <1>2, DumpAdds DEF FormatSpecial
  <2>2. exitCode' \in {0, 1}
    BY <1>0, <1>2 DEF FormatSpecial, TypeOK
  <2> QED
    BY <1>0, <1>2, <2>1, <2>2 DEF FormatSpecial, TypeOK, Dumps
<1> QED
  BY <1>1, <1>2
-----------------------------------------------------------------------------
(* The invariant.                                                          *)

\* The kind, the page and the item at hand stay what they were found to be.
LEMMA PlaceKept ==
  ASSUME IInv, Next
  PROVE  Considered' /\ TupleAtHand'
<1>0. IInv /\ TypeOK /\ Considered /\ TupleAtHand /\ x \in Nat
  BY DEF IInv, TypeOK
<1> USE DEF Considered, TupleAtHand, AtItems, MaxOffset, ArrayEnd, Fits, Current,
            SpecialSectionType, SmallSection, LargeSection, Full, SpecialSize
<1>1. CASE Classify
  BY <1>0, <1>1 DEF Classify
<1>2. CASE DumpRaw
  BY <1>0, <1>2 DEF DumpRaw
<1>3. CASE HeaderCut
  BY <1>0, <1>3 DEF HeaderCut
<1>4. CASE StatedBeyondBlock
  BY <1>0, <1>4 DEF StatedBeyondBlock
<1>5. CASE FormatHeader
  <2>1. ArrayEnd \in Nat /\ bytesToFormat \in Nat
    BY <1>0, PageTyped
  <2> QED
    BY <1>0, <1>5, <2>1 DEF FormatHeader
<1>6. CASE ItemsDone
  BY <1>0, <1>6 DEF ItemsDone
<1>7. CASE ItemBeyondBlock
  BY <1>0, <1>7 DEF ItemBeyondBlock, AtItem
<1>8. CASE ItemNotDetailed
  BY <1>0, <1>8 DEF ItemNotDetailed, AtItem, NextItem
<1>9. CASE ItemTooShort
  BY <1>0, <1>9 DEF ItemTooShort, AtItem, NextItem
<1>10. CASE SizedItem
  BY <1>0, <1>10 DEF SizedItem, Interpreted, AtItem, NextItem
<1>11. CASE HeapItem
  BY <1>0, <1>11 DEF HeapItem, Interpreted, AtItem, NextItem
<1>12. CASE InnerDiffers
  BY <1>0, <1>12 DEF InnerDiffers, Interpreted, AtItem, NextItem
<1>13. CASE InnerUnaligned
  BY <1>0, <1>13 DEF InnerUnaligned, Interpreted, AtItem, NextItem
<1>14. CASE InnerItem
  BY <1>0, <1>14 DEF InnerItem, Interpreted, AtItem
<1>15. CASE Node
  BY <1>0, <1>15 DEF Node, NodeAtHand
<1>16. CASE NodesDone
  BY <1>0, <1>16 DEF NodesDone, NextItem
<1>17. CASE NoSpecial
  BY <1>0, <1>17 DEF NoSpecial
<1>18. CASE FormatSpecial
  BY <1>0, <1>18 DEF FormatSpecial
<1>19. CASE Ended
  BY <1>0, <1>19 DEF Ended, vars
<1> QED
  BY <1>1, <1>2, <1>3, <1>4, <1>5, <1>6, <1>7, <1>8, <1>9, <1>10, <1>11, <1>12,
     <1>13, <1>14, <1>15, <1>16, <1>17, <1>18, <1>19 DEF Next, FormatItemBlock

\* The invariant holds initially.
LEMMA InvInit == Init => IInv
<1> SUFFICES ASSUME Init PROVE IInv
  OBVIOUS
<1>1. Considered /\ TupleAtHand
  BY DEF Init, Considered, TupleAtHand, AtItems
<1>2. bytesToFormat \in 1..BlockSize
  BY SizesAssumption DEF Init
<1>3. shown \in Seq(Showns)
  BY DEF Init
<1>4. page \in Page /\ opts \in Options
  BY PagesAssumption, OptionsAssumption DEF Init
<1>5. TypeOK
  BY <1>2, <1>3, <1>4 DEF Init, TypeOK, Showns, SpecialTypes
<1> QED
  BY <1>1, <1>5 DEF IInv

\* Every step keeps it.
LEMMA InvStep == IInv /\ [Next]_vars => IInv'
<1> SUFFICES ASSUME IInv, [Next]_vars PROVE IInv'
  OBVIOUS
<1>1. CASE Next
  <2>1. CASE \/ Classify \/ DumpRaw \/ HeaderCut
             \/ StatedBeyondBlock \/ FormatHeader
    BY <1>1, <2>1, PlaceKept, HeaderTyped DEF IInv
  <2>2. CASE FormatItemBlock
    BY <1>1, <2>2, PlaceKept, LoopTyped, NodesTyped DEF IInv, FormatItemBlock
  <2>3. CASE NoSpecial \/ FormatSpecial
    BY <1>1, <2>3, PlaceKept, SpecialTyped DEF IInv
  <2>4. CASE Ended
    BY <1>1, <2>4, PlaceKept DEF Ended, vars, IInv, TypeOK
  <2> QED
    BY <1>1, <2>1, <2>2, <2>3, <2>4 DEF Next
<1>2. CASE UNCHANGED vars
  BY <1>2 DEF vars, IInv, TypeOK, Considered, TupleAtHand, AtItems, MaxOffset,
     ArrayEnd, Fits, Current, SpecialSectionType, SmallSection, LargeSection,
     Full, SpecialSize
<1> QED
  BY <1>1, <1>2

\* It is an invariant.
LEMMA InvHolds == Spec => []IInv
<1> QED
  BY InvInit, InvStep, PTL DEF Spec

-----------------------------------------------------------------------------
(* Every variable keeps its type, whatever the pages hold.                 *)
THEOREM TypeCorrect == Spec => []TypeOK
<1>1. IInv => TypeOK
  BY DEF IInv
<1> QED
  BY <1>1, InvHolds, PTL

(* A page with the marks of its access method is never taken for one of    *)
(* another, for every size of the block larger than the page header.       *)
THEOREM KindFound == Spec => []TakenForWhatItIs
<1>1. ASSUME IInv PROVE TakenForWhatItIs
  <2> SUFFICES ASSUME pc # "classify", Full, Marked(page)
               PROVE  specialType = Kind(page)
    BY DEF TakenForWhatItIs
  <2>1. page \in Page /\ page.method \in Methods /\ page.special \in Nat
    BY <1>1, PageTyped DEF IInv, TypeOK, Page
  <2>2. specialType = SpecialSectionType
    BY <1>1 DEF IInv, Considered
  <2>3. SpecialSize \in {0, SmallOpaque, LargeOpaque}
    BY <2>1 DEF Marked, SpecialSize, Methods
  <2>4. page.special \in Nat \ {0} /\ page.special <= BlockSize
    BY <2>1, <2>3, SizesAssumption DEF SpecialSize, SmallOpaque, LargeOpaque
  <2>5. SpecialSectionType =
          IF SpecialSize = 0 THEN "none"
          ELSE IF SpecialSize = SmallOpaque THEN SmallSection ELSE LargeSection
    BY <2>3, <2>4, Sizes, SizesAssumption
    DEF SpecialSectionType, Full, SmallOpaque, LargeOpaque
  <2>6. page.opaque.last \in Nat
    BY <2>1 DEF Page, Opaque
  <2>7. CASE page.method = "heap"
    BY <2>2, <2>5, <2>7 DEF Marked, Kind, SpecialSize
  <2>8. CASE page.method \in {"sequence", "gin", "spgist"}
    BY <2>2, <2>5, <2>6, <2>8
    DEF Marked, Kind, SpecialSize, SmallSection, SmallOpaque, SpgistPageId
  <2>9. CASE page.method \in {"btree", "hash", "gist"}
    BY <2>2, <2>5, <2>6, <2>9
    DEF Marked, Kind, SpecialSize, LargeSection, SmallOpaque, LargeOpaque,
        MaxBtCycleId, HashoPageId, GistPageId
  <2> QED
    BY <2>1, <2>7, <2>8, <2>9 DEF Methods
<1> QED
  BY <1>1, InvHolds, PTL
(* What is dumped was read, except behind the array of a B-tree meta page  *)
(* and in the special section of a block that was read in part.            *)
THEOREM DumpsStayInside == Spec => []DumpsWhatWasRead
<1>1. Init => DumpsWhatWasRead
  BY DEF Init, DumpsWhatWasRead
<1>2. ASSUME IInv, DumpsWhatWasRead, [Next]_vars PROVE DumpsWhatWasRead'
  <2>0. /\ UNCHANGED <<page, bytesToFormat>>
        /\ IInv /\ TypeOK /\ bytesToFormat \in Nat
        /\ bytesToFormat <= BlockSize /\ BlockSize \in Nat
    BY <1>2, PageTyped, Sizes
    DEF IInv, Next, FormatItemBlock, vars, Classify, DumpRaw, HeaderCut,
        StatedBeyondBlock, FormatHeader, ItemsDone, ItemBeyondBlock,
        ItemNotDetailed, ItemTooShort, SizedItem, HeapItem, InnerDiffers,
        InnerUnaligned, InnerItem, Node, NodesDone, NoSpecial, FormatSpecial,
        Ended
  <2> DEFINE Allowed(d) == \/ d.start + d.size <= bytesToFormat
                           \/ d.what = "header" /\ IsBtreeMetaPage
                           \/ d.what = "special" /\ ~Full
                                /\ d.start + d.size <= BlockSize
  <2>1. SUFFICES ASSUME NEW d \in dumped', d \notin dumped
                 PROVE  Allowed(d)
    BY <1>2, <2>0 DEF DumpsWhatWasRead, IsBtreeMetaPage, Full
  <2>2. ASSUME NextItem, AtItems, x <= MaxOffset, Fits PROVE Allowed(d)
    <3>1. Current.off \in Nat /\ Current.len \in Nat
      BY <2>0, <2>2, ItemTyped DEF IInv
    <3> QED
      BY <2>1, <2>2, <3>1, DumpAdds DEF NextItem, Fits
  <2>3. CASE DumpRaw
    BY <2>0, <2>1, <2>3 DEF DumpRaw
  <2>4. CASE HeaderCut
    <3>1. d = [what |-> "header", start |-> 0, size |-> bytesToFormat]
      BY <2>0, <2>1, <2>4, DumpAdds DEF HeaderCut
    <3> QED
      BY <2>0, <3>1
  <2>5. CASE FormatHeader
    <3>1. ArrayEnd \in Nat
      BY <2>0, PageTyped
    <3>2. HeaderBytes \in Nat
      BY <2>0, <3>1, Sizes DEF HeaderBytes
    <3>3. d = [what |-> "header", start |-> 0, size |-> HeaderBytes]
      BY <2>1, <2>5, <3>2, DumpAdds DEF FormatHeader
    <3> QED
      BY <2>0, <3>1, <3>3 DEF HeaderBytes
  <2>6. CASE ItemNotDetailed
    BY <2>2, <2>6 DEF ItemNotDetailed, AtItem, AtItems
  <2>7. CASE ItemTooShort
    BY <2>2, <2>7 DEF ItemTooShort, AtItem, AtItems
  <2>8. CASE SizedItem
    BY <2>2, <2>8 DEF SizedItem, Interpreted, AtItem, AtItems
  <2>9. CASE HeapItem \/ InnerDiffers \/ InnerUnaligned
    BY <2>2, <2>9 DEF HeapItem, InnerDiffers, InnerUnaligned, Interpreted, AtItem, AtItems
  <2>10. CASE InnerItem
    <3>1. Interpreted("inner") /\ AtItems /\ x <= MaxOffset /\ Fits
      BY <2>10 DEF InnerItem, Interpreted, AtItem, AtItems
    <3> DEFINE n == IF InnerHeader + Current.tuple.prefix <= Current.len
                      THEN InnerHeader + Current.tuple.prefix ELSE 0
    <3>2. Current.off \in Nat /\ Current.len \in Nat /\ n \in Nat /\ n <= Current.len
      BY <2>0, <3>1, TupleTyped DEF InnerHeader
    <3>3. Dump("prefix", Current.off, n)
      BY <2>10 DEF InnerItem
    <3>4. d = [what |-> "prefix", start |-> Current.off, size |-> n]
      BY <2>1, <3>2, <3>3, DumpAdds
    <3> HIDE DEF n
    <3> QED
      BY <2>0, <3>1, <3>2, <3>4 DEF Fits
  <2>11. CASE Node
    <3>1. /\ Fits /\ NodeSize \in Nat /\ off \in Nat
          /\ Current.off \in Nat /\ Current.len \in Nat
      BY <2>0, <2>11, NodeTyped DEF Node
    <3> DEFINE n == IF off + NodeSize <= Current.len THEN NodeSize ELSE 0
    <3>2. n \in Nat /\ Dump("node", Current.off + off, n)
      BY <2>11, <3>1 DEF Node
    <3>3. /\ d = [what |-> "node", start |-> Current.off + off, size |-> n]
          /\ n > 0
      BY <2>1, <3>1, <3>2, DumpAdds
    <3> QED
      BY <2>0, <3>1, <3>3 DEF Fits
  <2>12. CASE NodesDone
    BY <2>0, <2>2, <2>12 DEF NodesDone, AtItems, IInv, TupleAtHand
  <2>13. CASE FormatSpecial
    <3>1. page.special \in Nat /\ SpecialSize \in Int
      BY <2>0, PageTyped DEF SpecialSize
    <3>2. d = [what |-> "special", start |-> page.special,
               size |-> IF SpecialSize >= 0 THEN SpecialSize ELSE 0]
            /\ SpecialSize > 0
      BY <2>1, <2>13, <3>1, DumpAdds DEF FormatSpecial
    <3> QED
      BY <2>0, <3>1, <3>2 DEF SpecialSize, Full
  <2>14. CASE dumped' = dumped
    BY <2>1, <2>14
  <2> QED
    BY <1>2, <2>3, <2>4, <2>5, <2>6, <2>7, <2>8, <2>9, <2>10, <2>11, <2>12,
       <2>13, <2>14
    DEF Next, FormatItemBlock, vars, Classify, StatedBeyondBlock, ItemsDone,
        ItemBeyondBlock, NoSpecial, Ended
<1> QED
  BY <1>1, <1>2, InvHolds, PTL DEF Spec
-----------------------------------------------------------------------------
(* A dump without an error.                                                *)

\* The loop goes on past an item that was sound or an error.
LEMMA PastItem ==
  ASSUME IInv, SoundSoFar, AtItems, x' = x + 1, pc' = "items",
         UNCHANGED <<page, opts, bytesToFormat, specialType>>,
         exitCode' = 0 => exitCode = 0,
         exitCode' = 0 /\ Detailed => SoundItem(page.items[x])
  PROVE  SoundSoFar'
<1> SUFFICES ASSUME exitCode' = 0, Detailed PROVE
      /\ page.version = LayoutVersion
      /\ ArrayEnd <= bytesToFormat /\ page.upper <= page.special
      /\ \A n \in 1..(x' - 1) : SoundItem(page.items[n])
  BY DEF SoundSoFar, AtItems, Detailed, ArrayEnd, MaxOffset, SoundItem
<1>1. x \in Nat /\ x >= 1
  BY DEF IInv, TypeOK, TupleAtHand
<1>2. /\ page.version = LayoutVersion
      /\ ArrayEnd <= bytesToFormat /\ page.upper <= page.special
      /\ \A n \in 1..(x - 1) : SoundItem(page.items[n])
  BY DEF SoundSoFar
<1>3. SoundItem(page.items[x])
  OBVIOUS
<1>4. \A n \in 1..(x' - 1) : n \in 1..(x - 1) \/ n = x
  BY <1>1
<1> QED
  BY <1>2, <1>3, <1>4

\* The size of an item of each kind is the one its page asks for.
LEMMA SoundByKind ==
  ASSUME Detailed, Fits,
         \/ FormatAs \in {"index", "leaf", "inner"} /\ Current.tuple.size = Current.len
         \/ FormatAs = "heap" /\ ComputedLength(Current.tuple) = Current.tuple.hoff
  PROVE  SoundItem(page.items[x])
<1>1. CASE FormatAs \in {"index", "leaf", "inner"} /\ Current.tuple.size = Current.len
  BY <1>1 DEF Detailed, FormatAs, IndexTypes, SoundItem, Fits, Current
<1>2. CASE FormatAs = "heap" /\ ComputedLength(Current.tuple) = Current.tuple.hoff
  BY <1>2 DEF Detailed, FormatAs, IndexTypes, SoundItem, Fits, Current
<1> QED
  BY <1>1, <1>2

\* Every step that finds no error keeps what was found sound.
LEMMA SoundStep ==
  ASSUME IInv, SoundSoFar, Next
  PROVE  SoundSoFar'
<1>0. IInv /\ TypeOK /\ SoundSoFar
  BY DEF IInv
<1>1. CASE Classify \/ DumpRaw
  BY <1>1 DEF Classify, DumpRaw, SoundSoFar, AtItems
<1>2. CASE HeaderCut \/ StatedBeyondBlock
  BY <1>2 DEF HeaderCut, StatedBeyondBlock, SoundSoFar, AtItems
<1>3. CASE FormatHeader
  <2>1. ArrayEnd \in Nat /\ bytesToFormat \in Nat /\ x \in Nat
    BY <1>0, PageTyped DEF TypeOK
  <2>2. x = 1
    BY <1>0, <1>3 DEF IInv, TupleAtHand, FormatHeader
  <2>3. ASSUME exitCode' = 0
        PROVE  /\ pc' \in {"items", "special"}
               /\ pc' = "special" => IsBtreeMetaPage
               /\ page.version = LayoutVersion
               /\ ArrayEnd <= bytesToFormat /\ page.upper <= page.special
    BY <1>3, <2>1, <2>3 DEF FormatHeader, HeaderValid
  <2>4. UNCHANGED <<page, opts, bytesToFormat, specialType, x>>
    BY <1>3 DEF FormatHeader
  <2> QED
    BY <2>2, <2>3, <2>4
    DEF SoundSoFar, AtItems, ArrayEnd, MaxOffset, IsBtreeMetaPage, Full
<1>4. CASE ItemsDone
  <2>1. MaxOffset \in Nat /\ x \in Nat
    BY <1>0, PageTyped DEF TypeOK
  <2>2. \A n \in 1..MaxOffset : n \in 1..(x - 1)
    BY <1>4, <2>1 DEF ItemsDone
  <2> QED
    BY <1>0, <1>4, <2>2
    DEF ItemsDone, SoundSoFar, AtItems, Detailed, ArrayEnd, MaxOffset, SoundItem
<1>5. CASE ItemBeyondBlock
  BY <1>5 DEF ItemBeyondBlock, AtItem, SoundSoFar
<1>6. CASE ItemNotDetailed
  BY <1>6 DEF ItemNotDetailed, AtItem, SoundSoFar, Detailed
<1>7. CASE ItemTooShort
  <2>1. /\ AtItems /\ x' = x + 1 /\ pc' = "items" /\ Fits /\ Current.len \in Nat
        /\ UNCHANGED <<page, opts, bytesToFormat, specialType>>
    BY <1>0, <1>7, ItemTyped DEF ItemTooShort, AtItem, AtItems, NextItem, IInv
  <2>2. exitCode' = 0 => exitCode = 0 /\ ~(Current.len > 0)
    BY <1>7 DEF ItemTooShort
  <2>3. ~(Current.len > 0) => SoundItem(page.items[x])
    BY <2>1 DEF SoundItem, Fits, Current
  <2> QED
    BY <1>0, <2>1, <2>2, <2>3, PastItem
<1>8. CASE SizedItem
  <2>1. /\ AtItems /\ x' = x + 1 /\ pc' = "items" /\ Fits
        /\ UNCHANGED <<page, opts, bytesToFormat, specialType>>
        /\ FormatAs \in {"index", "leaf", "inner"}
    BY <1>8 DEF SizedItem, Interpreted, AtItem, AtItems, NextItem
  <2>2. exitCode' = 0 => exitCode = 0 /\ Current.tuple.size = Current.len
    BY <1>8 DEF SizedItem
  <2> QED
    BY <1>0, <2>1, <2>2, PastItem, SoundByKind
<1>9. CASE HeapItem
  <2>1. /\ AtItems /\ x' = x + 1 /\ pc' = "items" /\ Fits
        /\ UNCHANGED <<page, opts, bytesToFormat, specialType>>
        /\ FormatAs = "heap"
    BY <1>9 DEF HeapItem, Interpreted, AtItem, AtItems, NextItem
  <2>2. exitCode' = 0 =>
          exitCode = 0 /\ ComputedLength(Current.tuple) = Current.tuple.hoff
    BY <1>9 DEF HeapItem
  <2> QED
    BY <1>0, <2>1, <2>2, PastItem, SoundByKind
<1>10. CASE InnerDiffers
  BY <1>10 DEF InnerDiffers, SoundSoFar
<1>11. CASE InnerUnaligned
  <2>1. /\ AtItems /\ x' = x + 1 /\ pc' = "items" /\ Fits
        /\ UNCHANGED <<page, opts, bytesToFormat, specialType, exitCode>>
        /\ FormatAs = "inner" /\ Current.tuple.size = Current.len
    BY <1>11 DEF InnerUnaligned, Interpreted, AtItem, AtItems, NextItem
  <2> QED
    BY <1>0, <2>1, PastItem, SoundByKind
<1>12. CASE InnerItem
  BY <1>0, <1>12
  DEF InnerItem, Interpreted, AtItem, SoundSoFar, AtItems, Detailed, ArrayEnd,
      MaxOffset, SoundItem, FormatAs
<1>13. CASE Node
  BY <1>0, <1>13
  DEF Node, NodeAtHand, SoundSoFar, AtItems, Detailed, ArrayEnd, MaxOffset,
      SoundItem, FormatAs
<1>14. CASE NodesDone
  <2>1. /\ pc \in {"nodes", "nodesDone"} /\ x' = x + 1 /\ pc' = "items"
        /\ UNCHANGED <<page, opts, bytesToFormat, specialType, exitCode>>
    BY <1>14 DEF NodesDone, NextItem
  <2>2. AtItems /\ Fits /\ Current.tuple.size = Current.len
    BY <1>0, <2>1 DEF IInv, TupleAtHand, AtItems
  <2>3. exitCode = 0 /\ Detailed => FormatAs = "inner"
    BY <1>0, <2>1 DEF SoundSoFar
  <2> QED
    BY <1>0, <2>1, <2>2, <2>3, PastItem, SoundByKind
<1>15. CASE NoSpecial \/ FormatSpecial
  BY <1>15 DEF NoSpecial, FormatSpecial, SoundSoFar, AtItems
<1>16. CASE Ended
  BY <1>0, <1>16
  DEF Ended, SoundSoFar, AtItems, vars
<1> QED
  BY <1>1, <1>2, <1>3, <1>4, <1>5, <1>6, <1>7, <1>8, <1>9, <1>10, <1>11, <1>12,
     <1>13, <1>14, <1>15, <1>16 DEF Next, FormatItemBlock

\* The end of the dump.
LEMMA SilenceStep ==
  ASSUME IInv, SoundSoFar, SilenceMeansSound, Next
  PROVE  SilenceMeansSound'
<1>0. IInv /\ SoundSoFar /\ SilenceMeansSound
  OBVIOUS
<1> SUFFICES ASSUME pc' = "done" PROVE SilenceMeansSound'
  BY DEF SilenceMeansSound
<1>1. CASE DumpRaw
  BY <1>0, <1>1 DEF DumpRaw, IInv, Considered, SilenceMeansSound, Detailed
<1>2. CASE HeaderCut
  BY <1>2 DEF HeaderCut, SilenceMeansSound
<1>3. CASE FormatHeader
  <2>1. ArrayEnd \in Nat /\ bytesToFormat \in Nat
    BY <1>0, PageTyped DEF IInv
  <2>2. exitCode' = 1
    BY <1>3, <2>1 DEF FormatHeader
  <2> QED
    BY <2>2 DEF SilenceMeansSound
<1>4. CASE NoSpecial \/ FormatSpecial
  <2>1. /\ pc = "special"
        /\ UNCHANGED <<page, opts, bytesToFormat, specialType>>
        /\ exitCode' = 0 =>
             exitCode = 0 /\ specialType \notin {"unknown", "boundary"}
    BY <1>4 DEF NoSpecial, FormatSpecial
  <2> QED
    BY <1>0, <2>1
    DEF SoundSoFar, SilenceMeansSound, Detailed, ArrayEnd, MaxOffset, SoundItem,
        IsBtreeMetaPage, Full
<1>5. CASE Ended
  BY <1>0, <1>5
  DEF Ended, vars, SilenceMeansSound, Detailed, ArrayEnd, MaxOffset, SoundItem,
      IsBtreeMetaPage, Full
<1>6. ~(Classify \/ StatedBeyondBlock \/ FormatItemBlock)
  BY DEF Classify, StatedBeyondBlock, FormatItemBlock, ItemsDone, ItemBeyondBlock,
         ItemNotDetailed, ItemTooShort, SizedItem, HeapItem, InnerDiffers,
         InnerUnaligned, InnerItem, Node, NodesDone, AtItem, Interpreted, NextItem,
         NodeAtHand
<1> QED
  BY <1>1, <1>2, <1>3, <1>4, <1>5, <1>6 DEF Next

(* With -i, a dump that ends without an error is of a page whose header,   *)
(* line pointers and tuples are as they have to be: no later item and no   *)
(* later step hides an error found before.                                 *)
THEOREM SilenceTrusted == Spec => []SilenceMeansSound
<1>1. Init => SoundSoFar /\ SilenceMeansSound
  BY DEF Init, SoundSoFar, SilenceMeansSound, AtItems
<1>2. ASSUME IInv, SoundSoFar, SilenceMeansSound, [Next]_vars
      PROVE  SoundSoFar' /\ SilenceMeansSound'
  <2>1. CASE Next
    BY <1>2, <2>1, SoundStep, SilenceStep
  <2>2. CASE UNCHANGED vars
    BY <1>2, <2>2
    DEF vars, SoundSoFar, SilenceMeansSound, AtItems, Detailed, ArrayEnd,
        MaxOffset, SoundItem, IsBtreeMetaPage, Full, FormatAs
  <2> QED
    BY <1>2, <2>1, <2>2
<1> QED
  BY <1>1, <1>2, InvHolds, PTL DEF Spec
-----------------------------------------------------------------------------
(* Pages as the server leaves them.                                        *)

Asked == Full /\ AsWritten(page) /\ (opts.as = "auto" \/ ~opts.detail)

\* The header of such a page is valid, and all of its array was read.
LEMMA HeaderSound ==
  ASSUME IInv, Asked
  PROVE  /\ HeaderValid /\ ArrayEnd <= bytesToFormat
         /\ page.special <= BlockSize
<1>1. /\ page.lower \in Nat /\ page.upper \in Nat /\ page.special \in Nat
      /\ bytesToFormat = BlockSize
  BY PageTyped DEF IInv, Asked, Full
<1>2. /\ page.version = LayoutVersion
      /\ 24 <= page.lower /\ page.lower <= page.upper /\ page.upper <= page.special
  BY DEF Asked, AsWritten, HeaderSize
<1>3. page.method \in Methods
  BY DEF IInv, TypeOK, Page
<1>4. page.special <= BlockSize
  BY <1>1, <1>3, Sizes
  DEF Asked, AsWritten, Marked, Methods, SmallOpaque, LargeOpaque
<1>5. MaxOffset \in Nat /\ 24 + 4 * MaxOffset <= page.lower
  BY <1>1, <1>2 DEF MaxOffset, MaxOffsetOf, HeaderSize, PointerSize
<1> QED
  BY <1>1, <1>2, <1>4, <1>5, SizesAssumption
  DEF HeaderValid, ArrayEnd, HeaderSize, PointerSize

\* It is taken for what it is, and its items for what they are.
LEMMA KindSound ==
  ASSUME IInv, TakenForWhatItIs, Asked, pc # "classify"
  PROVE  /\ specialType = Kind(page) /\ specialType \notin {"unknown", "boundary"}
         /\ opts.detail =>
              /\ FormatAs = "heap" <=> HeapPage(page)
              /\ FormatAs = "inner" => page.method = "spgist" /\ ~page.opaque.leaf
<1>1. page.method \in Methods
  BY DEF IInv, TypeOK, Page
<1>2. specialType = Kind(page)
  BY DEF TakenForWhatItIs, Asked, AsWritten
<1> QED
  BY <1>1, <1>2
  DEF Kind, Methods, FormatAs, IndexTypes, Asked, HeapPage

\* The length computed of a filled header is the one it states.
LEMMA LengthComputed ==
  ASSUME NEW t \in Tuple, HeaderFilled(t)
  PROVE  ComputedLength(t) = t.hoff
<1> DEFINE h == t.hoff
           n == IF t.nulls THEN t.natts ELSE 0
           o == IF t.oid THEN 4 ELSE 0
           b == BitmapLength(t)
<1>1. h \in Nat /\ n \in Nat /\ o \in Nat
  BY DEF Tuple
<1>2. b = (n + 7) \div 8
  BY <1>1 DEF BitmapLength
<1>3. h % 8 = 0 /\ n <= 8 * (h - 23 - o) /\ 8 * (h - 23 - o - 8) < n
  BY DEF HeaderFilled
<1>4. ComputedLength(t) = ((23 + b + o + 7) \div 8) * 8
  BY DEF ComputedLength, MaxAlign
<1> HIDE DEF h, n, o, b
<1>5. b \in Int /\ b <= h - 23 - o /\ h - 23 - o - 8 < b
  BY <1>1, <1>2, <1>3
<1>6. ((23 + b + o + 7) \div 8) * 8 = h
  BY <1>1, <1>3, <1>5
<1> QED
  BY <1>4, <1>6 DEF h

\* An item of such a page is inside the block, and of the size and header
\* length it says.
LEMMA ItemWritten ==
  ASSUME IInv, TakenForWhatItIs, Asked, AtItems, x <= MaxOffset, ~IsBtreeMetaPage
  PROVE  /\ Fits
         /\ opts.detail /\ Current.len > 0 =>
              /\ Current.len >= LeastBytes[FormatAs]
              /\ FormatAs = "heap" =>
                   ComputedLength(Current.tuple) = Current.tuple.hoff
              /\ FormatAs # "heap" => Current.tuple.size = Current.len
<1>1. /\ x \in 1..Len(page.items) /\ Current.off \in Nat /\ Current.len \in Nat
      /\ Current.tuple \in Tuple
  BY ItemTyped DEF IInv
<1>2. /\ page.special \in Nat /\ page.upper \in Nat /\ page.special <= BlockSize
      /\ bytesToFormat = BlockSize /\ BlockSize \in Nat
  BY PageTyped, HeaderSound, Sizes DEF IInv, Asked, Full
<1>3. ~(page.method = "btree" /\ page.opaque.meta)
  <2> SUFFICES ASSUME page.method = "btree", page.opaque.meta PROVE FALSE
    OBVIOUS
  <2>1. BlockSize - page.special = LargeOpaque /\ page.opaque.last <= MaxBtCycleId
    BY DEF Asked, AsWritten, Marked
  <2>2. page.special = BlockSize - LargeOpaque
    BY <1>2, <2>1 DEF LargeOpaque
  <2>3. page.opaque.cycle = page.opaque.last
    BY <2>2, PagesAssumption DEF IInv, Considered
  <2> QED
    BY <2>1, <2>3 DEF IsBtreeMetaPage, Asked, AsWritten
<1>4. WellFormed(page, Current)
  BY <1>1, <1>3 DEF Asked, AsWritten, Current
<1>5. Fits
  BY <1>1, <1>2, <1>4 DEF Fits, WellFormed
<1>6. ASSUME opts.detail, Current.len > 0
      PROVE  /\ Current.len >= LeastBytes[FormatAs]
             /\ FormatAs = "heap" =>
                  ComputedLength(Current.tuple) = Current.tuple.hoff
             /\ FormatAs # "heap" => Current.tuple.size = Current.len
  <2>1. /\ FormatAs = "heap" <=> HeapPage(page)
        /\ FormatAs \in {"index", "heap", "leaf", "inner"}
    BY <1>6, KindSound, Forms DEF AtItems, IInv
  <2>2. /\ HeapPage(page) => Current.len >= 24 /\ HeaderFilled(Current.tuple)
        /\ ~HeapPage(page) => Current.tuple.size = Current.len /\ Current.len >= 16
    BY <1>1, <1>4, <1>6 DEF WellFormed
  <2> QED
    BY <1>1, <2>1, <2>2, LengthComputed DEF LeastBytes, InnerHeader
<1> QED
  BY <1>5, <1>6

\* No step on such a page finds an error.
LEMMA AlarmStep ==
  ASSUME IInv, TakenForWhatItIs, NotMeta, NoFalseAlarm, Next
  PROVE  NoFalseAlarm' /\ NotMeta'
<1>0. /\ UNCHANGED <<page, opts, bytesToFormat>>
      /\ pc = "classify" \/ UNCHANGED specialType
  BY DEF Next, FormatItemBlock, vars, Classify, DumpRaw, HeaderCut,
     StatedBeyondBlock, FormatHeader, ItemsDone, ItemBeyondBlock,
     ItemNotDetailed, ItemTooShort, SizedItem, HeapItem, InnerDiffers,
     InnerUnaligned, InnerItem, Node, NodesDone, NoSpecial, FormatSpecial, Ended
<1>1. NotMeta'
  BY <1>0
  DEF NotMeta, AtItems, IsBtreeMetaPage, Full, Next, FormatItemBlock, vars,
     Classify, DumpRaw, HeaderCut,
     StatedBeyondBlock, FormatHeader, ItemsDone, ItemBeyondBlock, NextItem, AtItem,
     ItemNotDetailed, ItemTooShort, SizedItem, HeapItem, InnerDiffers, Interpreted,
     NodeAtHand,
     InnerUnaligned, InnerItem, Node, NodesDone, NoSpecial, FormatSpecial, Ended
<1> SUFFICES ASSUME Asked PROVE exitCode' = 0
  BY <1>0, <1>1 DEF NoFalseAlarm, Asked, Full, AsWritten, Marked
<1>2. exitCode = 0
  BY DEF NoFalseAlarm, Asked
<1>3. CASE HeaderCut \/ FormatHeader
  <2>1. bytesToFormat = BlockSize
    BY DEF Asked, Full
  <2> QED
    BY <1>2, <1>3, <2>1, HeaderSound, SizesAssumption
    DEF HeaderCut, FormatHeader, HeaderSize
<1>4. CASE ItemBeyondBlock \/ ItemTooShort \/ SizedItem \/ HeapItem \/ InnerDiffers
  <2>1. AtItems /\ x <= MaxOffset /\ ~IsBtreeMetaPage /\ TypeOK
    BY <1>4 DEF ItemBeyondBlock, ItemTooShort, SizedItem, HeapItem, InnerDiffers,
                Interpreted, AtItem, AtItems, NotMeta, IInv
  <2>2. Current.len \in Nat
    BY <2>1, ItemTyped DEF IInv
  <2>3. /\ Fits
        /\ opts.detail /\ Current.len > 0 =>
             /\ Current.len >= LeastBytes[FormatAs]
             /\ FormatAs = "heap" =>
                  ComputedLength(Current.tuple) = Current.tuple.hoff
             /\ FormatAs # "heap" => Current.tuple.size = Current.len
    BY <2>1, ItemWritten
  <2>4. LeastBytes[FormatAs] \in Nat /\ LeastBytes[FormatAs] > 0
    BY <2>1, Forms DEF LeastBytes, InnerHeader
  <2>5. CASE ItemBeyondBlock
    BY <2>3, <2>5 DEF ItemBeyondBlock
  <2>6. CASE ItemTooShort
    BY <1>2, <2>2, <2>3, <2>4, <2>6 DEF ItemTooShort
  <2>7. CASE SizedItem
    BY <1>2, <2>2, <2>3, <2>4, <2>7 DEF SizedItem, Interpreted
  <2>8. CASE HeapItem
    BY <1>2, <2>2, <2>3, <2>4, <2>8 DEF HeapItem, Interpreted
  <2>9. CASE InnerDiffers
    BY <2>2, <2>3, <2>4, <2>9 DEF InnerDiffers, Interpreted
  <2> QED
    BY <1>4, <2>5, <2>6, <2>7, <2>8, <2>9
<1>5. CASE FormatSpecial
  BY <1>2, <1>5, KindSound DEF FormatSpecial
<1>6. CASE UNCHANGED exitCode
  BY <1>2, <1>6
<1> QED
  BY <1>3, <1>4, <1>5, <1>6
  DEF Next, FormatItemBlock, vars, Classify, DumpRaw, StatedBeyondBlock,
      ItemsDone, ItemNotDetailed, InnerUnaligned, InnerItem, Node, NodesDone,
      NoSpecial, Ended

(* A whole page as its access method leaves it is dumped without an error, *)
(* whatever the number of items, for every block size.                     *)
THEOREM NoAlarm == Spec => []NoFalseAlarm
<1>1. Init => NoFalseAlarm /\ NotMeta
  BY DEF Init, NoFalseAlarm, NotMeta, AtItems
<1>2. ASSUME IInv, TakenForWhatItIs, NotMeta, NoFalseAlarm, [Next]_vars
      PROVE  NoFalseAlarm' /\ NotMeta'
  <2>1. CASE Next
    BY <1>2, <2>1, AlarmStep
  <2>2. CASE UNCHANGED vars
    BY <1>2, <2>2
    DEF vars, NoFalseAlarm, NotMeta, AtItems, IsBtreeMetaPage, Full, AsWritten, Marked
  <2> QED
    BY <1>2, <2>1, <2>2
<1> QED
  BY <1>1, <1>2, InvHolds, KindFound, PTL DEF Spec

-----------------------------------------------------------------------------
(* What is shown of such a page.                                           *)

\* The members of a sequence of naturals.
LEMMA NatMembers ==
  ASSUME NEW s \in Seq(Nat)
  PROVE  Len(s) \in Nat /\ \A n \in 1..Len(s) : s[n] \in Nat
OBVIOUS

\* Where the nodes of an inner tuple end.
LEMMA NodesSteps ==
  ASSUME NEW t \in Tuple
  PROVE  /\ NodesUpTo(t, 0) = InnerHeader + t.prefix
         /\ \A n \in 1..Len(t.nodes) :
              NodesUpTo(t, n) = NodesUpTo(t, n - 1) + t.nodes[n]
         /\ \A n \in 0..Len(t.nodes) : NodesUpTo(t, n) \in Nat
<1> DEFINE N == Len(t.nodes)
           V == Nat
           B == InnerHeader + t.prefix
           After(m, v) == v + t.nodes[m]
           step == [m \in 1..N |-> [v \in V |-> After(m, v)]]
           g == CHOOSE g : g = [m \in 0..N |->
                                  IF m = 0 THEN B ELSE After(m, g[m - 1])]
<1>1. N \in Nat
  BY DEF Tuple
<1>2. \A m \in 1..N : \A v \in V : After(m, v) \in V
  <2>1. t.nodes \in Seq(Nat)
    BY DEF Tuple
  <2>2. \A m \in 1..N : t.nodes[m] \in Nat
    BY <2>1
  <2> QED
    BY <2>2
<1>3. B \in V
  BY DEF Tuple, InnerHeader
<1> HIDE DEF N, V, B, After
<1>4. PICK f : Recurs(f, N, V, B, step)
  <2>1. step \in [1..N -> [V -> V]]
    BY <1>2
  <2> HIDE DEF step
  <2> QED
    BY <1>1, <1>3, <2>1, StepByStep
<1>5. f = [m \in 0..N |-> IF m = 0 THEN B ELSE After(m, f[m - 1])]
  <2>1. /\ f \in [0..N -> V] /\ f[0] = B
        /\ \A m \in 1..N : f[m] = step[m][f[m - 1]]
    BY <1>4 DEF Recurs
  <2>2. \A m \in 1..N : f[m - 1] \in V
    BY <1>1, <2>1
  <2>3. \A m \in 1..N : f[m] = After(m, f[m - 1])
    BY <2>1, <2>2
  <2> HIDE DEF step
  <2> QED
    BY <1>1, <2>1, <2>3
<1>6. g[0] = B /\ \A m \in 1..N : g[m] = After(m, g[m - 1])
  <2>1. g = [m \in 0..N |-> IF m = 0 THEN B ELSE After(m, g[m - 1])]
    BY <1>5
  <2> HIDE DEF g
  <2> QED
    BY <1>1, <2>1
<1>7. \A m \in 0..N : g[m] \in V
  <2> HIDE DEF g
  <2>1. g[0] \in V
    BY <1>3, <1>6
  <2>2. \A m \in 1..N : g[m - 1] \in V => g[m] \in V
    BY <1>2, <1>6
  <2> QED
    BY <1>1, <2>1, <2>2, StepsStayIn, Zenon
<1>8. \A m : NodesUpTo(t, m) = g[m]
  BY DEF NodesUpTo, After, N, B
<1> HIDE DEF g
<1> QED
  BY <1>6, <1>7, <1>8 DEF After, N, V, B

\* No node ends behind the last.
LEMMA NodesGrow ==
  ASSUME NEW t \in Tuple, NEW n \in 0..Len(t.nodes)
  PROVE  NodesUpTo(t, n) <= NodesEnd(t)
<1> DEFINE N == Len(t.nodes)
           U(m) == NodesUpTo(t, m)
           S == {m \in 0..N : \A j \in 0..m : U(j) <= U(m)}
<1>1. /\ N \in Nat /\ t.nodes \in Seq(Nat)
      /\ \A m \in 1..N : U(m) = U(m - 1) + t.nodes[m]
      /\ \A m \in 0..N : U(m) \in Nat
  BY NodesSteps DEF Tuple
<1>2. 0 \in S
  <2>1. \A j \in 0..0 : j = 0
    OBVIOUS
  <2> HIDE DEF N, U
  <2> QED
    BY <1>1, <2>1
<1>3. ASSUME NEW m \in 0..(N - 1), m \in S PROVE m + 1 \in S
  <2>1. m + 1 \in 1..N /\ m + 1 \in 0..N /\ m \in 0..N /\ (m + 1) - 1 = m
    BY <1>1
  <2>2. t.nodes[m + 1] \in Nat
    <3>1. \A k \in 1..N : t.nodes[k] \in Nat
      BY <1>1, NatMembers
    <3> QED
      BY <2>1, <3>1
  <2>3. U(m + 1) = U(m) + t.nodes[m + 1] /\ U(m) \in Nat /\ U(m + 1) \in Nat
    BY <1>1, <2>1
  <2>4. ASSUME NEW j \in 0..(m + 1) PROVE U(j) <= U(m + 1)
    <3>1. j = m + 1 \/ (j \in 0..m /\ j \in 0..N)
      BY <2>1
    <3> HIDE DEF U, N
    <3> QED
      BY <1>1, <1>3, <2>2, <2>3, <3>1
  <2> QED
    BY <2>1, <2>4
<1>4. N \in S
  <2> HIDE DEF S
  <2>1. \A m \in 0..N : m \in S
    BY <1>1, <1>2, <1>3, InductionUpTo
  <2> QED
    BY <1>1, <2>1
<1> QED
  BY <1>1, <1>4 DEF NodesEnd

Entry(p, m) ==
  [item |-> m, how |-> Form(p),
   nodes |-> IF Form(p) = "inner" THEN Len(p.items[m].tuple.nodes) ELSE 0]

\* The interpretations due, item by item.
LEMMA InterpretedSteps ==
  ASSUME NEW p \in Page
  PROVE  /\ InterpretedUpTo(p, 0) = <<>>
         /\ \A n \in 1..Len(p.items) :
              InterpretedUpTo(p, n) =
                IF p.items[n].len = 0 THEN InterpretedUpTo(p, n - 1)
                ELSE Append(InterpretedUpTo(p, n - 1), Entry(p, n))
<1> DEFINE N == Len(p.items)
           V == Seq(Showns)
           After(m, v) == IF p.items[m].len = 0 THEN v ELSE Append(v, Entry(p, m))
           step == [m \in 1..N |-> [v \in V |-> After(m, v)]]
           g == CHOOSE g : g = [m \in 0..N |->
                                  IF m = 0 THEN <<>> ELSE After(m, g[m - 1])]
<1>1. N \in Nat
  BY DEF Page
<1>2. \A m \in 1..N : \A v \in V : After(m, v) \in V
  <2> SUFFICES ASSUME NEW m \in 1..N, NEW v \in V PROVE After(m, v) \in V
    OBVIOUS
  <2>1. p.items[m] \in Item
    BY DEF Page
  <2>2. Len(p.items[m].tuple.nodes) \in Nat
    <3>1. p.items[m].tuple.nodes \in Seq(Nat)
      BY <2>1 DEF Item, Tuple
    <3> QED
      BY <3>1, NatMembers
  <2>3. Form(p) \in {"index", "heap", "leaf", "inner"}
    BY DEF Form
  <2>4. Entry(p, m) \in Showns
    BY <1>1, <2>2, <2>3 DEF Entry, Showns
  <2> QED
    BY <2>4
<1>3. <<>> \in V
  OBVIOUS
<1> HIDE DEF N, V, After
<1>4. PICK f : Recurs(f, N, V, <<>>, step)
  <2>1. step \in [1..N -> [V -> V]]
    BY <1>2
  <2> HIDE DEF step
  <2> QED
    BY <1>1, <1>3, <2>1, StepByStep
<1>5. f = [m \in 0..N |-> IF m = 0 THEN <<>> ELSE After(m, f[m - 1])]
  <2>1. /\ f \in [0..N -> V] /\ f[0] = <<>>
        /\ \A m \in 1..N : f[m] = step[m][f[m - 1]]
    BY <1>4 DEF Recurs
  <2>2. \A m \in 1..N : f[m - 1] \in V
    BY <1>1, <2>1
  <2>3. \A m \in 1..N : f[m] = After(m, f[m - 1])
    BY <2>1, <2>2
  <2> HIDE DEF step
  <2> QED
    BY <1>1, <2>1, <2>3
<1>6. g[0] = <<>> /\ \A m \in 1..N : g[m] = After(m, g[m - 1])
  <2>1. g = [m \in 0..N |-> IF m = 0 THEN <<>> ELSE After(m, g[m - 1])]
    BY <1>5
  <2> HIDE DEF g
  <2> QED
    BY <1>1, <2>1
<1>8. \A m : InterpretedUpTo(p, m) = g[m]
  BY DEF InterpretedUpTo, After, N, Entry
<1> HIDE DEF g
<1> QED
  BY <1>6, <1>8 DEF After, N

Wanted == Full /\ AsWritten(page) /\ Detailed

(* What was shown so far is what is due for the items passed; inside an    *)
(* inner tuple, the walk is at the end of the nodes it has counted.        *)
ShownSoFar ==
  Wanted =>
    /\ pc \in {"classify", "header"} => shown = <<>>
    /\ AtItems => /\ ~IsBtreeMetaPage
                  /\ x - 1 <= MaxOffset
                  /\ shown = InterpretedUpTo(page, x - 1)
    /\ pc = "nodes" => /\ FormatAs = "inner" /\ Current.len > 0
                       /\ i <= Len(Current.tuple.nodes)
                       /\ off = NodesUpTo(Current.tuple, i)
    /\ pc # "nodesDone"
    /\ pc \in {"special", "done"} =>
         shown = IF IsBtreeMetaPage THEN <<>> ELSE Interpretation(page)

\* Such a page is one of those asked about without an error.
LEMMA WantedAsked == Wanted => Asked
BY DEF Wanted, Asked, Detailed

\* The page found to be a meta page is the meta page.
LEMMA MetaKnown ==
  ASSUME IInv, Asked
  PROVE  IsBtreeMetaPage <=> page.method = "btree" /\ page.opaque.meta
<1>1. /\ page.special \in Nat /\ page.opaque.last \in Nat /\ BlockSize \in Nat
      /\ page.method \in Methods
  BY PageTyped, Sizes DEF IInv, TypeOK, Page, Opaque
<1>2. Marked(page) /\ page.stated = BlockSize /\ Full
  BY DEF Asked, AsWritten
<1>3. BlockSize - page.special = LargeOpaque =>
        page.opaque.cycle = page.opaque.last
  <2> SUFFICES ASSUME BlockSize - page.special = LargeOpaque
               PROVE  page.opaque.cycle = page.opaque.last
    OBVIOUS
  <2>1. page.special = BlockSize - LargeOpaque
    BY <1>1 DEF LargeOpaque
  <2> QED
    BY <2>1, PagesAssumption DEF IInv, Considered
<1>4. ASSUME IsBtreeMetaPage PROVE page.method = "btree" /\ page.opaque.meta
  <2>1. /\ BlockSize - page.special = LargeOpaque
        /\ page.opaque.last <= MaxBtCycleId /\ page.opaque.meta
    BY <1>2, <1>3, <1>4 DEF IsBtreeMetaPage
  <2>2. page.method \notin {"heap", "spgist", "gin", "sequence"}
    BY <1>2, <2>1 DEF Marked, LargeOpaque, SmallOpaque
  <2>3. page.method \notin {"hash", "gist"}
    BY <1>2, <2>1 DEF Marked, MaxBtCycleId, HashoPageId, GistPageId
  <2> QED
    BY <1>1, <2>1, <2>2, <2>3 DEF Methods
<1>5. ASSUME page.method = "btree", page.opaque.meta PROVE IsBtreeMetaPage
  <2>1. BlockSize - page.special = LargeOpaque /\ page.opaque.last <= MaxBtCycleId
    BY <1>2, <1>5 DEF Marked
  <2> QED
    BY <1>2, <1>3, <1>5, <2>1 DEF IsBtreeMetaPage
<1> QED
  BY <1>4, <1>5

\* The item pointers counted are those of the page.
LEMMA AllCounted ==
  ASSUME IInv, Asked
  PROVE  Len(page.items) = MaxOffset
<1>1. ArrayEnd <= BlockSize /\ page \in Pages
  BY HeaderSound DEF Asked, Full, IInv, Considered
<1> QED
  BY <1>1, PagesAssumption DEF MaxOffset, ArrayEnd

\* Its items are read in the format of its access method.
LEMMA FormKnown ==
  ASSUME IInv, TakenForWhatItIs, Wanted, pc # "classify"
  PROVE  FormatAs = Form(page)
<1>1. page.method \in Methods
  BY DEF IInv, TypeOK, Page
<1>2. specialType = Kind(page) /\ opts.as = "auto"
  BY DEF TakenForWhatItIs, Wanted, AsWritten, Detailed
<1>3. CASE page.method \in IndexTypes
  BY <1>2, <1>3 DEF Kind, FormatAs, IndexTypes, Form
<1>4. CASE page.method = "spgist"
  BY <1>2, <1>4 DEF Kind, FormatAs, IndexTypes, Form
<1>5. CASE page.method \in {"heap", "sequence"}
  BY <1>2, <1>5 DEF Kind, FormatAs, IndexTypes, Form
<1> QED
  BY <1>1, <1>3, <1>4, <1>5 DEF Methods, IndexTypes

\* An inner tuple that holds anything is filled as the server fills it.
LEMMA InnerWritten ==
  ASSUME IInv, TakenForWhatItIs, Wanted, AtItems, x <= MaxOffset,
         ~IsBtreeMetaPage, FormatAs = "inner", Current.len > 0
  PROVE  InnerFilled(Current.tuple) /\ Current.tuple.size = Current.len
<1>1. Asked /\ opts.detail
  BY WantedAsked DEF Wanted, Detailed
<1>2. x \in 1..Len(page.items)
  BY ItemTyped DEF IInv
<1>3. page.method = "spgist" /\ ~page.opaque.leaf
  BY <1>1, KindSound DEF AtItems
<1>4. WellFormed(page, Current)
  BY <1>1, <1>2, <1>3 DEF Asked, AsWritten, Current
<1>5. Current.len \in Nat
  BY ItemTyped DEF IInv
<1> QED
  BY <1>3, <1>4, <1>5 DEF WellFormed, HeapPage

\* A multiple of 8 is aligned.
LEMMA Aligned == \A n \in Nat : n % 8 = 0 => MaxAlign(n) = n
BY DEF MaxAlign

\* The loop goes on behind an item of which what is due was shown.
LEMMA ItemShown ==
  ASSUME IInv, Asked, AtItems, x <= MaxOffset,
         shown = InterpretedUpTo(page, x - 1), x' = x + 1, page' = page,
         Current.len = 0 => shown' = shown,
         Current.len # 0 => shown' = Append(shown, Entry(page, x))
  PROVE  x' - 1 <= MaxOffset /\ shown' = InterpretedUpTo(page, x' - 1)
<1>1. x \in Nat /\ x \in 1..Len(page.items) /\ MaxOffset \in Nat /\ page \in Page
  BY ItemTyped, PageTyped DEF IInv, TypeOK
<1>2. InterpretedUpTo(page, x) =
        IF page.items[x].len = 0 THEN InterpretedUpTo(page, x - 1)
        ELSE Append(InterpretedUpTo(page, x - 1), Entry(page, x))
  BY <1>1, InterpretedSteps
<1>3. x' - 1 = x
  BY <1>1
<1> QED
  BY <1>2, <1>3 DEF Current

\* The items of such a page, one after the other.
LEMMA LoopShown ==
  ASSUME IInv, TakenForWhatItIs, Wanted, ShownSoFar,
         \/ ItemBeyondBlock \/ ItemNotDetailed \/ ItemTooShort \/ SizedItem
         \/ HeapItem \/ InnerDiffers \/ InnerUnaligned \/ NodesDone
  PROVE  /\ x' = x + 1 /\ pc' = "items"
         /\ x' - 1 <= MaxOffset /\ shown' = InterpretedUpTo(page, x' - 1)
<1>1. Asked /\ opts.detail /\ TypeOK /\ i \in Nat
  BY WantedAsked DEF Wanted, Detailed, IInv, TypeOK
<1>2. /\ AtItems /\ x <= MaxOffset /\ pc # "classify" /\ x' = x + 1
      /\ page' = page /\ pc' = "items"
  BY DEF ItemBeyondBlock, ItemNotDetailed, ItemTooShort, SizedItem, HeapItem,
         InnerDiffers, InnerUnaligned, NodesDone, Interpreted, AtItem, AtItems,
         NextItem, IInv, TupleAtHand
<1>3. ~IsBtreeMetaPage /\ shown = InterpretedUpTo(page, x - 1)
  BY <1>2 DEF ShownSoFar
<1>4. Fits /\ (Current.len > 0 =>
                 /\ Current.len >= LeastBytes[FormatAs]
                 /\ FormatAs # "heap" => Current.tuple.size = Current.len)
  BY <1>1, <1>2, <1>3, ItemWritten
<1>5. /\ FormatAs = Form(page) /\ FormatAs \in {"index", "heap", "leaf", "inner"}
      /\ LeastBytes[FormatAs] \in Nat /\ LeastBytes[FormatAs] > 0
  BY <1>1, <1>2, FormKnown, Forms DEF LeastBytes, InnerHeader
<1>6. Current.len \in Nat
  BY <1>2, ItemTyped DEF IInv
<1>7. /\ Current.len = 0 => shown' = shown
      /\ Current.len # 0 => shown' = Append(shown, Entry(page, x))
  <2>1. CASE ItemBeyondBlock \/ ItemNotDetailed
    BY <1>1, <1>4, <2>1 DEF ItemBeyondBlock, ItemNotDetailed
  <2>2. CASE ItemTooShort
    BY <1>4, <1>5, <1>6, <2>2 DEF ItemTooShort
  <2>3. CASE SizedItem
    <3>1. PICK how \in {"index", "leaf"} : Interpreted(how) /\ Show(how, 0)
      BY <2>3 DEF SizedItem
    <3>2. Form(page) = how /\ Form(page) # "inner" /\ Current.len # 0
      BY <1>5, <1>6, <3>1 DEF Interpreted
    <3> QED
      BY <3>1, <3>2 DEF Show, Entry
  <2>4. CASE HeapItem
    <3>1. Form(page) = "heap" /\ Current.len # 0
      BY <1>5, <1>6, <2>4 DEF HeapItem, Interpreted
    <3> QED
      BY <2>4, <3>1 DEF HeapItem, Show, Entry
  <2>5. CASE InnerDiffers
    <3>1. FormatAs = "inner" /\ Current.len > 0 /\ Current.tuple.size # Current.len
      BY <1>5, <1>6, <2>5 DEF InnerDiffers, Interpreted
    <3> QED
      BY <1>4, <3>1
  <2>6. CASE InnerUnaligned
    <3>1. FormatAs = "inner" /\ Current.len > 0
      BY <1>5, <1>6, <2>6 DEF InnerUnaligned, Interpreted
    <3>2. Current.tuple.prefix % 8 = 0
      BY <1>2, <1>3, <3>1, InnerWritten DEF InnerFilled
    <3>3. Current.tuple.prefix \in Nat
      BY <1>2, TupleTyped
    <3> QED
      BY <2>6, <3>2, <3>3, Aligned DEF InnerUnaligned
  <2>7. CASE NodesDone
    <3> DEFINE t == Current.tuple
    <3>1. /\ pc = "nodes" /\ FormatAs = "inner" /\ Current.len > 0
          /\ i <= Len(t.nodes) /\ off = NodesUpTo(t, i)
      BY <2>7 DEF NodesDone, ShownSoFar
    <3>2. InnerFilled(t) /\ t.size = Current.len
      BY <1>2, <1>3, <3>1, InnerWritten
    <3>3. t \in Tuple /\ Len(t.nodes) \in Nat /\ t.nodes \in Seq(Nat)
      <4>1. t \in Tuple
        BY <1>2, ItemTyped DEF IInv
      <4> QED
        BY <1>2, <4>1, TupleTyped DEF Tuple
    <3>4. i = Len(t.nodes)
      <4> SUFFICES ASSUME i # Len(t.nodes) PROVE FALSE
        OBVIOUS
      <4>1. i + 1 \in 1..Len(t.nodes) /\ i \in 0..Len(t.nodes)
             /\ i + 1 \in 0..Len(t.nodes) /\ (i + 1) - 1 = i
        BY <1>1, <3>1, <3>3
      <4>2. ~(off + NodeHeader <= Current.len)
        BY <2>7, <3>1 DEF NodesDone, NodeFits
      <4>3. NodesUpTo(t, i + 1) = NodesUpTo(t, i) + t.nodes[i + 1]
            /\ NodesUpTo(t, i) \in Nat /\ NodesUpTo(t, i + 1) \in Nat
        BY <3>3, <4>1, NodesSteps
      <4>4. NodesUpTo(t, i + 1) <= NodesEnd(t)
        BY <3>3, <4>1, NodesGrow
      <4>5. t.nodes[i + 1] >= NodeHeader /\ NodesEnd(t) <= t.size
        BY <3>2, <4>1 DEF InnerFilled
      <4>6. t.nodes[i + 1] \in Nat /\ t.size \in Nat /\ NodesEnd(t) \in Nat
        <5>1. Len(t.nodes) \in 0..Len(t.nodes)
          BY <3>3
        <5> QED
          BY <1>2, <3>3, <4>1, <5>1, NatMembers, NodesSteps DEF Tuple, NodesEnd
      <4> HIDE DEF t
      <4> QED
        BY <1>6, <3>1, <3>2, <4>2, <4>3, <4>4, <4>5, <4>6 DEF NodeHeader
    <3>5. Form(page) = "inner" /\ Current = page.items[x]
      BY <1>5, <3>1 DEF Current
    <3>6. Show("inner", i)
      BY <2>7 DEF NodesDone
    <3> QED
      BY <1>6, <3>1, <3>4, <3>5, <3>6 DEF Show, Entry
  <2> QED
    BY <2>1, <2>2, <2>3, <2>4, <2>5, <2>6, <2>7
<1> QED
  BY <1>1, <1>2, <1>3, <1>7, ItemShown

\* The walk along the nodes of an inner tuple.
LEMMA WalkShown ==
  ASSUME IInv, TakenForWhatItIs, Wanted, ShownSoFar, InnerItem \/ Node
  PROVE  /\ pc' = "nodes" /\ FormatAs = "inner" /\ Current.len > 0
         /\ i' <= Len(Current.tuple.nodes)
         /\ off' = NodesUpTo(Current.tuple, i')
         /\ ~IsBtreeMetaPage /\ x - 1 <= MaxOffset
         /\ shown = InterpretedUpTo(page, x - 1)
<1> DEFINE t == Current.tuple
<1>1. AtItems /\ x <= MaxOffset
  BY DEF InnerItem, Interpreted, AtItem, AtItems, Node, NodeAtHand, IInv, TupleAtHand
<1>2. /\ ~IsBtreeMetaPage /\ x - 1 <= MaxOffset
      /\ shown = InterpretedUpTo(page, x - 1)
  BY <1>1 DEF ShownSoFar
<1>3. Current.len \in Nat /\ t \in Tuple /\ i \in Nat
  BY <1>1, ItemTyped DEF IInv, TypeOK
<1>4. t.nodes \in Seq(Nat)
  BY <1>3 DEF Tuple
<1>5. FormatAs = "inner" /\ Current.len > 0
  <2>1. CASE InnerItem
    BY <1>3, <2>1 DEF InnerItem, Interpreted, LeastBytes, InnerHeader
  <2>2. CASE Node
    BY <2>2 DEF Node, NodeAtHand, ShownSoFar
  <2> QED
    BY <2>1, <2>2
<1>6. InnerFilled(t)
  BY <1>1, <1>2, <1>5, InnerWritten
<1>7. Len(t.nodes) \in Nat
  BY <1>4, NatMembers
<1>8. CASE InnerItem
  <2>1. i' = 0 /\ off' = InnerHeader + t.prefix /\ pc' = "nodes"
    BY <1>8 DEF InnerItem
  <2>2. NodesUpTo(t, 0) = InnerHeader + t.prefix
    BY <1>3, NodesSteps
  <2> QED
    BY <1>2, <1>5, <1>7, <2>1, <2>2
<1>9. CASE Node
  <2>1. /\ pc = "nodes" /\ i < Len(t.nodes) /\ i' = i + 1
        /\ off' = off + t.nodes[i + 1]
        /\ pc' = IF t.nodes[i + 1] = MaxAlign(t.nodes[i + 1]) THEN "nodes"
                 ELSE "nodesDone"
    BY <1>9 DEF Node, NodeAtHand, NodeSize
  <2>2. i + 1 \in 1..Len(t.nodes) /\ (i + 1) - 1 = i
    BY <1>3, <1>7, <2>1
  <2>3. t.nodes[i + 1] \in Nat /\ t.nodes[i + 1] % 8 = 0
    BY <1>4, <1>6, <2>2, NatMembers DEF InnerFilled
  <2>4. pc' = "nodes"
    BY <2>1, <2>3, Aligned
  <2>5. off = NodesUpTo(t, i)
    BY <2>1 DEF ShownSoFar
  <2>6. NodesUpTo(t, i + 1) = NodesUpTo(t, i) + t.nodes[i + 1]
    BY <1>3, <2>2, NodesSteps
  <2>7. i' <= Len(t.nodes)
    BY <1>3, <1>7, <2>1
  <2> HIDE DEF t
  <2>8. off' = NodesUpTo(t, i')
    BY <2>1, <2>5, <2>6
  <2> QED
    BY <1>2, <1>5, <2>4, <2>7, <2>8 DEF t
<1> QED
  BY <1>8, <1>9

\* Every step shows what is due.
LEMMA ShownStep ==
  ASSUME IInv, TakenForWhatItIs, ShownSoFar, Next
  PROVE  ShownSoFar'
<1>0. /\ UNCHANGED <<page, opts, bytesToFormat>>
      /\ pc = "classify" \/ UNCHANGED specialType
  BY DEF Next, FormatItemBlock, vars, Classify, DumpRaw, HeaderCut,
     StatedBeyondBlock, FormatHeader, ItemsDone, ItemBeyondBlock,
     ItemNotDetailed, ItemTooShort, SizedItem, HeapItem, InnerDiffers,
     InnerUnaligned, InnerItem, Node, NodesDone, NoSpecial, FormatSpecial, Ended
<1>1. /\ Wanted' <=> Wanted
      /\ IsBtreeMetaPage' <=> IsBtreeMetaPage
      /\ MaxOffset' = MaxOffset
  BY <1>0
  DEF Wanted, Full, AsWritten, Marked, Detailed, IsBtreeMetaPage, MaxOffset
<1>2. pc # "classify" => FormatAs' = FormatAs
  BY <1>0 DEF FormatAs
<1> SUFFICES ASSUME Wanted PROVE ShownSoFar'
  BY <1>1 DEF ShownSoFar
<1>3. Asked /\ ~opts.noInterpret /\ Full /\ page \in Page /\ TypeOK
  BY WantedAsked DEF Wanted, Detailed, IInv, TypeOK
<1>4. CASE Classify
  BY <1>3, <1>4 DEF Classify, ShownSoFar, AtItems
<1>5. CASE DumpRaw
  BY <1>3, <1>5 DEF DumpRaw, IInv, Considered
<1>6. CASE HeaderCut
  BY <1>3, <1>6, SizesAssumption DEF HeaderCut, Full, HeaderSize
<1>7. CASE StatedBeyondBlock
  BY <1>3, <1>7, Sizes DEF StatedBeyondBlock, Asked, AsWritten
<1>8. CASE FormatHeader
  <2>1. ArrayEnd <= bytesToFormat /\ ArrayEnd \in Nat /\ bytesToFormat \in Nat
        /\ MaxOffset \in Nat
    BY <1>3, HeaderSound, PageTyped
  <2>2. pc' = (IF IsBtreeMetaPage THEN "special" ELSE "items")
        /\ shown' = shown /\ x' = x
    BY <1>8, <2>1 DEF FormatHeader
  <2>3. shown = <<>> /\ x = 1
    BY <1>8 DEF FormatHeader, ShownSoFar, IInv, TupleAtHand
  <2>4. InterpretedUpTo(page, 0) = <<>> /\ x' - 1 = 0
    BY <1>3, <2>2, <2>3, InterpretedSteps
  <2>5. CASE IsBtreeMetaPage
    BY <1>1, <2>2, <2>3, <2>5 DEF ShownSoFar, AtItems
  <2>6. CASE ~IsBtreeMetaPage
    <3>1. InterpretedUpTo(page, x - 1)' = <<>> /\ (x - 1 <= MaxOffset)'
      BY <1>0, <1>1, <2>1, <2>4
    <3> QED
      BY <1>1, <2>2, <2>3, <2>6, <3>1 DEF ShownSoFar, AtItems
  <2> QED
    BY <2>5, <2>6
<1>9. CASE ItemsDone
  <2>1. /\ pc = "items" /\ x > MaxOffset /\ pc' = "special" /\ shown' = shown
    BY <1>9 DEF ItemsDone
  <2>2. ~IsBtreeMetaPage /\ x - 1 <= MaxOffset /\ shown = InterpretedUpTo(page, x - 1)
    BY <2>1 DEF ShownSoFar, AtItems
  <2>3. x - 1 = Len(page.items)
    <3>1. x \in Nat /\ MaxOffset \in Nat /\ Len(page.items) = MaxOffset
      BY <1>3, PageTyped, AllCounted DEF TypeOK
    <3> QED
      BY <2>1, <2>2, <3>1
  <2>4. shown = Interpretation(page)
    BY <2>2, <2>3 DEF Interpretation
  <2>5. Interpretation(page)' = Interpretation(page)
    BY <1>0 DEF Interpretation
  <2> QED
    BY <1>1, <2>1, <2>2, <2>4, <2>5 DEF ShownSoFar, AtItems
<1>10. CASE \/ ItemBeyondBlock \/ ItemNotDetailed \/ ItemTooShort \/ SizedItem
            \/ HeapItem \/ InnerDiffers \/ InnerUnaligned \/ NodesDone
  <2>1. /\ pc' = "items" /\ x' - 1 <= MaxOffset
        /\ shown' = InterpretedUpTo(page, x' - 1)
    BY <1>10, LoopShown
  <2>2. ~IsBtreeMetaPage
    BY <1>10
    DEF ShownSoFar, ItemBeyondBlock, ItemNotDetailed, ItemTooShort, SizedItem, HeapItem,
         InnerDiffers, InnerUnaligned, NodesDone, Interpreted, AtItem, AtItems
  <2>3. InterpretedUpTo(page, x - 1)' = InterpretedUpTo(page, x' - 1)
    BY <1>0
  <2> QED
    BY <1>1, <2>1, <2>2, <2>3 DEF ShownSoFar, AtItems
<1>11. CASE InnerItem \/ Node
  <2>1. x' = x /\ shown' = shown /\ pc # "classify"
    BY <1>11 DEF InnerItem, Node, Interpreted, AtItem, NodeAtHand
  <2>2. /\ pc' = "nodes" /\ FormatAs = "inner" /\ Current.len > 0
        /\ i' <= Len(Current.tuple.nodes)
        /\ off' = NodesUpTo(Current.tuple, i')
        /\ ~IsBtreeMetaPage /\ x - 1 <= MaxOffset
        /\ shown = InterpretedUpTo(page, x - 1)
    BY <1>11, WalkShown
  <2>3. Current' = Current
    BY <1>0, <2>1 DEF Current
  <2>4. InterpretedUpTo(page, x - 1)' = InterpretedUpTo(page, x - 1)
    BY <1>0, <2>1
  <2>5. NodesUpTo(Current.tuple, i)' = NodesUpTo(Current.tuple, i')
    BY <2>3
  <2> QED
    BY <1>1, <1>2, <2>1, <2>2, <2>3, <2>4, <2>5 DEF ShownSoFar, AtItems
<1>12. CASE NoSpecial \/ FormatSpecial \/ Ended
  <2>1. /\ shown' = shown /\ pc \in {"special", "done", "crash"}
        /\ pc' \in {"done", "crash"}
        /\ pc' = "done" => pc # "crash"
    BY <1>12 DEF NoSpecial, FormatSpecial, Ended, vars
  <2>2. Interpretation(page)' = Interpretation(page)
    BY <1>0 DEF Interpretation
  <2> QED
    BY <1>1, <2>1, <2>2 DEF ShownSoFar, AtItems
<1> QED
  BY <1>4, <1>5, <1>6, <1>7, <1>8, <1>9, <1>10, <1>11, <1>12
  DEF Next, FormatItemBlock

(* With -i, a whole page as the server leaves it has every item that holds *)
(* anything interpreted, once and in the order of the array, in the format *)
(* of its access method and with all its nodes, for every number of items  *)
(* and nodes.                                                              *)
THEOREM ItemsAllShown == Spec => []AllInterpreted
<1>1. Init => ShownSoFar
  BY DEF Init, ShownSoFar, AtItems
<1>2. ASSUME IInv, TakenForWhatItIs, ShownSoFar, [Next]_vars
      PROVE  ShownSoFar'
  <2>1. CASE Next
    BY <1>2, <2>1, ShownStep
  <2>2. CASE UNCHANGED vars
    <3>1. /\ UNCHANGED <<page, opts, bytesToFormat, specialType, pc, x, i, off, shown>>
      BY <2>2 DEF vars
    <3>2. /\ Current' = Current /\ MaxOffset' = MaxOffset
          /\ Interpretation(page)' = Interpretation(page)
          /\ InterpretedUpTo(page, x - 1)' = InterpretedUpTo(page, x - 1)
      BY <3>1 DEF Current, MaxOffset, Interpretation
    <3>3. NodesUpTo(Current.tuple, i)' = NodesUpTo(Current.tuple, i)
      BY <3>1, <3>2
    <3>4. /\ Wanted' <=> Wanted
          /\ IsBtreeMetaPage' <=> IsBtreeMetaPage
          /\ FormatAs' = FormatAs
      BY <3>1 DEF Wanted, Full, AsWritten, Marked, Detailed, IsBtreeMetaPage, FormatAs
    <3> QED
      BY <1>2, <3>1, <3>2, <3>3, <3>4 DEF ShownSoFar, AtItems
  <2> QED
    BY <1>2, <2>1, <2>2
<1>3. IInv /\ ShownSoFar => AllInterpreted
  <2> SUFFICES ASSUME IInv, ShownSoFar, pc = "done", Full, AsWritten(page), Detailed
               PROVE  shown = IF page.method = "btree" /\ page.opaque.meta THEN <<>>
                              ELSE Interpretation(page)
    BY DEF AllInterpreted, Detailed
  <2>1. Wanted /\ Asked
    BY WantedAsked DEF Wanted
  <2> QED
    BY <2>1, MetaKnown DEF ShownSoFar
<1> QED
  BY <1>1, <1>2, <1>3, InvHolds, KindFound, PTL DEF Spec

-----------------------------------------------------------------------------
(* The walk along the nodes of inner tuples that may be damaged.           *)

(* During the walk: its place in the tuple, the nodes it has passed, and   *)
(* which of them, if any, ends it.                                         *)
Walking ==
  LET t == Current.tuple
  IN /\ t.size = Current.len /\ t.prefix % 8 = 0
     /\ i <= Len(t.nodes)
     /\ off = NodesUpTo(t, i)
     /\ \A m \in 1..i : NodesUpTo(t, m - 1) + NodeHeader <= Current.len
     /\ pc = "nodes" => \A m \in 1..i : t.nodes[m] % 8 = 0
     /\ pc = "nodesDone" => /\ i > 0 /\ t.nodes[i] % 8 # 0
                            /\ \A m \in 1..(i - 1) : t.nodes[m] % 8 = 0

WInv ==
  /\ NodesWhileSane
  /\ pc \in {"nodes", "nodesDone"} => Walking

\* What is shown of an inner tuple is all that can be walked of it.
AllWalked(item, nodes) ==
  /\ nodes \in SaneWalks(item)
  /\ \A count \in SaneWalks(item) : count <= nodes

\* Alignment is divisibility by 8.
LEMMA AlignedOnly == \A n \in Nat : MaxAlign(n) = n <=> n % 8 = 0
BY DEF MaxAlign

\* An item added to those shown.
LEMMA AddShown ==
  ASSUME IInv, NodesWhileSane, page' = page,
         NEW how \in {"index", "heap", "leaf", "inner"}, NEW n \in Nat,
         Show(how, n), how = "inner" => AllWalked(Current, n)
  PROVE  NodesWhileSane'
<1>1. shown \in Seq(Showns) /\ x \in Nat
  BY DEF IInv, TypeOK, Showns
<1> DEFINE e == [item |-> x, how |-> how, nodes |-> n]
<1>2. e \in Showns /\ e.item = x /\ e.how = how /\ e.nodes = n
  BY <1>1 DEF Showns
<1>3. shown' = Append(shown, e)
  BY DEF Show
<1> HIDE DEF e
<1>4. /\ Len(shown') = Len(shown) + 1 /\ Len(shown) \in Nat
      /\ \A m \in 1..Len(shown) : shown'[m] = shown[m]
      /\ shown'[Len(shown) + 1] = e
  BY <1>1, <1>2, <1>3
<1>5. ASSUME NEW m \in 1..Len(shown'), shown'[m].how = "inner"
      PROVE  AllWalked(page.items[shown'[m].item], shown'[m].nodes)
  <2>1. CASE m \in 1..Len(shown)
    BY <1>4, <1>5, <2>1 DEF NodesWhileSane, AllWalked
  <2>2. CASE m = Len(shown) + 1
    BY <1>2, <1>4, <1>5, <2>2 DEF Current
  <2> QED
    BY <1>4, <1>5, <2>1, <2>2
<1> QED
  BY <1>5 DEF NodesWhileSane, AllWalked

\* An inner tuple that is not walked could not be.
LEMMA NoneWalked ==
  ASSUME IInv, InnerDiffers \/ InnerUnaligned
  PROVE  AllWalked(Current, 0)
<1> DEFINE t == Current.tuple
<1>1. /\ t.prefix \in Nat /\ Len(t.nodes) \in Nat
  BY TupleTyped DEF InnerDiffers, InnerUnaligned, Interpreted, AtItem, AtItems
<1>2. ~(t.size = Current.len /\ t.prefix % 8 = 0)
  BY <1>1, AlignedOnly DEF InnerDiffers, InnerUnaligned
<1>3. 0 \in SaneWalks(Current)
  BY <1>1 DEF SaneWalks
<1>4. ASSUME NEW c \in SaneWalks(Current) PROVE c <= 0
  BY <1>1, <1>2 DEF SaneWalks
<1> QED
  BY <1>3, <1>4 DEF AllWalked

\* A walk that ends has passed all the nodes it could.
LEMMA WalkEnds ==
  ASSUME IInv, WInv, NodesDone
  PROVE  AllWalked(Current, i)
<1> DEFINE t == Current.tuple
<1>1. pc \in {"nodes", "nodesDone"} /\ Walking
  BY DEF NodesDone, WInv
<1>2. Current.len \in Nat /\ t.prefix \in Nat /\ Len(t.nodes) \in Nat /\ i \in Nat
  BY <1>1, TupleTyped DEF IInv, TypeOK, TupleAtHand, AtItems
<1>3. i \in SaneWalks(Current)
  <2>1. i \in 0..Len(t.nodes)
    BY <1>1, <1>2 DEF Walking
  <2>2. ASSUME NEW m \in 1..i, m < i PROVE t.nodes[m] % 8 = 0
    <3>1. m \in 1..(i - 1)
      BY <1>2, <2>2
    <3> QED
      BY <1>1, <3>1 DEF Walking
  <2> QED
    BY <1>1, <2>1, <2>2 DEF SaneWalks, Walking
<1>4. ASSUME NEW c \in SaneWalks(Current), c > i PROVE FALSE
  <2>1. /\ c \in 0..Len(t.nodes)
        /\ \A m \in 1..c : /\ NodesUpTo(t, m - 1) + NodeHeader <= Current.len
                           /\ m < c => t.nodes[m] % 8 = 0
    BY <1>4 DEF SaneWalks
  <2>2. i + 1 \in 1..c /\ (i + 1) - 1 = i /\ i < Len(t.nodes)
    BY <1>2, <1>4, <2>1
  <2>3. off + NodeHeader <= Current.len
    <3>1. NodesUpTo(t, (i + 1) - 1) + NodeHeader <= Current.len
      BY <2>1, <2>2
    <3>2. off = NodesUpTo(t, i)
      BY <1>1 DEF Walking
    <3> HIDE DEF t
    <3> QED
      BY <2>2, <3>1, <3>2
  <2>4. pc = "nodesDone"
    <3>1. \/ pc = "nodesDone"
          \/ i = Len(t.nodes)
          \/ ~(off + NodeHeader <= Current.len)
      BY DEF NodesDone, NodeFits
    <3>2. i # Len(t.nodes)
      BY <1>2, <2>2
    <3> QED
      BY <2>3, <3>1, <3>2
  <2>5. i \in 1..c /\ i < c
    BY <1>1, <1>2, <1>4, <2>1, <2>4 DEF Walking
  <2> QED
    BY <1>1, <2>1, <2>4, <2>5 DEF Walking
<1>5. ASSUME NEW c \in SaneWalks(Current) PROVE c <= i
  <2>1. c \in Nat
    BY <1>2 DEF SaneWalks
  <2> QED
    BY <1>2, <1>4, <2>1
<1> QED
  BY <1>3, <1>5 DEF AllWalked

\* The walk begins behind the prefix and goes on behind each node.
LEMMA WalkGoesOn ==
  ASSUME IInv, WInv, InnerItem \/ Node
  PROVE  pc' \in {"nodes", "nodesDone"} /\ Walking'
<1> DEFINE t == Current.tuple
<1>0. AtItems /\ x <= MaxOffset
  BY DEF InnerItem, Interpreted, AtItem, AtItems, Node, NodeAtHand, IInv, TupleAtHand
<1>1. /\ Current.len \in Nat /\ t \in Tuple /\ i \in Nat
      /\ t.prefix \in Nat /\ Len(t.nodes) \in Nat
      /\ \A n \in 1..Len(t.nodes) : t.nodes[n] \in Nat
  BY <1>0, ItemTyped, TupleTyped DEF IInv, TypeOK
<1>2. /\ Current' = Current
      /\ \A m : NodesUpTo(Current.tuple, m)' = NodesUpTo(Current.tuple, m)
  <2>1. page' = page /\ x' = x
    BY DEF InnerItem, Node
  <2>2. Current' = Current
    BY <2>1 DEF Current
  <2> QED
    BY <2>2
<1>3. CASE InnerItem
  <2>1. /\ i' = 0 /\ off' = InnerHeader + t.prefix /\ pc' = "nodes"
        /\ t.size = Current.len /\ t.prefix = MaxAlign(t.prefix)
    BY <1>3 DEF InnerItem
  <2>2. t.prefix % 8 = 0
    BY <1>1, <2>1, AlignedOnly
  <2>3. off' = NodesUpTo(t, 0)
    BY <1>1, <2>1, NodesSteps
  <2> QED
    BY <1>1, <1>2, <2>1, <2>2, <2>3 DEF Walking
<1>4. CASE Node
  <2>1. /\ pc = "nodes" /\ i < Len(t.nodes) /\ i' = i + 1
        /\ off' = off + t.nodes[i + 1]
        /\ off + NodeHeader <= Current.len
        /\ pc' = IF t.nodes[i + 1] = MaxAlign(t.nodes[i + 1]) THEN "nodes"
                 ELSE "nodesDone"
    BY <1>4 DEF Node, NodeAtHand, NodeSize, NodeFits
  <2>2. Walking
    BY <2>1 DEF WInv
  <2>3. /\ i + 1 \in 1..Len(t.nodes) /\ (i + 1) - 1 = i
        /\ \A m \in 1..(i + 1) : m \in 1..i \/ m = i + 1
    BY <1>1, <2>1
  <2>4. off' = NodesUpTo(t, i + 1)
    BY <1>1, <2>1, <2>2, <2>3, NodesSteps DEF Walking
  <2>5. \A m \in 1..(i + 1) : NodesUpTo(t, m - 1) + NodeHeader <= Current.len
    BY <2>1, <2>2, <2>3 DEF Walking
  <2>6. pc' = "nodes" <=> t.nodes[i + 1] % 8 = 0
    BY <1>1, <2>1, <2>3, AlignedOnly
  <2>7. \A m \in 1..i : t.nodes[m] % 8 = 0
    BY <2>1, <2>2 DEF Walking
  <2>8. /\ pc' \in {"nodes", "nodesDone"}
        /\ pc' = "nodes" => \A m \in 1..(i + 1) : t.nodes[m] % 8 = 0
        /\ pc' = "nodesDone" => i + 1 > 0 /\ t.nodes[i + 1] % 8 # 0
    BY <1>1, <2>1, <2>3, <2>6, <2>7
  <2>9. i + 1 <= Len(t.nodes) /\ 1..((i + 1) - 1) = 1..i
    BY <1>1, <2>1
  <2>10. t.size = Current.len /\ t.prefix % 8 = 0
    BY <2>2 DEF Walking
  <2> HIDE DEF t
  <2> QED
    BY <1>2, <2>1, <2>4, <2>5, <2>7, <2>8, <2>9, <2>10 DEF Walking, t
<1> QED
  BY <1>3, <1>4

\* Every step keeps it.
LEMMA WalkStep ==
  ASSUME IInv, WInv, [Next]_vars
  PROVE  WInv'
<1>0. NodesWhileSane
  BY DEF WInv
<1>1. CASE InnerItem \/ Node
  <2>1. page' = page /\ shown' = shown
    BY <1>1 DEF InnerItem, Node
  <2>2. NodesWhileSane'
    BY <1>0, <2>1 DEF NodesWhileSane
  <2> QED
    BY <1>1, <2>2, WalkGoesOn DEF WInv
<1>2. CASE SizedItem \/ HeapItem \/ InnerDiffers \/ InnerUnaligned \/ NodesDone
  <2>1. page' = page /\ pc' = "items"
    BY <1>2 DEF SizedItem, HeapItem, InnerDiffers, InnerUnaligned, NodesDone, NextItem
  <2>2. CASE SizedItem
    <3>1. PICK how \in {"index", "leaf"} : Show(how, 0)
      BY <2>2 DEF SizedItem
    <3>2. how \in {"index", "heap", "leaf", "inner"} /\ how # "inner" /\ 0 \in Nat
      OBVIOUS
    <3> QED
      BY <1>0, <2>1, <3>1, <3>2, AddShown DEF WInv
  <2>3. CASE HeapItem
    BY <1>0, <2>1, <2>3, AddShown DEF WInv, HeapItem
  <2>4. CASE InnerDiffers \/ InnerUnaligned
    <3>1. Show("inner", 0) /\ AllWalked(Current, 0)
      BY <2>4, NoneWalked DEF InnerDiffers, InnerUnaligned
    <3> QED
      BY <1>0, <2>1, <3>1, AddShown DEF WInv
  <2>5. CASE NodesDone
    <3>1. Show("inner", i) /\ AllWalked(Current, i) /\ i \in Nat
      BY <2>5, WalkEnds DEF NodesDone, IInv, TypeOK
    <3> QED
      BY <1>0, <2>1, <3>1, AddShown DEF WInv
  <2> QED
    BY <1>2, <2>2, <2>3, <2>4, <2>5
<1>3. CASE \/ Classify \/ DumpRaw \/ HeaderCut \/ StatedBeyondBlock
           \/ FormatHeader \/ ItemsDone \/ ItemBeyondBlock \/ ItemNotDetailed
           \/ ItemTooShort \/ NoSpecial \/ FormatSpecial
  <2>1. /\ page' = page /\ shown' = shown
        /\ pc' \notin {"nodes", "nodesDone"}
    BY <1>3
    DEF Classify, DumpRaw, HeaderCut, StatedBeyondBlock, FormatHeader, ItemsDone,
        ItemBeyondBlock, ItemNotDetailed, ItemTooShort, NoSpecial, FormatSpecial,
        NextItem, AtItem
  <2>2. NodesWhileSane'
    BY <1>0, <2>1 DEF NodesWhileSane
  <2> QED
    BY <2>1, <2>2 DEF WInv
<1>4. CASE Ended \/ UNCHANGED vars
  <2>1. UNCHANGED <<page, shown, pc, x, i, off>>
    BY <1>4 DEF Ended, vars
  <2>2. NodesWhileSane'
    BY <1>0, <2>1 DEF NodesWhileSane
  <2>3. Current' = Current
    BY <2>1 DEF Current
  <2>4. Walking' <=> Walking
    BY <2>1, <2>3 DEF Walking
  <2> QED
    BY <2>1, <2>2, <2>4 DEF WInv
<1> QED
  BY <1>1, <1>2, <1>3, <1>4 DEF Next, FormatItemBlock

(* Of an inner tuple, whatever sizes it and its nodes say they have, as    *)
(* many nodes are shown as have their headers inside the item behind       *)
(* aligned nodes: the walk neither leaves the item nor stops early.        *)
THEOREM WalkIsSane == Spec => []NodesWhileSane
<1>1. Init => WInv
  BY DEF Init, WInv, NodesWhileSane
<1>2. IInv /\ WInv /\ [Next]_vars => WInv'
  BY WalkStep
<1>3. WInv => NodesWhileSane
  BY DEF WInv
<1> QED
  BY <1>1, <1>2, <1>3, InvHolds, PTL DEF Spec
=============================================================================
