---------------------------- MODULE MCPageFormat ----------------------------
(***************************************************************************)
(* Small pages for PageFormat: one of each access method as the server     *)
(* leaves it, those with one field changed, and combinations no server     *)
(* writes.                                                                 *)
(***************************************************************************)
EXTENDS PageFormat

Empty == [size |-> 0, prefix |-> 0, nodes |-> <<>>, hoff |-> 24, natts |-> 1,
          nulls |-> FALSE, oid |-> FALSE]
Sized(n) == [Empty EXCEPT !.size = n]
Inner(n, prefix, nodes) ==
  [Sized(n) EXCEPT !.prefix = prefix, !.nodes = nodes]
Heap(natts, nulls, oid, hoff) ==
  [Empty EXCEPT !.natts = natts, !.nulls = nulls, !.oid = oid, !.hoff = hoff]

At(start, len, tuple) == [off |-> start, len |-> len, tuple |-> tuple]
NoItem == At(0, 0, Empty)
Redirect == At(2, 0, Empty)

SpecialSizes == [m \in Methods |->
  IF m = "heap" THEN 0 ELSE IF m \in {"btree", "hash", "gist"} THEN LargeOpaque
  ELSE SmallOpaque]
LastWords == [m \in Methods |->
  CASE m = "hash" -> HashoPageId [] m = "gist" -> GistPageId
    [] m = "spgist" -> SpgistPageId [] OTHER -> 0]

PageOf(method, items) ==
  [method |-> method, lower |-> HeaderSize + 4 * Len(items),
   upper |-> 48, special |-> BlockSize - SpecialSizes[method],
   stated |-> BlockSize, version |-> LayoutVersion,
   opaque |-> [first |-> IF method = "sequence" THEN SequenceMagic ELSE 3,
               last |-> LastWords[method], cycle |-> LastWords[method],
               meta |-> FALSE, leaf |-> FALSE],
   items |-> items]

(* Pages that say which word they end with.                                *)
EndingIn(p, word) == [p EXCEPT !.opaque.last = word, !.opaque.cycle = word]

HeapItems ==
  {<<>>, <<NoItem>>,
   <<At(96, 32, Heap(3, FALSE, FALSE, 24)), Redirect>>,
   <<At(88, 40, Heap(8, TRUE, FALSE, 24)), NoItem, At(48, 40, Heap(9, TRUE, FALSE, 32))>>,
   <<At(88, 40, Heap(2, FALSE, TRUE, 32)), At(48, 40, Heap(40, TRUE, TRUE, 32))>>}
IndexItems ==
  {<<>>, <<At(96, 16, Sized(16)), At(72, 24, Sized(24))>>,
   <<NoItem, At(80, 16, Sized(16))>>}
InnerItems ==
  {<<At(80, 40, Inner(40, 8, <<8, 16>>)), At(64, 16, Inner(16, 0, <<8>>))>>,
   <<At(80, 32, Inner(32, 0, <<8, 8, 8>>))>>, <<At(80, 32, Inner(32, 24, <<>>))>>}

Good ==
  {PageOf(m, items) : m \in {"heap", "sequence"}, items \in {<<>>, <<NoItem>>}}
    \cup {PageOf("heap", items) : items \in HeapItems}
    \cup {PageOf(m, items) : m \in {"btree", "hash", "gist", "gin"}, items \in IndexItems}
    \cup {EndingIn(PageOf("btree", items), w) :
            w \in {1, MaxBtCycleId - 1, MaxBtCycleId}, items \in IndexItems}
    \cup {EndingIn(PageOf("gin", items), w) : w \in {2, 130}, items \in IndexItems}
    \cup {PageOf("spgist", items) : items \in InnerItems}
    \cup {[PageOf("spgist", items) EXCEPT !.opaque.leaf = TRUE] : items \in IndexItems}
    \cup {[PageOf("btree", [n \in 1..6 |-> At(7, 9, Empty)]) EXCEPT !.opaque.meta = TRUE]}

(* Items no server leaves.                                                 *)
OddItems ==
  {<<At(120, 16, Sized(16))>>, <<At(64, 16, Sized(24)), At(96, 16, Sized(24))>>, <<At(100, 5, Sized(5))>>, <<At(100, 7, Sized(8))>>,
   <<At(64, 16, Sized(24)), At(96, 16, Sized(16))>>,
   <<At(80, 32, Inner(32, 4, <<8>>))>>, <<At(80, 32, Inner(32, 40, <<8>>))>>,
   <<At(80, 32, Inner(24, 0, <<8>>))>>, <<At(80, 32, Inner(32, 0, <<0, 0, 0>>))>>,
   <<At(80, 32, Inner(32, 0, <<4, 8>>))>>, <<At(80, 32, Inner(32, 0, <<16, 8, 8>>))>>,
   <<At(80, 32, Inner(32, 0, <<8, 24>>))>>, <<At(80, 28, Inner(28, 0, <<16, 8>>))>>,
   <<At(88, 40, Heap(8, TRUE, FALSE, 32))>>, <<At(88, 24, Heap(9, TRUE, TRUE, 24))>>}
OddPages ==
  {PageOf(m, items) : m \in {"heap", "btree", "spgist"}, items \in OddItems}
    \cup {[PageOf("spgist", items) EXCEPT !.opaque.leaf = TRUE] : items \in OddItems}

(* A good page with one field of the header or special section changed.    *)
Damaged(p) ==
  {[p EXCEPT !.version = 3], [p EXCEPT !.special = 0], [p EXCEPT !.special = @ - 4],
   [p EXCEPT !.special = 130], [p EXCEPT !.upper = 20], [p EXCEPT !.upper = 127],
   [p EXCEPT !.stated = 256, !.special = 240], [p EXCEPT !.stated = 256],
   [p EXCEPT !.lower = 20, !.items = <<>>],
   [p EXCEPT !.lower = 200], [p EXCEPT !.lower = 131, !.items = [n \in 1..26 |-> NoItem]], [p EXCEPT !.lower = 124, !.items = [n \in 1..25 |-> NoItem]],
   [EndingIn(p, 65535) EXCEPT !.opaque.first = 0],
   [EndingIn(p, SpgistPageId) EXCEPT !.opaque.meta = TRUE]}
DamagedPages ==
  UNION {Damaged(PageOf(m, <<>>)) : m \in Methods}
    \cup Damaged(PageOf("btree", <<At(96, 16, Sized(16))>>))
    \cup {[PageOf("btree", <<>>) EXCEPT !.stated = 256, !.special = 240,
                                        !.opaque.meta = TRUE]}

MCPages == Good \cup OddPages \cup DamagedPages

Choice(n, d, b, a) == [noInterpret |-> n, detail |-> d, binary |-> b, as |-> a]
MCOptions ==
  {Choice(FALSE, d, b, "auto") : d \in BOOLEAN, b \in BOOLEAN}
    \cup {Choice(FALSE, TRUE, TRUE, a) : a \in {"index", "heap"}}
    \cup {Choice(TRUE, FALSE, FALSE, "auto")}

MCBytesRead == {10, 24, 28, 40, 100, BlockSize}
=============================================================================
