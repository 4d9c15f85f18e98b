--------------------------- MODULE MCRelationDump ---------------------------
(***************************************************************************)
(* Small files for RelationDump: blocks of 6 units, a header of 2.         *)
(***************************************************************************)
EXTENDS RelationDump

CONSTANTS
  MainPages,       \* the pages a main file is made of
  MaxPages,
  Cuts             \* by how much the last page is cut short

Tuple(e)        == [end |-> e, normal |-> TRUE, old |-> FALSE, oid |-> 0,
                    bytes |-> 0, seq |-> 0]
Pointer(e, o, n) == [Tuple(e) EXCEPT !.oid = o, !.bytes = n]
Chunk(e, o, k)  == [Tuple(e) EXCEPT !.oid = o, !.bytes = 1, !.seq = k]
Old(t)          == [t EXCEPT !.old = TRUE]
Dead(t)         == [t EXCEPT !.normal = FALSE]

Heap(ts) == [items |-> ts, sane |-> TRUE, sumOK |-> TRUE, meta |-> FALSE,
             special |-> 6, index |-> "unknown"]

Plain     == Heap(<<Tuple(6), Dead(Tuple(5))>>)
Pointing  == Heap(<<Pointer(6, 1, 2), Old(Tuple(5))>>)
Torn      == Heap(<<Pointer(5, 1, 2), Tuple(7)>>)
Overhang  == Heap(<<Tuple(7)>>)
Empty     == Heap(<<>>)
Crowded   == Heap(<<Tuple(6), Tuple(6), Tuple(6), Tuple(6), Tuple(6)>>)
Insane    == [Empty EXCEPT !.sane = FALSE]
BadSum    == [Plain EXCEPT !.sumOK = FALSE]
Index     == [Heap(<<Tuple(5)>>) EXCEPT !.special = 5, !.index = "index"]
Meta      == [Index EXCEPT !.meta = TRUE]
OffPage   == [Empty EXCEPT !.special = 7]

AllPages  == {Plain, Pointing, Overhang, Crowded, Insane, BadSum, Index, Meta,
              OffPage}
FetchPages == {Plain, Pointing, Torn}
ClobberPages == {Plain, Pointing}

MCMains ==
  {[size |-> 6 * n - c, pages |-> ps] :
     n \in 1..MaxPages, c \in Cuts, ps \in [1..MaxPages -> MainPages]}
  \cup {[size |-> 0, pages |-> <<>>]}

Stored(ps, c) == [size |-> 6 * Len(ps) - c, pages |-> ps]

One == Heap(<<Chunk(6, 1, 1), Chunk(5, 2, 1)>>)
Two == Heap(<<Chunk(6, 2, 2), Chunk(5, 1, 2)>>)

WholeToast    == Stored(<<One, Two, Plain>>, 0)
SwappedToast  == Stored(<<Two, One>>, 0)
CutToast      == Stored(<<One, Two>>, 1)
PartToast     == Stored(<<One>>, 0)
OldToast      == Stored(<<Heap(<<Old(Chunk(6, 1, 2))>>), One, Two>>, 0)
EmptyToast    == [size |-> 0, pages |-> <<>>]

MCToasts == {WholeToast, SwappedToast, CutToast, PartToast, OldToast,
             EmptyToast, NoFile}
JustNone == {NoFile}
JustPart == {PartToast}

Default == [mode |-> "interpret", range |-> FALSE, first |-> 0, last |-> 0,
            checksums |-> FALSE, ignoreOld |-> FALSE, decode |-> FALSE,
            toast |-> FALSE, laterSegment |-> FALSE, forcedSize |-> FALSE]

Ranges == {<<0, 0>>, <<0, 1>>, <<1, 1>>, <<1, 3>>, <<2, 3>>}
Ranging(os) == {[o EXCEPT !.range = TRUE, !.first = r[1], !.last = r[2]] :
                  o \in os, r \in Ranges}

PlainOptions ==
  LET interpreted == {[Default EXCEPT !.checksums = k, !.forcedSize = s] :
                        k \in BOOLEAN, s \in BOOLEAN}
      raw == {[Default EXCEPT !.mode = m] : m \in {"binary", "noInterpret"}}
      base == interpreted \cup raw
  IN base \cup Ranging(base) \cup {[Default EXCEPT !.mode = "control"]}

ToastOptions ==
  LET base == {[Default EXCEPT !.decode = TRUE, !.toast = TRUE,
                               !.checksums = k, !.ignoreOld = o,
                               !.laterSegment = s] :
                 k \in BOOLEAN, o \in BOOLEAN, s \in BOOLEAN}
  IN base \cup Ranging({[Default EXCEPT !.decode = TRUE, !.toast = TRUE]})

Fetching == {[Default EXCEPT !.decode = TRUE, !.toast = TRUE]}
=============================================================================
