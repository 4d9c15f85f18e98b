------------------------- MODULE TupleDecode_proofs -------------------------
(***************************************************************************)
(* Proofs about TupleDecode for all lists of types, all tuples and all     *)
(* buffer sizes: the types, that the decoders stay inside the tuple, that  *)
(* both buffers always have room for what is written to them, and that     *)
(* only a large tuple makes one of them give up.                           *)
(***************************************************************************)
EXTENDS TupleDecode, SequenceTheorems, WellFoundedInduction, TLAPS

(* A tuple is at hand while the program works.                             *)
TupleAtHand ==
  /\ input \in Inputs
  /\ pc \in Working => k <= Len(input.tuples)

(* The encoding buffer keeps room for one more escape; an enlargement is   *)
(* only begun for what the limit allows.                                   *)
RoomToWrite ==
  /\ Len(tmpBuff) <= EncodeSize - 2
  /\ Len(line) < maxlen /\ maxlen <= AllocLimit
  /\ pc = "enlarge" => Needed <= AllocLimit

IInv == TypeOK /\ TupleAtHand /\ InsideTuple /\ RoomToWrite

-----------------------------------------------------------------------------
(* Arithmetic and data.                                                    *)

(* The unsigned size is a number below the word range.                     *)
LEMMA WrapType ==
  ASSUME NEW n \in Int
  PROVE  Wrap(n) \in 0..(WordRange - 1)
  BY LimitsAssumption DEF Wrap

(* It is exact where nothing wraps.                                        *)
LEMMA WrapExact ==
  ASSUME NEW n \in Nat, n < WordRange
  PROVE  Wrap(n) = n
  BY LimitsAssumption DEF Wrap

(* Every decoder of fixed size has a size and an alignment.                *)
LEMMA LayoutType ==
  ASSUME NEW kind \in FixedKinds
  PROVE  LayoutOf(kind).size \in Nat /\ LayoutOf(kind).align \in {1, 2, 4, 8}
<1>1. \A l \in Layouts : l.size \in Nat /\ l.align \in {1, 2, 4, 8}
  BY LimitsAssumption
     DEF Layouts, IntegerLayouts, TimeLayouts, FloatLayouts, OctetLayouts,
         CharLayouts, Layout
<1>2. \E l \in Layouts : l.kind = kind
  BY DEF FixedKinds
<1>3. LayoutOf(kind) \in Layouts
  BY <1>2 DEF LayoutOf
<1> QED
  BY <1>1, <1>3

(* Padding never goes back.                                                *)
LEMMA PaddingType ==
  ASSUME NEW a \in Nat, NEW align \in {1, 2, 4, 8}
  PROVE  Padding(a, align) \in Nat
  BY DEF Padding

(* A sequence built byte by byte, empty when its length is not positive.   *)
LEMMA ByteSeq ==
  ASSUME NEW n \in Int, NEW f \in [1..n -> Byte]
  PROVE  f \in Seq(Byte)
<1>1. CASE n \in Nat
  BY <1>1, SeqDef
<1>2. CASE n \notin Nat
  <2>1. 1..n = 1..0
    BY <1>2
  <2> QED
    BY <2>1, SeqDef
<1> QED
  BY <1>1, <1>2

(* The tuple at hand has the fields of a tuple.                            *)
LEMMA CurrentType ==
  ASSUME TypeOK, TupleAtHand, k <= Len(input.tuples)
  PROVE  /\ Current.hoff \in Nat /\ Current.len \in Nat /\ Current.at \in Nat
         /\ Current.bytes \in Seq(Byte) /\ Current.beyond \in Byte
         /\ Current.inflated \in Seq(Byte)
         /\ Current.hoff < WordRange /\ Current.len < WordRange
<1>1. input \in Inputs /\ input \in Input /\ k \in 1..Len(input.tuples)
  BY DEF TypeOK, TupleAtHand
<1>2. Current \in Tuple
  BY <1>1 DEF Current, Input
<1>3. Current.hoff < WordRange /\ Current.len < WordRange
  BY <1>1, HeaderAssumption DEF Current
<1> QED
  BY <1>2, <1>3 DEF Tuple

LEMMA ByteAtType ==
  ASSUME Current.bytes \in Seq(Byte), Current.beyond \in Byte, NEW p \in Nat
  PROVE  ByteAt(p) \in Byte
  BY DEF ByteAt

LEMMA BytesAtType ==
  ASSUME Current.bytes \in Seq(Byte), Current.beyond \in Byte,
         NEW p \in Nat, NEW n \in Int
  PROVE  BytesAt(p, n) \in Seq(Byte)
<1>1. \A i \in 1..n : ByteAt(p + i - 1) \in Byte
  BY ByteAtType
<1>2. BytesAt(p, n) \in [1..n -> Byte]
  BY <1>1 DEF BytesAt
<1> QED
  BY <1>2, ByteSeq

LEMMA UpToNulType ==
  ASSUME NEW s \in Seq(Byte)
  PROVE  /\ UpToNul(s) \in Seq(Byte) /\ Len(UpToNul(s)) <= Len(s)
         /\ \A i \in 1..Len(UpToNul(s)) : UpToNul(s)[i] = s[i]
<1>1. CASE \E i \in 1..Len(s) : s[i] = Nul
  <2> DEFINE First(i) == s[i] = Nul /\ \A j \in 1..(i - 1) : s[j] # Nul
             e == CHOOSE i \in 1..Len(s) : First(i)
             T == {i \in 1..Len(s) : s[i] = Nul}
             R == {p \in Nat \X Nat : p[1] < p[2]}
  <2>1. T \subseteq Nat /\ T # {}
    BY <1>1
  <2>0. IsWellFoundedOn(R, Nat)
    BY NatLessThanWellFounded, Zenon DEF OpToRel
  <2>2. PICK m \in T : \A j \in T : <<j, m>> \notin R
    <3> HIDE DEF T, R
    <3> QED
      BY <2>1, <2>0, WFMin
  <2>3. \A j \in T : ~(j < m)
    BY <2>1, <2>2
  <2>4. \E i \in 1..Len(s) : First(i)
    BY <2>3
  <2>5. e \in 1..Len(s)
    BY <2>4
  <2> HIDE DEF e
  <2>6. /\ SubSeq(s, 1, e - 1) \in Seq(Byte)
        /\ Len(SubSeq(s, 1, e - 1)) <= Len(s)
    BY <2>5
  <2>7. \A i \in 1..Len(SubSeq(s, 1, e - 1)) : SubSeq(s, 1, e - 1)[i] = s[i]
    BY <2>5
  <2> QED
    BY <1>1, <2>6, <2>7 DEF UpToNul, e
<1>2. CASE ~ \E i \in 1..Len(s) : s[i] = Nul
  BY <1>2 DEF UpToNul
<1> QED
  BY <1>1, <1>2

(* An escape is one or two characters.                                     *)
LEMMA EscapeType ==
  ASSUME NEW b \in Byte
  PROVE  Escape(b) \in Seq(Symbol) /\ Len(Escape(b)) \in 1..2
<1>1. \A c \in Byte : Char(c) \in Symbol
  BY DEF Char, Symbol
<1>2. {Backslash, Digit0, Lowerr, Lowern} \subseteq Byte
  BY DEF Backslash, Digit0, Lowerr, Lowern, Byte
<1> QED
  BY <1>1, <1>2 DEF Escape

(* The length of a printed text.                                           *)
LEMMA PrintLengthType ==
  ASSUME NEW what, NEW bytes
  PROVE  /\ PrintLength(what, bytes) \in Nat
         /\ PrintLength(what, bytes) <= PrintMax
<1>1. PrintMax \in Nat
  BY PrintAssumption
<1>2. <<what, bytes>> \in DOMAIN PrintLengths =>
        PrintLengths[<<what, bytes>>] \in 1..PrintMax
  BY PrintAssumption
<1>3. CASE <<what, bytes>> \in DOMAIN PrintLengths
  BY <1>1, <1>2, <1>3 DEF PrintLength
<1>4. CASE <<what, bytes>> \notin DOMAIN PrintLengths
  BY <1>1, <1>4 DEF PrintLength
<1> QED
  BY <1>3, <1>4

(* What is appended without being encoded.                                 *)
LEMMA MarkType ==
  /\ NullMark \in Seq(Symbol)
  /\ \A what \in {"toasted", "inMemory", "compressed"} :
       Marker(what) \in Seq(Symbol)
  /\ \A kind \in Kinds, s \in Seq(Byte) : Printed(kind, s) \in Seq(Symbol)
  /\ \A n \in Nat :
       [i \in 1..n |-> [what |-> "fetched", of |-> <<>>]] \in Seq(Symbol)
  /\ <<Char(Tab)>> \in Seq(Symbol)
<1>1. \A c \in Byte : Char(c) \in Symbol
  BY DEF Char, Symbol
<1>2. {Backslash, LetterN, Tab} \subseteq Byte
  BY DEF Backslash, LetterN, Tab, Byte
<1>3. ASSUME NEW n \in Nat, NEW x \in Symbol
      PROVE  [i \in 1..n |-> x] \in Seq(Symbol)
  OBVIOUS
<1>4. ASSUME NEW what \in {"toasted", "inMemory", "compressed"} \cup Kinds,
             NEW s \in Seq(Byte)
      PROVE  Printed(what, s) \in Seq(Symbol)
  <2>1. [what |-> what, of |-> s] \in Symbol
    BY DEF Symbol
  <2> QED
    BY <1>3, <2>1, PrintLengthType DEF Printed
<1>5. \A what \in {"toasted", "inMemory", "compressed"} :
        Marker(what) \in Seq(Symbol)
  <2>1. <<>> \in Seq(Byte)
    OBVIOUS
  <2> QED
    BY <1>4, <2>1 DEF Marker
<1>6. [what |-> "fetched", of |-> <<>>] \in Symbol
  BY DEF Symbol
<1>7. <<Char(Tab)>> \in Seq(Symbol) /\ NullMark \in Seq(Symbol)
  BY <1>1, <1>2 DEF NullMark
<1> QED
  BY <1>3, <1>4, <1>5, <1>6, <1>7

-----------------------------------------------------------------------------
(* The steps of the program, grouped by what they leave behind.            *)

(* The program stops, or moves on without touching the buffers.            *)
LEMMA StopKeeps ==
  ASSUME IInv, pc' \in Halted,
         UNCHANGED <<input, named, callbacks, k, col, pos, size, source, tmpBuff,
                     text, buffers, reports>>
  PROVE  IInv'
<1>1. pc' \notin Working /\ pc' # "enlarge"
  BY DEF Halted, Working
<1>2. TypeOK'
  BY DEF IInv, TypeOK, buffers
<1>3. TupleAtHand' /\ InsideTuple'
  BY <1>1 DEF IInv, TupleAtHand, InsideTuple
<1>4. RoomToWrite'
  BY <1>1 DEF IInv, RoomToWrite, buffers
<1> QED
  BY <1>2, <1>3, <1>4 DEF IInv

(* A tuple is reported.                                                    *)
LEMMA ReportKeeps ==
  ASSUME IInv, NEW kind \in {"row", "error"}, ReportAs(kind),
         line' = line \/ line' = <<>>,
         UNCHANGED <<input, named, callbacks, col, pos, size, source, tmpBuff,
                     text, maxlen, newlen, resume>>
  PROVE  IInv'
<1>0. /\ line \in Seq(Symbol)
      /\ reports \in Seq([kind : {"row", "error"}, line : Seq(Symbol)])
      /\ k \in Nat \ {0}
  BY DEF IInv, TypeOK
<1>7. Len(line) \in Nat /\ Len(<<>>) = 0 /\ <<>> \in Seq(Symbol)
  BY <1>0
<1>8. line' \in Seq(Symbol) /\ Len(line') \in Nat /\ Len(line') <= Len(line)
  <2>1. CASE line' = line
    BY <1>0, <1>7, <2>1
  <2>2. CASE line' = <<>>
    BY <1>7, <2>2
  <2> QED
    BY <2>1, <2>2
<1>1. pc' = "tuple" /\ pc' \notin Working /\ pc' # "enlarge"
  BY DEF ReportAs, Working
<1>2. /\ reports' \in Seq([kind : {"row", "error"}, line : Seq(Symbol)])
      /\ k' \in Nat \ {0}
  BY <1>0 DEF ReportAs
<1>3. TypeOK'
  BY <1>8, <1>1, <1>2 DEF IInv, TypeOK
<1>4. TupleAtHand' /\ InsideTuple'
  BY <1>1 DEF IInv, TupleAtHand, InsideTuple
<1>5. maxlen \in Nat
  BY DEF IInv, TypeOK
<1>6. RoomToWrite'
  BY <1>7, <1>8, <1>1, <1>5 DEF IInv, RoomToWrite
<1> QED
  BY <1>3, <1>4, <1>6 DEF IInv

(* A decoder takes its bytes, padding included, and no more.               *)
LEMMA AdvanceKeeps ==
  ASSUME IInv, pc \in Working, NEW p \in Nat, Advance(p),
         UNCHANGED <<input, k>>
  PROVE  /\ pos' \in Nat /\ size' \in 0..(WordRange - 1)
         /\ pos <= p /\ p - pos <= size => InsideTuple'
<1>0. /\ pos \in Nat /\ size \in 0..(WordRange - 1) /\ WordRange \in Nat \ {0}
      /\ k <= Len(input.tuples)
  BY LimitsAssumption DEF IInv, TypeOK, TupleAtHand
<1>1. pos' = p /\ size' = Wrap(size - (p - pos))
  BY DEF Advance
<1>2. pos' \in Nat /\ size' \in 0..(WordRange - 1)
  BY <1>0, <1>1, WrapType
<1>3. ASSUME pos <= p, p - pos <= size PROVE InsideTuple'
  <2>1. size - (p - pos) \in Nat /\ size - (p - pos) < WordRange
    BY <1>0, <1>3
  <2>2. size' = size - (p - pos)
    BY <1>1, <2>1, WrapExact
  <2>3. pos' + size' = pos + size
    BY <1>0, <1>1, <2>2
  <2>4. Current' = Current
    BY DEF Current
  <2>5. Current.hoff <= Current.len => pos + size = Current.len - Current.hoff
    BY DEF IInv, InsideTuple
  <2> QED
    BY <2>3, <2>4, <2>5 DEF InsideTuple
<1> QED
  BY <1>2, <1>3

(* A text is handed to CopyAppend, with or without bytes taken.            *)
LEMMA AppendTextKeeps ==
  ASSUME IInv, pc \in Working, NEW t \in Seq(Symbol), AppendText(t),
         pos' \in Nat, size' \in 0..(WordRange - 1), InsideTuple',
         UNCHANGED <<input, named, callbacks, k, col, buffers, reports>>
  PROVE  IInv'
<1>1. pc' = "tab" /\ pc' # "enlarge"
  BY DEF AppendText
<1>2. TypeOK'
  BY <1>1 DEF IInv, TypeOK, AppendText, Working, buffers
<1>3. TupleAtHand'
  BY DEF IInv, TupleAtHand
<1>4. RoomToWrite'
  BY <1>1 DEF IInv, RoomToWrite, AppendText, buffers
<1> QED
  BY <1>2, <1>3, <1>4 DEF IInv

(* Bytes are handed to CopyAppendEncode.                                   *)
LEMMA EncodeTextKeeps ==
  ASSUME IInv, pc \in Working, NEW s \in Seq(Byte), EncodeText(s),
         pos' \in Nat, size' \in 0..(WordRange - 1), InsideTuple',
         UNCHANGED <<input, named, callbacks, k, col, buffers, reports>>
  PROVE  IInv'
<1>1. /\ pc' = "encode" /\ pc' # "enlarge" /\ source' = s /\ tmpBuff' = <<>>
      /\ text' = text
  BY DEF EncodeText
<1>2. TypeOK'
  BY <1>1 DEF IInv, TypeOK, Working, buffers
<1>3. TupleAtHand'
  BY DEF IInv, TupleAtHand
<1>4. RoomToWrite'
  BY <1>1, LimitsAssumption DEF IInv, RoomToWrite, buffers
<1> QED
  BY <1>2, <1>3, <1>4 DEF IInv

(* Control moves to another column or text of the same tuple.              *)
LEMMA MoveKeeps ==
  ASSUME IInv, pc \in Working, pc' \in {"column", "string"}, col' \in Nat \ {0},
         pos' \in Nat, size' \in 0..(WordRange - 1), InsideTuple',
         UNCHANGED <<input, named, callbacks, k, source, tmpBuff, text, buffers,
                     reports>>
  PROVE  IInv'
<1>1. pc' # "enlarge"
  OBVIOUS
<1>2. TypeOK'
  BY DEF IInv, TypeOK, Working, buffers
<1>3. TupleAtHand'
  BY DEF IInv, TupleAtHand
<1>4. RoomToWrite'
  BY <1>1 DEF IInv, RoomToWrite, buffers
<1> QED
  BY <1>2, <1>3, <1>4 DEF IInv

-----------------------------------------------------------------------------
(* Every step keeps the invariant.                                         *)

LEMMA InitInv == Init => IInv
<1> SUFFICES ASSUME Init PROVE IInv
  OBVIOUS
<1>1. input \in Input /\ input \in Inputs
  BY InputsAssumption DEF Init
<1>2. pc = "types" /\ pc \notin Working
  BY DEF Init, Working
<1>3. TypeOK
  BY <1>1, LimitsAssumption DEF Init, TypeOK
<1>4. RoomToWrite
  BY <1>2, LimitsAssumption DEF Init, RoomToWrite
<1> QED
  BY <1>1, <1>2, <1>3, <1>4 DEF IInv, TupleAtHand, InsideTuple

LEMMA TypesStep == IInv /\ ParseTypes => IInv'
<1> SUFFICES ASSUME IInv, ParseTypes PROVE IInv'
  OBVIOUS
<1>1. CASE NamesTooLong
  BY <1>1, StopKeeps DEF NamesTooLong, Halted
<1>2. CASE UnknownName
  BY <1>2, StopKeeps DEF UnknownName, Halted
<1>3. ASSUME named' \in Nat, callbacks' \in Seq(Kinds),
             pc' \in {"types", "tuple", "crash"},
             UNCHANGED <<input, k, col, pos, size, source, tmpBuff, text,
                         buffers, reports>>
      PROVE  IInv'
  <2>1. pc' \notin Working /\ pc' # "enlarge"
    BY <1>3 DEF Working
  <2>2. TypeOK'
    BY <1>3 DEF IInv, TypeOK, buffers, Halted
  <2>3. RoomToWrite'
    BY <1>3, <2>1 DEF IInv, RoomToWrite, buffers
  <2> QED
    BY <1>3, <2>1, <2>2, <2>3 DEF IInv, TupleAtHand, InsideTuple
<1>0. /\ named \in Nat /\ callbacks \in Seq(Kinds)
  BY DEF IInv, TypeOK
<1>4. CASE EmptyName
  BY <1>0, <1>3, <1>4 DEF EmptyName, AtName
<1>5. CASE AddTypeCallback
  <2>1. PICK decoder \in DecodersOf(NextName.name) :
          callbacks' = Append(callbacks, decoder)
    BY <1>5 DEF AddTypeCallback
  <2>2. decoder \in Kinds
    <3>1. \A c \in CallbackTable : c[2] \in Kinds
      BY DEF CallbackTable, Kinds, FixedKinds, Layouts, IntegerLayouts,
             TimeLayouts, FloatLayouts, OctetLayouts, CharLayouts, Layout
    <3> QED
      BY <2>1, <3>1 DEF DecodersOf
  <2>3. callbacks' \in Seq(Kinds)
    BY <1>0, <2>1, <2>2
  <2> QED
    BY <1>0, <1>3, <1>5, <2>3 DEF AddTypeCallback, AtName
<1>6. CASE NamesDone
  BY <1>0, <1>3, <1>6 DEF NamesDone
<1> QED
  BY <1>1, <1>2, <1>4, <1>5, <1>6 DEF ParseTypes

LEMMA TupleStep == IInv /\ FormatDecode => IInv'
<1> SUFFICES ASSUME IInv, FormatDecode PROVE IInv'
  OBVIOUS
<1>0. /\ k <= Len(input.tuples) /\ pc' = "column" /\ pos' = 0 /\ col' = 1
      /\ size' = Wrap(Current.len - Current.hoff) /\ line' = <<>>
  BY DEF FormatDecode
<1>1. /\ Current.hoff \in Nat /\ Current.len \in Nat
      /\ Current.hoff < WordRange /\ Current.len < WordRange
  BY <1>0, CurrentType DEF IInv
<1>2. size' \in 0..(WordRange - 1)
  <2>1. Current.len - Current.hoff \in Int
    BY <1>1
  <2> QED
    BY <1>0, <2>1, WrapType
<1>3. TypeOK'
  BY <1>0, <1>2 DEF IInv, TypeOK, FormatDecode, Working
<1>4. TupleAtHand'
  BY <1>0 DEF IInv, TupleAtHand, FormatDecode
<1>5. InsideTuple'
  <2>1. Current' = Current
    BY DEF Current, FormatDecode
  <2>2. Current.hoff <= Current.len => size' = Current.len - Current.hoff
    <3> SUFFICES ASSUME Current.hoff <= Current.len
                 PROVE  size' = Current.len - Current.hoff
      OBVIOUS
    <3>1. Current.len - Current.hoff \in Nat /\ Current.len - Current.hoff < WordRange
      BY <1>1, LimitsAssumption
    <3> QED
      BY <1>0, <3>1, WrapExact
  <2> QED
    BY <1>0, <1>1, <2>1, <2>2 DEF InsideTuple
<1>6. RoomToWrite'
  <2>1. maxlen \in Nat /\ maxlen > 0
    BY DEF IInv, TypeOK, RoomToWrite
  <2> QED
    BY <1>0, <2>1 DEF IInv, RoomToWrite, FormatDecode
<1> QED
  BY <1>3, <1>4, <1>5, <1>6 DEF IInv

(* Where a value of fixed size starts and ends.                            *)
LEMMA ValueType ==
  ASSUME IInv, NEW kinds \in SUBSET FixedKinds, Decoding(kinds)
  PROVE  /\ pc \in Working /\ k <= Len(input.tuples)
         /\ ValueStart \in Nat /\ ValueEnd \in Nat
         /\ pos <= ValueStart /\ ValueStart <= ValueEnd
         /\ callbacks[col] \in FixedKinds
<1>1. pc \in Working /\ k <= Len(input.tuples) /\ pos \in Nat
  BY DEF IInv, TypeOK, TupleAtHand, Decoding, AtColumn, Working
<1>2. Current.at \in Nat
  BY <1>1, CurrentType DEF IInv
<1>3. callbacks[col] \in FixedKinds
  BY DEF Decoding
<1>4. /\ LayoutOf(callbacks[col]).size \in Nat
      /\ LayoutOf(callbacks[col]).align \in {1, 2, 4, 8}
  BY <1>3, LayoutType
<1>5. Padding(Current.at + pos, LayoutOf(callbacks[col]).align) \in Nat
  <2>1. Current.at + pos \in Nat
    BY <1>1, <1>2
  <2> QED
    BY <1>4, <2>1, PaddingType
<1> QED
  BY <1>1, <1>3, <1>4, <1>5 DEF ValueStart, ValueEnd

LEMMA ColumnStep == IInv /\ DecodeColumn => IInv'
<1> SUFFICES ASSUME IInv, DecodeColumn PROVE IInv'
  OBVIOUS
<1>0. /\ pos \in Nat /\ size \in 0..(WordRange - 1) /\ col \in Nat \ {0}
      /\ InsideTuple
  BY DEF IInv, TypeOK
<1>1. CASE NullColumn
  <2>1. pc \in Working /\ pc' \in Working
    BY <1>1 DEF NullColumn, AtColumn, AppendText, Working
  <2>2. InsideTuple'
    BY <1>0, <1>1, <2>1 DEF NullColumn, InsideTuple, Current
  <2> QED
    BY <1>0, <1>1, <2>1, <2>2, AppendTextKeeps, MarkType DEF NullColumn
<1>2. CASE OutOfBytes
  BY <1>2, ReportKeeps DEF OutOfBytes, buffers
<1>3. CASE DecodeShort
  BY <1>3, ReportKeeps DEF DecodeShort, buffers
<1>4. CASE DecodeFixed
  <2> DEFINE bytes == BytesAt(ValueStart, ValueEnd - ValueStart)
  <2>1. /\ pc \in Working /\ k <= Len(input.tuples)
        /\ ValueStart \in Nat /\ ValueEnd \in Nat
        /\ pos <= ValueStart /\ ValueStart <= ValueEnd
        /\ callbacks[col] \in FixedKinds
    BY <1>4, ValueType DEF DecodeFixed
  <2>2. ValueEnd - pos <= size /\ pos <= ValueEnd
    BY <1>0, <1>4, <2>1 DEF DecodeFixed, ValueFits
  <2>3. pos' \in Nat /\ size' \in 0..(WordRange - 1) /\ InsideTuple'
    BY <1>4, <2>1, <2>2, AdvanceKeeps DEF DecodeFixed
  <2>4. bytes \in Seq(Byte)
    BY <2>1, CurrentType, BytesAtType DEF IInv
  <2>5. Printed(callbacks[col], bytes) \in Seq(Symbol)
    BY <2>1, <2>4, MarkType DEF Kinds
  <2> QED
    BY <1>4, <2>1, <2>3, <2>5, AppendTextKeeps DEF DecodeFixed
<1>5. CASE DecodeChars
  <2> DEFINE bytes == BytesAt(ValueStart, ValueEnd - ValueStart)
             s == IF callbacks[col] = "name" THEN UpToNul(bytes) ELSE bytes
  <2>0. {"char", "name"} \in SUBSET FixedKinds
    <3>1. Layout("char", 1, 1) \in Layouts /\ Layout("name", NameLen, 4) \in Layouts
      BY DEF Layouts, CharLayouts
    <3>2. Layout("char", 1, 1).kind = "char" /\ Layout("name", NameLen, 4).kind = "name"
      BY DEF Layout
    <3> QED
      BY <3>1, <3>2 DEF FixedKinds
  <2>1. /\ pc \in Working /\ k <= Len(input.tuples)
        /\ ValueStart \in Nat /\ ValueEnd \in Nat
        /\ pos <= ValueStart /\ ValueStart <= ValueEnd
    BY <1>5, <2>0, ValueType DEF DecodeChars
  <2>2. ValueEnd - pos <= size /\ pos <= ValueEnd
    BY <1>0, <1>5, <2>1 DEF DecodeChars, ValueFits
  <2>3. pos' \in Nat /\ size' \in 0..(WordRange - 1) /\ InsideTuple'
    BY <1>5, <2>1, <2>2, AdvanceKeeps DEF DecodeChars
  <2>4. bytes \in Seq(Byte)
    BY <2>1, CurrentType, BytesAtType DEF IInv
  <2>5. s \in Seq(Byte)
    BY <2>4, UpToNulType
  <2>6. EncodeText(s)
    BY <1>5 DEF DecodeChars
  <2> HIDE DEF s
  <2> QED
    BY <1>5, <2>1, <2>3, <2>5, <2>6, EncodeTextKeeps DEF DecodeChars
<1>6. CASE DecodeIgnore
  <2>1. pc \in Working /\ pc' = pc /\ pc = "column"
    BY <1>6 DEF DecodeIgnore, Decoding, AtColumn, Working
  <2>2. pos' \in Nat /\ size' \in 0..(WordRange - 1) /\ InsideTuple'
    BY <1>0, <1>6, <2>1, AdvanceKeeps DEF DecodeIgnore
  <2> QED
    BY <1>0, <1>6, <2>1, <2>2, MoveKeeps DEF DecodeIgnore
<1>7. CASE DecodeString
  <2>1. pc \in Working /\ pc' = "string"
    BY <1>7 DEF DecodeString, Decoding, AtColumn, Working
  <2>2. InsideTuple'
    BY <1>0, <1>7, <2>1 DEF DecodeString, InsideTuple, Current
  <2> QED
    BY <1>0, <1>7, <2>1, <2>2, MoveKeeps DEF DecodeString
<1> QED
  BY <1>1, <1>2, <1>3, <1>4, <1>5, <1>6, <1>7 DEF DecodeColumn

(* The sizes decode_string computes.                                       *)
LEMMA TextSizes ==
  ASSUME IInv, pc = "string"
  PROVE  /\ ExternalSize \in Nat /\ ShortSize \in Nat /\ LongSize \in Nat
         /\ Current.bytes \in Seq(Byte) /\ Current.beyond \in Byte
         /\ Current.inflated \in Seq(Byte)
<1>1. pos \in Nat /\ k <= Len(input.tuples)
  BY DEF IInv, TypeOK, TupleAtHand, Working
<1>2. /\ Current.bytes \in Seq(Byte) /\ Current.beyond \in Byte
      /\ Current.inflated \in Seq(Byte)
  BY <1>1, CurrentType DEF IInv
<1>3. /\ ByteAt(pos) \in Nat /\ ByteAt(pos + 1) \in Nat
      /\ ByteAt(pos + 2) \in Nat /\ ByteAt(pos + 3) \in Nat
  <2>1. \A n \in 0..3 : ByteAt(pos + n) \in Byte
    BY <1>1, <1>2, ByteAtType
  <2>2. ByteAt(pos + 0) \in Byte /\ pos + 0 = pos
    BY <1>1, <2>1
  <2> QED
    BY <2>1, <2>2 DEF Byte
<1>4. ExternalSize \in Nat
  BY DEF ExternalSize, OnDisk
<1>5. ShortSize \in Nat
  BY <1>3 DEF ShortSize, LengthByte
<1>6. LongSize \in Nat
  BY <1>3 DEF LongSize, LengthByte
<1> QED
  BY <1>2, <1>4, <1>5, <1>6

(* A text of n bytes is taken from the tuple.                              *)
LEMMA TakeBytes ==
  ASSUME IInv, pc = "string", NEW n \in Nat, n <= size, Advance(pos + n),
         UNCHANGED <<input, k>>
  PROVE  pos' \in Nat /\ size' \in 0..(WordRange - 1) /\ InsideTuple'
<1>1. pos \in Nat /\ size \in Nat
  BY DEF IInv, TypeOK
<1>2. pos + n \in Nat /\ pos <= pos + n /\ (pos + n) - pos <= size
  BY <1>1
<1> QED
  BY <1>2, AdvanceKeeps DEF Working

LEMMA TextStep == IInv /\ DecodeText => IInv'
<1> SUFFICES ASSUME IInv, DecodeText PROVE IInv'
  OBVIOUS
<1>0. /\ pos \in Nat /\ size \in Nat /\ col \in Nat \ {0}
  BY DEF IInv, TypeOK
<1>1. pc = "string" =>
        /\ ExternalSize \in Nat /\ ShortSize \in Nat /\ LongSize \in Nat
        /\ Current.bytes \in Seq(Byte) /\ Current.beyond \in Byte
        /\ Current.inflated \in Seq(Byte)
  BY TextSizes
<1>2. "string" \in Working
  BY DEF Working
<1>3. CASE SkipPadding
  <2>1. pos' \in Nat /\ size' \in 0..(WordRange - 1) /\ InsideTuple'
    BY <1>0, <1>3, TakeBytes DEF SkipPadding, AtPadding
  <2> QED
    BY <1>0, <1>2, <1>3, <2>1, MoveKeeps DEF SkipPadding, AtPadding
<1>4. CASE OnlyPadding
  BY <1>4, ReportKeeps DEF OnlyPadding, buffers
<1>5. CASE External
  <2>1. pos' \in Nat /\ size' \in 0..(WordRange - 1) /\ InsideTuple'
    BY <1>1, <1>5, TakeBytes DEF External, AtText
  <2>2. Marker(IF input.toast THEN "inMemory" ELSE "toasted") \in Seq(Symbol)
    BY MarkType
  <2> QED
    BY <1>2, <1>5, <2>1, <2>2, AppendTextKeeps DEF External, AtText
<1>6. CASE Fetch
  <2>1. pos' \in Nat /\ size' \in 0..(WordRange - 1) /\ InsideTuple'
    BY <1>1, <1>6, TakeBytes DEF Fetch, AtPointer, AtText
  <2> DEFINE found(n) == [i \in 1..n |-> [what |-> "fetched", of |-> <<>>]]
  <2>2. ASSUME NEW n \in 0..(EncodeSize - 1), AppendText(found(n)), UNCHANGED col
        PROVE  IInv'
    <3>1. n \in Nat
      BY LimitsAssumption
    <3>2. found(n) \in Seq(Symbol)
      BY <3>1, MarkType
    <3> HIDE DEF found
    <3> QED
      BY <1>2, <1>6, <2>1, <2>2, <3>2, AppendTextKeeps DEF Fetch, AtPointer, AtText
  <2>3. CASE pc' = "column" /\ col' = col + 1 /\ UNCHANGED <<source, tmpBuff, text>>
    BY <1>0, <1>2, <1>6, <2>1, <2>3, MoveKeeps DEF Fetch, AtPointer, AtText
  <2> QED
    BY <1>6, <2>2, <2>3 DEF Fetch
<1>7. CASE FetchFails
  BY <1>7, ReportKeeps DEF FetchFails, buffers
<1>8. CASE FetchEnds
  BY <1>8, StopKeeps DEF FetchEnds, Halted
<1>9. CASE Short
  <2>1. pos' \in Nat /\ size' \in 0..(WordRange - 1) /\ InsideTuple'
    BY <1>1, <1>9, TakeBytes DEF Short, AtText
  <2>2. BytesAt(pos + 1, ShortSize - 1) \in Seq(Byte)
    BY <1>0, <1>1, <1>9, BytesAtType DEF Short, AtText
  <2> QED
    BY <1>2, <1>9, <2>1, <2>2, EncodeTextKeeps DEF Short, AtText
<1>10. CASE Long
  <2>1. pos' \in Nat /\ size' \in 0..(WordRange - 1) /\ InsideTuple'
    BY <1>1, <1>10, TakeBytes DEF Long, AtText
  <2>2. BytesAt(pos + 4, LongSize - 4) \in Seq(Byte)
    BY <1>0, <1>1, <1>10, BytesAtType DEF Long, AtText
  <2> QED
    BY <1>2, <1>10, <2>1, <2>2, EncodeTextKeeps DEF Long, AtText
<1>11. CASE Compressed
  <2>1. pos' \in Nat /\ size' \in 0..(WordRange - 1) /\ InsideTuple'
    BY <1>1, <1>11, TakeBytes DEF Compressed, AtText
  <2>2. CASE EncodeText(Current.inflated)
    BY <1>1, <1>2, <1>11, <2>1, <2>2, EncodeTextKeeps DEF Compressed, AtText
  <2>3. CASE AppendText(Marker("compressed"))
    BY <1>2, <1>11, <2>1, <2>3, MarkType, AppendTextKeeps DEF Compressed, AtText
  <2> QED
    BY <1>11, <2>2, <2>3 DEF Compressed
<1>12. CASE BadText
  BY <1>12, ReportKeeps DEF BadText, buffers
<1> QED
  BY <1>3, <1>4, <1>5, <1>6, <1>7, <1>8, <1>9, <1>10, <1>11, <1>12 DEF DecodeText

(* What CopyAppend has to add, and the room it needs.                      *)
LEMMA AdditionType ==
  ASSUME IInv, Appending
  PROVE  /\ Addition \in Seq(Symbol) /\ Len(Addition) \in Nat
         /\ line \in Seq(Symbol) /\ Len(line) \in Nat
         /\ Len(line \o Addition) = Len(line) + Len(Addition)
         /\ line \o Addition \in Seq(Symbol)
         /\ Len(Addition) = IF pc = "tab" THEN 1 ELSE Len(text)
         /\ pc \in {"tab", "append"} /\ maxlen \in Nat /\ AllocLimit \in Nat
<1>1. /\ text \in Seq(Symbol) /\ line \in Seq(Symbol) /\ maxlen \in Nat
      /\ AllocLimit \in Nat
  BY LimitsAssumption DEF IInv, TypeOK
<1>2. Addition \in Seq(Symbol) /\ Len(Addition) = IF pc = "tab" THEN 1 ELSE Len(text)
  <2>1. CASE pc = "tab"
    <3>1. <<Char(Tab)>> \in Seq(Symbol) /\ Len(<<Char(Tab)>>) = 1
      BY MarkType
    <3> QED
      BY <2>1, <3>1 DEF Addition
  <2>2. CASE pc # "tab"
    BY <1>1, <2>2 DEF Addition
  <2> QED
    BY <2>1, <2>2
<1>3. /\ line \o Addition \in Seq(Symbol)
      /\ Len(line \o Addition) = Len(line) + Len(Addition)
  BY <1>1, <1>2, ConcatProperties
<1>4. Len(Addition) \in Nat /\ Len(line) \in Nat
  BY <1>1, <1>2
<1>5. pc \in {"tab", "append"}
  BY DEF Appending
<1> QED
  BY <1>1, <1>2, <1>3, <1>4, <1>5

LEMMA CopyStep == IInv /\ CopyText => IInv'
<1> SUFFICES ASSUME IInv, CopyText PROVE IInv'
  OBVIOUS
<1>0. /\ EncodeSize \in Nat /\ AllocLimit \in Nat
      /\ maxlen \in Nat /\ newlen \in Nat /\ Len(tmpBuff) \in Nat
      /\ Len(line) \in Nat /\ Len(text) \in Nat /\ col \in Nat \ {0}
  BY LimitsAssumption DEF IInv, TypeOK
<1>1. Current' = Current /\ InsideTuple /\ (pc \in Working => k <= Len(input.tuples))
  <2>1. UNCHANGED <<input, k>>
    BY DEF CopyText, EncodeChar, EncodeTooLarge, EncodeDone, NoTab, AppendTooLarge,
           AppendFits, Enlarge, Double, Enlarged
  <2> QED
    BY <2>1 DEF IInv, Current, TupleAtHand
(* The tuple and what is left of it stay as they are.                      *)
<1>2. ASSUME pc \in Working, UNCHANGED <<input, named, callbacks, k, pos, size, reports>>
      PROVE  TupleAtHand' /\ InsideTuple'
  BY <1>1, <1>2 DEF IInv, TupleAtHand, InsideTuple
<1>3. CASE EncodeChar
  <2>1. /\ source \in Seq(Byte) /\ source # <<>> /\ tmpBuff \in Seq(Symbol)
        /\ pc = "encode" /\ pc' = "encode" /\ pc \in Working
    BY <1>3 DEF EncodeChar, IInv, TypeOK, Working
  <2>2. Head(source) \in Byte /\ Tail(source) \in Seq(Byte)
    BY <2>1
  <2> DEFINE e == Escape(Head(source))
  <2>3. e \in Seq(Symbol) /\ Len(e) \in 1..2
    BY <2>2, EscapeType
  <2> HIDE DEF e
  <2>4. tmpBuff \o e \in Seq(Symbol) /\ Len(tmpBuff \o e) = Len(tmpBuff) + Len(e)
    BY <2>1, <2>3
  <2>5. tmpBuff' = tmpBuff \o e /\ source' = Tail(source)
    BY <1>3 DEF EncodeChar, e
  <2>6. Len(tmpBuff') <= EncodeSize - 2
    <3>1. ~(Len(tmpBuff) > EncodeSize - 2 - 2)
      BY <1>3 DEF EncodeChar, EncodeFull
    <3>2. Len(tmpBuff') = Len(tmpBuff) + Len(e)
      BY <2>4, <2>5
    <3> DEFINE a == Len(tmpBuff)
               b == Len(tmpBuff')
               c == Len(e)
    <3>3. a \in Nat /\ c \in 1..2 /\ b = a + c /\ ~(a > EncodeSize - 2 - 2)
      BY <1>0, <2>3, <3>1, <3>2
    <3> HIDE DEF a, b, c
    <3>4. b <= EncodeSize - 2
      BY <1>0, <3>3
    <3> QED
      BY <3>4 DEF b
  <2>7. TypeOK'
    BY <1>3, <2>1, <2>2, <2>4, <2>5 DEF EncodeChar, IInv, TypeOK, Working, buffers
  <2>8. RoomToWrite'
    BY <1>3, <2>1, <2>6 DEF EncodeChar, IInv, RoomToWrite, buffers
  <2> QED
    BY <1>2, <1>3, <2>1, <2>7, <2>8 DEF EncodeChar, IInv
<1>4. CASE EncodeTooLarge
  BY <1>4, StopKeeps DEF EncodeTooLarge, Halted
<1>5. CASE EncodeDone
  <2>1. pc \in Working /\ pc' = "tab"
    BY <1>5 DEF EncodeDone, Working
  <2>2. TypeOK'
    BY <1>5, <2>1 DEF EncodeDone, IInv, TypeOK, Working, buffers
  <2>3. RoomToWrite'
    BY <1>5, <2>1 DEF EncodeDone, IInv, RoomToWrite, buffers
  <2> QED
    BY <1>2, <1>5, <2>1, <2>2, <2>3 DEF EncodeDone, IInv
<1>6. CASE NoTab
  <2>1. pc \in Working /\ pc' = "append"
    BY <1>6 DEF NoTab, Working
  <2>2. TypeOK'
    BY <1>6, <2>1 DEF NoTab, IInv, TypeOK, Working, buffers
  <2>3. RoomToWrite'
    BY <1>6, <2>1 DEF NoTab, IInv, RoomToWrite, buffers
  <2> QED
    BY <1>2, <1>6, <2>1, <2>2, <2>3 DEF NoTab, IInv
<1>7. CASE AppendTooLarge
  BY <1>7, StopKeeps DEF AppendTooLarge, Halted
<1>8. CASE AppendFits
  <2>1. /\ line \o Addition \in Seq(Symbol)
        /\ Len(line \o Addition) = Len(line) + Len(Addition)
        /\ Len(Addition) \in Nat /\ pc \in {"tab", "append"}
    BY <1>8, AdditionType DEF AppendFits
  <2>2. pc \in Working /\ pc' \in {"append", "column"} /\ col' \in Nat \ {0}
        /\ line' = line \o Addition
    BY <1>0, <1>8, <2>1 DEF AppendFits, Working
  <2>3. Len(line') < maxlen
    BY <1>0, <1>8, <2>1, <2>2 DEF AppendFits, Room
  <2>4. TypeOK'
    BY <1>8, <2>1, <2>2 DEF AppendFits, IInv, TypeOK, Working
  <2>5. RoomToWrite'
    BY <1>8, <2>2, <2>3 DEF AppendFits, IInv, RoomToWrite
  <2> QED
    BY <1>2, <1>8, <2>2, <2>4, <2>5 DEF AppendFits, IInv
<1>9. CASE Enlarge
  <2>1. /\ Len(Addition) = IF pc = "tab" THEN 1 ELSE Len(text)
        /\ Len(Addition) \in Nat /\ pc \in {"tab", "append"}
    BY <1>9, AdditionType DEF Enlarge
  <2>2. /\ pc \in Working /\ pc' = "enlarge" /\ resume' = pc
        /\ UNCHANGED <<text, line, maxlen, tmpBuff>> /\ newlen' = 2 * maxlen
    BY <1>9, <2>1 DEF Enlarge, Working
  <2>3. Needed' <= AllocLimit
    BY <1>0, <1>9, <2>1, <2>2 DEF Enlarge, Needed
  <2>4. TypeOK'
    BY <1>0, <1>9, <2>1, <2>2 DEF Enlarge, IInv, TypeOK, Working
  <2>5. RoomToWrite'
    BY <2>2, <2>3 DEF IInv, RoomToWrite
  <2> QED
    BY <1>2, <1>9, <2>2, <2>4, <2>5 DEF Enlarge, IInv
<1>10. CASE Double
  <2>1. pc \in Working /\ pc' = pc /\ newlen' \in Nat
    BY <1>0, <1>10 DEF Double, Working
  <2>2. TypeOK'
    BY <1>10, <2>1 DEF Double, IInv, TypeOK
  <2>3. RoomToWrite'
    BY <1>10, <2>1 DEF Double, IInv, RoomToWrite, Needed
  <2> QED
    BY <1>2, <1>10, <2>1, <2>2, <2>3 DEF Double, IInv
<1>11. CASE Enlarged
  <2>1. /\ pc \in Working /\ pc' \in {"tab", "append"} /\ Needed <= newlen
        /\ Needed <= AllocLimit /\ maxlen' = Clamped
    BY <1>11 DEF Enlarged, Working, IInv, TypeOK, RoomToWrite
  <2>2. Needed \in Nat /\ Len(line) < Needed
    BY <1>0 DEF Needed
  <2>3. maxlen' \in Nat /\ Len(line) < maxlen' /\ maxlen' <= AllocLimit
    BY <1>0, <2>1, <2>2 DEF Clamped
  <2>4. TypeOK'
    BY <1>11, <2>1, <2>3 DEF Enlarged, IInv, TypeOK, Working
  <2>5. RoomToWrite'
    BY <1>11, <2>1, <2>3 DEF Enlarged, IInv, RoomToWrite
  <2> QED
    BY <1>2, <1>11, <2>1, <2>4, <2>5 DEF Enlarged, IInv
<1> QED
  BY <1>3, <1>4, <1>5, <1>6, <1>7, <1>8, <1>9, <1>10, <1>11 DEF CopyText

LEMMA NextInv == IInv /\ [Next]_vars => IInv'
<1> SUFFICES ASSUME IInv, [Next]_vars PROVE IInv'
  OBVIOUS
<1>1. CASE PastBlock
  BY <1>1, StopKeeps DEF PastBlock, Halted
<1>2. CASE BytesLeft
  BY <1>2, ReportKeeps DEF BytesLeft, buffers
<1>3. CASE CopyFlush
  BY <1>3, ReportKeeps DEF CopyFlush
<1>4. CASE TuplesDone
  BY <1>4, StopKeeps DEF TuplesDone, Halted
<1>5. CASE UNCHANGED vars
  <2>1. TypeOK'
    BY <1>5 DEF vars, buffers, IInv, TypeOK
  <2>2. TupleAtHand' /\ InsideTuple'
    BY <1>5 DEF vars, buffers, IInv, TupleAtHand, InsideTuple, Current
  <2>3. RoomToWrite'
    BY <1>5 DEF vars, buffers, IInv, RoomToWrite, Needed
  <2> QED
    BY <2>1, <2>2, <2>3 DEF IInv
<1>6. CASE Ended
  BY <1>5, <1>6 DEF Ended
<1> QED
  BY <1>1, <1>2, <1>3, <1>4, <1>5, <1>6, TypesStep, TupleStep, ColumnStep,
     TextStep, CopyStep DEF Next

-----------------------------------------------------------------------------

LEMMA Invariance == Spec => []IInv
<1>1. Init => IInv
  BY InitInv
<1>2. IInv /\ [Next]_vars => IInv'
  BY NextInv
<1> QED
  BY <1>1, <1>2, PTL DEF Spec

(* The unsigned size never leaves its range and every column decoded has a *)
(* decoder, for every list of types and every tuple.                       *)
THEOREM TypeCorrect == Spec => []TypeOK
<1>1. IInv => TypeOK
  BY DEF IInv
<1> QED
  BY <1>1, Invariance, PTL

(* No decoder takes more than the bytes left of its tuple, padding         *)
(* included, so the unsigned size never wraps inside a tuple whose header  *)
(* is not already longer than its item.                                    *)
THEOREM DecodersStayInside == Spec => []InsideTuple
<1>1. IInv => InsideTuple
  BY DEF IInv
<1> QED
  BY <1>1, Invariance, PTL

(* The encoding buffer and the COPY line always have room for what is      *)
(* written to them and its trailing zero, within the limit of an           *)
(* allocation, whatever the sizes of the buffers.                          *)
THEOREM BuffersFit == Spec => []LineFits
<1>1. IInv => LineFits
  <2>1. IInv => Len(tmpBuff) \in Nat /\ EncodeSize \in Nat
    BY LimitsAssumption DEF IInv, TypeOK
  <2> QED
    BY <2>1 DEF IInv, RoomToWrite, LineFits
<1> QED
  BY <1>1, Invariance, PTL
-----------------------------------------------------------------------------
(* How long the line gets.                                                 *)

(* A run that decodes neither external nor compressed values, at a tuple   *)
(* whose header is no longer than its item.                                *)
Small == ~input.toast /\ ~input.inflates /\ Current.hoff <= Current.len

(* What so many columns may write but for the bytes of their texts: the    *)
(* longest printed value and a tab each.                                   *)
Allowed(c) == (PrintMax + 1) * c

(* What the columns before this one may have written: two characters for   *)
(* each byte passed, and what is allowed for each column.                  *)
Written == 2 * pos + Allowed(col - 1)

(* The first text on a line has no tab before it.                          *)
Untabbed == IF line = <<>> THEN 1 ELSE 0

LineShort == line = <<>> \/ Len(line) < Written

(* The line, with what is still to be encoded or appended, stays within    *)
(* what the bytes and columns passed account for.                          *)
LineBound ==
  /\ pc \in Working \ {"column"} => col <= Len(callbacks)
  /\ Small =>
       /\ pc \in {"column", "string"} => LineShort
       /\ pc = "encode" =>
            /\ Len(line) + Len(tmpBuff) + 2 * Len(source) < Written + Untabbed
            /\ Len(tmpBuff) + 2 * Len(source) <= 2 * pos
       /\ pc = "tab" \/ (pc = "enlarge" /\ resume = "tab") =>
            Len(line) + Len(text) < Written + PrintMax + Untabbed
       /\ pc = "enlarge" /\ resume = "tab" => line # <<>>
       /\ pc = "append" \/ (pc = "enlarge" /\ resume = "append") =>
            Len(line) + Len(text) < Written + PrintMax + 1
  /\ SmallTuplesNeverEnd

LEMMA OneMore ==
  ASSUME NEW m \in Nat, NEW c \in Nat
  PROVE  /\ m * c \in Nat
         /\ m * (c + 1) = m * c + m
  OBVIOUS

LEMMA NotFewer ==
  ASSUME NEW m \in Nat, NEW c \in Nat, NEW d \in Nat, c <= d
  PROVE  m * c <= m * d
  OBVIOUS

LEMMA AllowedGrows ==
  ASSUME NEW c \in Nat
  PROVE  /\ Allowed(c) \in Nat
         /\ Allowed(c + 1) = Allowed(c) + PrintMax + 1
         /\ \A d \in Nat : c <= d => Allowed(c) <= Allowed(d)
<1>1. PrintMax \in Nat /\ PrintMax + 1 \in Nat
  BY PrintAssumption
<1> DEFINE m == PrintMax + 1
<1>2. m \in Nat
  BY <1>1
<1>3. \A b \in Nat : Allowed(b) = m * b
  BY DEF Allowed
<1> HIDE DEF m
<1>4. m * c \in Nat /\ m * (c + 1) = m * c + m
  BY <1>2, OneMore
<1>5. \A d \in Nat : c <= d => m * c <= m * d
  BY <1>2, NotFewer
<1>6. Allowed(c + 1) = m * (c + 1) /\ Allowed(c) = m * c
  BY <1>3
<1>7. Allowed(c + 1) = Allowed(c) + PrintMax + 1
  <2>1. Allowed(c + 1) = Allowed(c) + m /\ Allowed(c) \in Nat
    BY <1>4, <1>6
  <2> QED
    BY <1>1, <2>1 DEF m
<1> QED
  BY <1>3, <1>4, <1>5, <1>7

(* What is used of the types.                                              *)
LEMMA Counts ==
  ASSUME IInv
  PROVE  /\ pos \in Nat /\ size \in Nat /\ col \in Nat \ {0}
         /\ Len(line) \in Nat /\ Len(text) \in Nat
         /\ Len(tmpBuff) \in Nat /\ Len(source) \in Nat
         /\ Len(callbacks) \in Nat
         /\ EncodeSize \in Nat /\ AllocLimit \in Nat
         /\ PrintMax \in Nat /\ PrintMax >= 2
         /\ Written \in Nat /\ Untabbed \in {0, 1}
         /\ line = <<>> => Len(line) = 0
         /\ line # <<>> => Untabbed = 0
<1>1. /\ pos \in Nat /\ size \in Nat /\ col \in Nat \ {0}
      /\ line \in Seq(Symbol) /\ text \in Seq(Symbol)
      /\ tmpBuff \in Seq(Symbol) /\ source \in Seq(Byte)
      /\ callbacks \in Seq(Kinds)
      /\ EncodeSize \in Nat /\ AllocLimit \in Nat
  BY LimitsAssumption DEF IInv, TypeOK
<1>2. col - 1 \in Nat
  BY <1>1
<1>3. Allowed(col - 1) \in Nat
  BY <1>2, AllowedGrows
<1>4. PrintMax \in Nat /\ PrintMax >= 2
  BY PrintAssumption
<1> QED
  BY <1>1, <1>3, <1>4 DEF Written, Untabbed

(* Passing n more bytes allows for two symbols each.                       *)
LEMMA Allowance ==
  ASSUME NEW p \in Nat, NEW q \in Nat, NEW a \in Nat, NEW b \in Nat,
         NEW n \in Nat, p + n <= q, a <= b
  PROVE  /\ 2 * p + a \in Nat /\ 2 * q + b \in Nat
         /\ 2 * p + a + 2 * n <= 2 * q + b
  OBVIOUS

(* What may have been written never shrinks as bytes are passed.           *)
LEMMA WrittenGrows ==
  ASSUME IInv, NEW n \in Nat, pos' \in Nat, pos + n <= pos',
         col' \in Nat, col <= col'
  PROVE  /\ Written \in Nat /\ Written' \in Nat
         /\ Written + 2 * n <= Written'
<1>1. pos \in Nat /\ col \in Nat \ {0}
  BY Counts
<1>2. col - 1 \in Nat /\ col' - 1 \in Nat /\ col - 1 <= col' - 1
  <2>1. ASSUME NEW c \in Nat \ {0}, NEW d \in Nat, c <= d
        PROVE  c - 1 \in Nat /\ d - 1 \in Nat /\ c - 1 <= d - 1
    BY <2>1
  <2> QED
    BY <1>1, <2>1
<1>3. /\ Allowed(col - 1) \in Nat /\ Allowed(col' - 1) \in Nat
      /\ Allowed(col - 1) <= Allowed(col' - 1)
  BY <1>2, AllowedGrows
<1>4. /\ Written = 2 * pos + Allowed(col - 1)
      /\ Written' = 2 * pos' + Allowed(col' - 1)
  BY DEF Written, Allowed
<1> QED
  BY <1>1, <1>3, <1>4, Allowance

(* Nothing has been passed that is not in the tuple.                       *)
LEMMA WithinTuple ==
  ASSUME IInv, pc \in Working, Small
  PROVE  /\ pos <= Current.len - Current.hoff
         /\ Current.len \in Nat /\ Current.hoff \in Nat
<1>1. pos + size = Current.len - Current.hoff /\ pos \in Nat /\ size \in Nat
  BY Counts DEF IInv, InsideTuple, Small
<1>2. Current.len \in Nat /\ Current.hoff \in Nat
  BY CurrentType DEF IInv, TupleAtHand
<1> QED
  BY <1>1, <1>2

(* Bytes taken from the tuple are as many as asked for.                    *)
LEMMA BytesAtLen ==
  ASSUME NEW p \in Nat, NEW n \in Int, BytesAt(p, n) \in Seq(Byte),
         NEW m \in Nat, n <= m
  PROVE  Len(BytesAt(p, n)) <= m
<1> DEFINE s == BytesAt(p, n)
<1>1. DOMAIN s = 1..n
  BY DEF BytesAt
<1>2. s \in Seq(Byte)
  OBVIOUS
<1> HIDE DEF s
<1>3. DOMAIN s = 1..Len(s) /\ Len(s) \in Nat
  BY <1>2
<1>4. Len(s) <= m
  <2> SUFFICES ASSUME Len(s) > m PROVE FALSE
    BY <1>3
  <2>1. Len(s) \in 1..n
    BY <1>1, <1>3
  <2> QED
    BY <1>3, <2>1
<1> QED
  BY <1>4 DEF s

(* Between tuples, and where the program stopped otherwise, nothing is     *)
(* asked.                                                                  *)
LEMMA RestBounded ==
  ASSUME pc' \in {"types", "tuple", "refused", "finished", "crash"}
  PROVE  LineBound'
  BY DEF LineBound, Working, SmallTuplesNeverEnd

(* A short text is handed to CopyAppend.                                   *)
LEMMA TextBounded ==
  ASSUME IInv, LineBound, pc \in {"column", "string"}, col <= Len(callbacks),
         NEW t \in Seq(Symbol), Len(t) <= PrintMax, AppendText(t),
         pos' \in Nat, pos <= pos',
         UNCHANGED <<input, callbacks, k, col, buffers>>
  PROVE  LineBound'
<1>1. /\ pc' = "tab" /\ text' = t /\ Small' = Small
      /\ UNCHANGED <<line, col, callbacks>> /\ Untabbed' = Untabbed
  BY DEF AppendText, buffers, Small, Current, Untabbed
<1>2. Small => Len(line) + Len(t) < Written' + PrintMax + Untabbed
  <2> SUFFICES ASSUME Small PROVE Len(line) + Len(t) < Written' + PrintMax + Untabbed
    OBVIOUS
  <2>1. LineShort
    BY DEF LineBound
  <2>2. Written' \in Nat /\ Written \in Nat /\ Written <= Written'
    <3>1. pos \in Nat /\ col \in Nat \ {0}
      BY Counts
    <3>2. col' \in Nat /\ col <= col' /\ pos + 0 <= pos'
      BY <1>1, <3>1
    <3>3. Written \in Nat /\ Written' \in Nat /\ Written + 2 * 0 <= Written'
      BY <3>2, WrittenGrows
    <3> QED
      BY <3>3
  <2>3. Len(t) \in Nat /\ Len(line) \in Nat /\ PrintMax \in Nat
    BY Counts
  <2>4. CASE line = <<>>
    <3>1. Len(line) = 0 /\ Untabbed = 1
      BY <2>4 DEF Untabbed
    <3> QED
      BY <2>2, <2>3, <3>1
  <2>5. CASE line # <<>>
    <3>1. Len(line) < Written /\ Untabbed = 0
      BY <2>1, <2>5 DEF LineShort, Untabbed
    <3> QED
      BY <2>2, <2>3, <3>1
  <2> QED
    BY <2>4, <2>5
<1> QED
  BY <1>1, <1>2 DEF LineBound, SmallTuplesNeverEnd

(* Bytes taken from the tuple are handed to CopyAppendEncode.              *)
LEMMA EncodeBounded ==
  ASSUME IInv, LineBound, pc \in {"column", "string"}, col <= Len(callbacks),
         NEW s \in Seq(Byte), NEW n \in Nat, Len(s) <= n, EncodeText(s),
         pos' \in Nat, pos + n <= pos',
         UNCHANGED <<input, callbacks, k, col, buffers>>
  PROVE  LineBound'
<1>1. /\ pc' = "encode" /\ source' = s /\ tmpBuff' = <<>> /\ Small' = Small
      /\ UNCHANGED <<line, col, callbacks>> /\ Untabbed' = Untabbed
  BY DEF EncodeText, buffers, Small, Current, Untabbed
<1>2. Len(s) \in Nat /\ Len(<<>>) = 0
  OBVIOUS
<1>3. Small => /\ Len(line) + 0 + 2 * Len(s) < Written' + Untabbed
               /\ 0 + 2 * Len(s) <= 2 * pos'
  <2> SUFFICES ASSUME Small
               PROVE  /\ Len(line) + 0 + 2 * Len(s) < Written' + Untabbed
                      /\ 0 + 2 * Len(s) <= 2 * pos'
    OBVIOUS
  <2>1. LineShort
    BY DEF LineBound
  <2>2. pos \in Nat /\ col \in Nat \ {0} /\ Len(line) \in Nat
    BY Counts
  <2>3. col' \in Nat /\ col <= col'
    BY <1>1, <2>2
  <2>4. /\ Written \in Nat /\ Written' \in Nat
        /\ Written + 2 * n <= Written'
    BY <2>3, WrittenGrows
  <2>5. 0 + 2 * Len(s) <= 2 * pos'
    BY <1>2, <2>2
  <2>6. CASE line = <<>>
    <3>1. Len(line) = 0 /\ Untabbed = 1
      BY <2>6 DEF Untabbed
    <3> QED
      BY <1>2, <2>4, <2>5, <3>1
  <2>7. CASE line # <<>>
    <3>1. Len(line) < Written /\ Untabbed = 0
      BY <2>1, <2>7 DEF LineShort, Untabbed
    <3> QED
      BY <1>2, <2>2, <2>4, <2>5, <3>1
  <2> QED
    BY <2>6, <2>7
<1> QED
  BY <1>1, <1>2, <1>3 DEF LineBound, SmallTuplesNeverEnd

(* More bytes are passed and nothing is written.                           *)
LEMMA PassBounded ==
  ASSUME IInv, LineBound, pc \in {"column", "string"},
         pc' = "column" \/ (pc' = "string" /\ col' <= Len(callbacks)),
         col' \in Nat, col <= col', pos' \in Nat, pos <= pos',
         UNCHANGED <<input, callbacks, k, line>>
  PROVE  LineBound'
<1>1. Small' = Small
  BY DEF Small, Current
<1>2. Small => LineShort'
  <2> SUFFICES ASSUME Small PROVE LineShort'
    OBVIOUS
  <2>1. LineShort
    BY DEF LineBound
  <2>2. pos \in Nat /\ Len(line) \in Nat
    BY Counts
  <2>3. pos + 0 <= pos'
    BY <2>2
  <2>4. Written \in Nat /\ Written' \in Nat /\ Written + 2 * 0 <= Written'
    BY <2>3, WrittenGrows
  <2>5. Len(line) < Written => Len(line) < Written'
    BY <2>2, <2>4
  <2> QED
    BY <2>1, <2>5 DEF LineShort
<1> QED
  BY <1>1, <1>2 DEF LineBound, SmallTuplesNeverEnd, Working

(* A printed text is no longer than the longest.                           *)
LEMMA PrintedLen ==
  ASSUME NEW what, NEW bytes
  PROVE  Len(Printed(what, bytes)) <= PrintMax
<1>1. PrintLength(what, bytes) \in Nat /\ PrintLength(what, bytes) <= PrintMax
  BY PrintLengthType
<1>2. Len(Printed(what, bytes)) = PrintLength(what, bytes)
  BY <1>1 DEF Printed
<1> QED
  BY <1>1, <1>2

LEMMA ColumnBounded == IInv /\ LineBound /\ DecodeColumn => LineBound'
<1> SUFFICES ASSUME IInv, LineBound, DecodeColumn PROVE LineBound'
  OBVIOUS
<1>0. /\ pc = "column" /\ col <= Len(callbacks)
      /\ UNCHANGED <<input, callbacks, k>> \/ pc' = "tuple"
      /\ pos \in Nat /\ size \in Nat /\ col \in Nat \ {0} /\ Len(callbacks) \in Nat
  BY Counts DEF DecodeColumn, NullColumn, OutOfBytes, DecodeFixed, DecodeChars,
                DecodeShort, DecodeIgnore, DecodeString, Decoding, AtColumn, ReportAs
<1>1. CASE NullColumn
  <2>1. NullMark \in Seq(Symbol) /\ Len(NullMark) = 2
    BY MarkType DEF NullMark
  <2>2. NullMark \in Seq(Symbol) /\ Len(NullMark) <= PrintMax
    BY <2>1, Counts
  <2>3. AppendText(NullMark) /\ pos' = pos /\ pos' \in Nat /\ pos <= pos'
    BY <1>0, <1>1 DEF NullColumn
  <2> QED
    BY <1>0, <1>1, <2>2, <2>3, TextBounded DEF NullColumn
<1>2. CASE OutOfBytes \/ DecodeShort
  BY <1>2, RestBounded DEF OutOfBytes, DecodeShort, ReportAs
<1>3. CASE DecodeFixed
  <2> DEFINE bytes == BytesAt(ValueStart, ValueEnd - ValueStart)
             t == Printed(callbacks[col], bytes)
  <2>1. /\ ValueStart \in Nat /\ ValueEnd \in Nat /\ k <= Len(input.tuples)
        /\ pos <= ValueStart /\ ValueStart <= ValueEnd
        /\ callbacks[col] \in FixedKinds
    BY <1>3, ValueType DEF DecodeFixed
  <2>2. bytes \in Seq(Byte)
    BY <2>1, CurrentType, BytesAtType DEF IInv
  <2>3. t \in Seq(Symbol) /\ Len(t) <= PrintMax
    BY <2>1, <2>2, MarkType, PrintedLen DEF Kinds
  <2>4. AppendText(t) /\ pos' = ValueEnd
    BY <1>3 DEF DecodeFixed, Advance
  <2> HIDE DEF t
  <2> QED
    BY <1>0, <1>3, <2>1, <2>3, <2>4, TextBounded DEF DecodeFixed
<1>4. CASE DecodeChars
  <2> DEFINE n == ValueEnd - ValueStart
             bytes == BytesAt(ValueStart, n)
             s == IF callbacks[col] = "name" THEN UpToNul(bytes) ELSE bytes
  <2>0. {"char", "name"} \in SUBSET FixedKinds
    <3>1. Layout("char", 1, 1) \in Layouts /\ Layout("name", NameLen, 4) \in Layouts
      BY DEF Layouts, CharLayouts
    <3>2. Layout("char", 1, 1).kind = "char" /\ Layout("name", NameLen, 4).kind = "name"
      BY DEF Layout
    <3> QED
      BY <3>1, <3>2 DEF FixedKinds
  <2>1. /\ ValueStart \in Nat /\ ValueEnd \in Nat /\ k <= Len(input.tuples)
        /\ pos <= ValueStart /\ ValueStart <= ValueEnd
    BY <1>4, <2>0, ValueType DEF DecodeChars
  <2>2. n \in Nat /\ pos + n <= ValueEnd
    BY <1>0, <2>1
  <2>3. bytes \in Seq(Byte)
    BY <2>1, CurrentType, BytesAtType DEF IInv
  <2>4. Len(bytes) <= n /\ Len(bytes) \in Nat
    <3> HIDE DEF n
    <3>1. n \in Int /\ n <= n
      BY <2>2
    <3>2. Len(BytesAt(ValueStart, n)) <= n
      BY <2>1, <2>2, <2>3, <3>1, BytesAtLen
    <3> QED
      BY <2>3, <3>2
  <2>5. EncodeText(s) /\ pos' = ValueEnd
    BY <1>4 DEF DecodeChars, Advance
  <2> HIDE DEF n, bytes
  <2>6. s \in Seq(Byte) /\ Len(s) <= n
    BY <2>2, <2>3, <2>4, UpToNulType
  <2> HIDE DEF s
  <2> QED
    BY <1>0, <1>4, <2>1, <2>2, <2>5, <2>6, EncodeBounded DEF DecodeChars
<1>5. CASE DecodeIgnore
  <2>1. /\ pc' = "column" /\ pos' = pos + size /\ col' = col + 1
        /\ UNCHANGED <<input, callbacks, k, line>>
    BY <1>0, <1>5 DEF DecodeIgnore, Advance, buffers
  <2> QED
    BY <1>0, <2>1, PassBounded
<1>6. CASE DecodeString
  <2>1. /\ pc' = "string" /\ pos' = pos /\ col' = col
        /\ UNCHANGED <<input, callbacks, k, line>>
    BY <1>6 DEF DecodeString, buffers
  <2> QED
    BY <1>0, <2>1, PassBounded
<1> QED
  BY <1>1, <1>2, <1>3, <1>4, <1>5, <1>6 DEF DecodeColumn

LEMMA TextStepBounded == IInv /\ LineBound /\ DecodeText => LineBound'
<1> SUFFICES ASSUME IInv, LineBound, DecodeText PROVE LineBound'
  OBVIOUS
<1>0. /\ pc = "string" /\ col <= Len(callbacks)
      /\ pos \in Nat /\ size \in Nat /\ col \in Nat \ {0} /\ Len(callbacks) \in Nat
  <2>1. pc = "string"
    BY DEF DecodeText, SkipPadding, OnlyPadding, External, Fetch, FetchFails,
           FetchEnds, Short, Long, Compressed, BadText, AtPadding, AtText, AtPointer
  <2> QED
    BY <2>1, Counts DEF LineBound, Working
<1>1. /\ ExternalSize \in Nat /\ ShortSize \in Nat /\ LongSize \in Nat
      /\ Current.bytes \in Seq(Byte) /\ Current.beyond \in Byte
  BY <1>0, TextSizes
<1>2. \A what \in {"toasted", "inMemory", "compressed"} :
        Marker(what) \in Seq(Symbol) /\ Len(Marker(what)) <= PrintMax
  BY MarkType, PrintedLen DEF Marker
<1>3. CASE SkipPadding
  <2>1. /\ pc' = "string" /\ pos' = pos + 1 /\ col' = col
        /\ UNCHANGED <<input, callbacks, k, line>>
    BY <1>0, <1>3 DEF SkipPadding, Advance, buffers
  <2> QED
    BY <1>0, <2>1, PassBounded
<1>4. CASE OnlyPadding \/ FetchFails \/ BadText
  BY <1>4, RestBounded DEF OnlyPadding, FetchFails, BadText, ReportAs
<1>5. CASE External
  <2>1. pos' = pos + ExternalSize
    BY <1>5 DEF External, Advance
  <2>2. PICK t : AppendText(t) /\ t \in Seq(Symbol) /\ Len(t) <= PrintMax
    BY <1>2, <1>5 DEF External
  <2> QED
    BY <1>0, <1>1, <1>5, <2>1, <2>2, TextBounded DEF External
<1>6. CASE Fetch
  <2>1. /\ pos' = pos + ExternalSize /\ UNCHANGED <<input, callbacks, k, line>>
        /\ UNCHANGED buffers
    BY <1>6 DEF Fetch, Advance, buffers
  <2>2. CASE pc' = "tab" /\ UNCHANGED col
    <3>1. ~Small' /\ pc' # "exit"
      BY <1>6, <2>1, <2>2 DEF Fetch, AtPointer, Small
    <3> QED
      BY <1>0, <2>1, <2>2, <3>1 DEF LineBound, SmallTuplesNeverEnd
  <2>3. CASE pc' = "column" /\ col' = col + 1
    BY <1>0, <1>1, <2>1, <2>3, PassBounded
  <2> QED
    BY <1>6, <2>2, <2>3 DEF Fetch, AppendText
<1>7. CASE FetchEnds
  <2>1. pc' = "exit" /\ UNCHANGED <<input, k>>
    BY <1>7 DEF FetchEnds
  <2>2. input.toast \/ input.asserts
    BY <1>7 DEF FetchEnds, AtPointer
  <2>3. input'.toast \/ input'.asserts
    BY <2>1, <2>2
  <2>4. SmallTuplesNeverEnd'
    BY <2>3 DEF SmallTuplesNeverEnd
  <2> QED
    BY <2>1, <2>4 DEF LineBound, Working
<1>8. CASE Short
  <2>1. pos' = pos + ShortSize /\ EncodeText(BytesAt(pos + 1, ShortSize - 1))
    BY <1>8 DEF Short, Advance
  <2> DEFINE s == BytesAt(pos + 1, ShortSize - 1)
  <2>2. s \in Seq(Byte)
    BY <1>0, <1>1, BytesAtType
  <2>3. Len(s) <= ShortSize
    <3>1. /\ pos + 1 \in Nat /\ ShortSize - 1 \in Int
          /\ ShortSize - 1 <= ShortSize /\ ShortSize \in Nat
      BY <1>0, <1>1
    <3> QED
      BY <2>2, <3>1, BytesAtLen
  <2> HIDE DEF s
  <2>4. EncodeText(s)
    BY <2>1 DEF s
  <2> QED
    BY <1>0, <1>1, <1>8, <2>1, <2>2, <2>3, <2>4, EncodeBounded DEF Short
<1>9. CASE Long
  <2>1. pos' = pos + LongSize /\ EncodeText(BytesAt(pos + 4, LongSize - 4))
    BY <1>9 DEF Long, Advance
  <2> DEFINE s == BytesAt(pos + 4, LongSize - 4)
  <2>2. s \in Seq(Byte)
    BY <1>0, <1>1, BytesAtType
  <2>3. Len(s) <= LongSize
    <3>1. /\ pos + 4 \in Nat /\ LongSize - 4 \in Int
          /\ LongSize - 4 <= LongSize /\ LongSize \in Nat
      BY <1>0, <1>1
    <3> QED
      BY <2>2, <3>1, BytesAtLen
  <2> HIDE DEF s
  <2>4. EncodeText(s)
    BY <2>1 DEF s
  <2> QED
    BY <1>0, <1>1, <1>9, <2>1, <2>2, <2>3, <2>4, EncodeBounded DEF Long
<1>10. CASE Compressed
  <2>1. input.inflates /\ UNCHANGED <<input, callbacks, col>>
    BY <1>10 DEF Compressed, IsCompressed
  <2>2. pc' \in {"encode", "tab"}
    BY <1>10 DEF Compressed, EncodeText, AppendText
  <2>3. ~Small'
    BY <2>1 DEF Small
  <2> QED
    BY <1>0, <2>1, <2>2, <2>3 DEF LineBound, SmallTuplesNeverEnd
<1> QED
  BY <1>3, <1>4, <1>5, <1>6, <1>7, <1>8, <1>9, <1>10 DEF DecodeText

LEMMA CopyBounded == IInv /\ LineBound /\ CopyText => LineBound'
<1> SUFFICES ASSUME IInv, LineBound, CopyText PROVE LineBound'
  OBVIOUS
<1>0. /\ pc \in Working \ {"column"} /\ col <= Len(callbacks)
      /\ UNCHANGED <<input, callbacks, k, pos>> /\ Small' = Small
  <2>1. /\ pc \in {"encode", "tab", "append", "enlarge"}
        /\ UNCHANGED <<input, callbacks, k, pos>>
    BY DEF CopyText, EncodeChar, EncodeTooLarge, EncodeDone, NoTab, AppendTooLarge,
           AppendFits, Enlarge, Double, Enlarged, Appending
  <2> QED
    BY <2>1 DEF LineBound, Working, Small, Current
<1>1. /\ pos \in Nat /\ col \in Nat \ {0} /\ Len(line) \in Nat /\ Len(text) \in Nat
      /\ Len(tmpBuff) \in Nat /\ Len(source) \in Nat /\ Len(callbacks) \in Nat
      /\ Written \in Nat /\ Untabbed \in {0, 1}
      /\ PrintMax \in Nat /\ PrintMax >= 2
      /\ line = <<>> => Len(line) = 0
      /\ line # <<>> => Untabbed = 0
  BY Counts
<1>2. CASE EncodeChar
  <2>1. /\ pc = "encode" /\ pc' = "encode" /\ UNCHANGED <<line, col>>
        /\ tmpBuff' = tmpBuff \o Escape(Head(source)) /\ source' = Tail(source)
        /\ source \in Seq(Byte) /\ source # <<>> /\ tmpBuff \in Seq(Symbol)
    BY <1>2 DEF EncodeChar, buffers, IInv, TypeOK
  <2>2. Head(source) \in Byte /\ Len(Tail(source)) = Len(source) - 1
    BY <2>1
  <2> DEFINE e == Escape(Head(source))
  <2>3. e \in Seq(Symbol) /\ Len(e) \in 1..2
    BY <2>2, EscapeType
  <2> HIDE DEF e
  <2>4. Len(tmpBuff \o e) = Len(tmpBuff) + Len(e)
    BY <2>1, <2>3
  <2>5. /\ Len(source') = Len(source) - 1
        /\ Len(tmpBuff') \in Nat /\ Len(tmpBuff') <= Len(tmpBuff) + 2
    <3>1. source' = Tail(source) /\ tmpBuff' = tmpBuff \o e
      BY <2>1 DEF e
    <3>2. Len(source') = Len(source) - 1
      BY <2>2, <3>1
    <3>3. Len(tmpBuff') = Len(tmpBuff) + Len(e)
      BY <2>4, <3>1
    <3>4. Len(tmpBuff) \in Nat /\ Len(e) \in 1..2
      BY <1>1, <2>3
    <3>5. /\ Len(tmpBuff) + Len(e) \in Nat
          /\ Len(tmpBuff) + Len(e) <= Len(tmpBuff) + 2
      <4> DEFINE m == Len(tmpBuff)
                 n == Len(e)
      <4>1. m \in Nat /\ n \in 1..2
        BY <3>4
      <4> HIDE DEF m, n
      <4>2. m + n \in Nat /\ m + n <= m + 2
        BY <4>1
      <4> QED
        BY <4>2 DEF m, n
    <3> QED
      BY <3>2, <3>3, <3>5
  <2>6. Written' = Written /\ Untabbed' = Untabbed
    BY <1>0, <2>1 DEF Written, Untabbed
  <2>7. ASSUME Small
        PROVE  /\ Len(line) + Len(tmpBuff') + 2 * Len(source') < Written + Untabbed
               /\ Len(tmpBuff') + 2 * Len(source') <= 2 * pos
    <3>1. /\ Len(line) + Len(tmpBuff) + 2 * Len(source) < Written + Untabbed
          /\ Len(tmpBuff) + 2 * Len(source) <= 2 * pos
      BY <2>1, <2>7 DEF LineBound
    <3> QED
      BY <1>1, <2>5, <3>1
  <2> QED
    BY <1>0, <2>1, <2>6, <2>7 DEF LineBound, SmallTuplesNeverEnd
<1>3. CASE EncodeTooLarge
  <2>1. pc = "encode" /\ pc' = "exit" /\ Len(tmpBuff) > EncodeSize - 2 - 2
    BY <1>3 DEF EncodeTooLarge, EncodeFull
  <2>2. ASSUME Small PROVE 2 * (Current.len - Current.hoff) > EncodeSize - 4
    <3>1. Len(tmpBuff) + 2 * Len(source) <= 2 * pos
      BY <2>1, <2>2 DEF LineBound
    <3>2. /\ pos <= Current.len - Current.hoff
          /\ Current.len \in Nat /\ Current.hoff \in Nat
      BY <1>0, <2>2, WithinTuple
    <3>3. /\ pos \in Nat /\ Len(tmpBuff) \in Nat /\ Len(source) \in Nat
          /\ EncodeSize \in Nat
      BY Counts
    <3>4. EncodeSize - 2 - 2 < 2 * pos
      BY <2>1, <3>1, <3>3
    <3> HIDE DEF Current
    <3> QED
      BY <3>2, <3>3, <3>4
  <2>3. Current' = Current
    BY <1>0 DEF Current
  <2> QED
    BY <1>0, <2>1, <2>2, <2>3 DEF LineBound, Working, SmallTuplesNeverEnd, Small
<1>4. CASE EncodeDone
  <2>1. /\ pc = "encode" /\ pc' = "tab" /\ text' = tmpBuff /\ source = <<>>
        /\ UNCHANGED <<line, col>>
    BY <1>4 DEF EncodeDone, buffers
  <2>2. Written' = Written /\ Untabbed' = Untabbed
    BY <1>0, <2>1 DEF Written, Untabbed
  <2>3. Small => Len(line) + Len(tmpBuff) < Written + PrintMax + Untabbed
    BY <1>1, <2>1 DEF LineBound
  <2> QED
    BY <1>0, <2>1, <2>2, <2>3 DEF LineBound, SmallTuplesNeverEnd
<1>5. CASE NoTab
  <2>1. pc = "tab" /\ pc' = "append" /\ UNCHANGED <<line, text, col>>
    BY <1>5 DEF NoTab, buffers
  <2>2. Written' = Written
    BY <1>0, <2>1 DEF Written
  <2>3. Small => Len(line) + Len(text) < Written + PrintMax + 1
    BY <1>1, <2>1 DEF LineBound
  <2> QED
    BY <1>0, <2>1, <2>2, <2>3 DEF LineBound, SmallTuplesNeverEnd
<1>6. Appending => /\ Len(Addition) \in Nat
                   /\ Len(Addition) = IF pc = "tab" THEN 1 ELSE Len(text)
                   /\ Len(line \o Addition) = Len(line) + Len(Addition)
                   /\ line \in Seq(Symbol) /\ Addition \in Seq(Symbol)
                   /\ pc \in {"tab", "append"} /\ (pc = "tab" => line # <<>>)
  <2>1. Appending => (pc = "tab" => line # <<>>)
    BY DEF Appending
  <2> QED
    BY <2>1, AdditionType
<1>7. CASE AppendTooLarge
  <2>1. /\ Appending /\ pc' = "exit" /\ Len(Addition) >= AllocLimit - Len(line)
    BY <1>7 DEF AppendTooLarge
  <2>2. ASSUME Small
        PROVE  2 * (Current.len - Current.hoff) + (PrintMax + 1) * Len(callbacks) > AllocLimit
    <3>1. Len(line) + Len(Addition) < Written + PrintMax + 1
      <4>1. Len(line) \in Nat /\ Len(text) \in Nat /\ Written \in Nat
        BY <1>1
      <4>0. PrintMax \in Nat
        BY <1>1
      <4>2. CASE pc = "tab"
        <5>1. Len(Addition) = 1 /\ Untabbed = 0
          BY <1>1, <1>6, <2>1, <4>2
        <5>2. Len(line) + Len(text) < Written + PrintMax + Untabbed
          BY <2>2, <4>2 DEF LineBound
        <5> QED
          BY <4>0, <4>1, <5>1, <5>2
      <4>3. CASE pc = "append"
        <5>1. Len(Addition) = Len(text)
          BY <1>6, <2>1, <4>3
        <5>2. Len(line) + Len(text) < Written + PrintMax + 1
          BY <2>2, <4>3 DEF LineBound
        <5> QED
          BY <5>1, <5>2
      <4> QED
        BY <1>6, <2>1, <4>2, <4>3
    <3>2. /\ pos <= Current.len - Current.hoff
          /\ Current.len \in Nat /\ Current.hoff \in Nat
      BY <1>0, <2>2, WithinTuple
    <3>3. Written + PrintMax + 1 = 2 * pos + Allowed(col)
      <4>1. col - 1 \in Nat /\ (col - 1) + 1 = col
        BY <1>1
      <4>2. /\ Allowed((col - 1) + 1) = Allowed(col - 1) + PrintMax + 1
            /\ Allowed(col - 1) \in Nat
        BY <4>1, AllowedGrows
      <4>3. Allowed(col) = Allowed(col - 1) + PrintMax + 1
        BY <4>1, <4>2
      <4> QED
        BY <1>1, <4>2, <4>3 DEF Written
    <3>6. /\ Allowed(col) \in Nat /\ Allowed(Len(callbacks)) \in Nat
          /\ Allowed(col) <= Allowed(Len(callbacks))
      BY <1>0, <1>1, AllowedGrows
    <3>7. Allowed(Len(callbacks)) = (PrintMax + 1) * Len(callbacks)
      BY DEF Allowed
    <3>4. /\ pos \in Nat /\ col \in Nat /\ Len(callbacks) \in Nat
          /\ Len(line) \in Nat /\ Len(Addition) \in Nat /\ AllocLimit \in Nat
          /\ col <= Len(callbacks)
      BY <1>0, <1>1, <1>6, <2>1, Counts
    <3>5. AllocLimit < 2 * pos + Allowed(col)
      <4>1. Written + PrintMax + 1 \in Nat
        BY <1>1
      <4> QED
        BY <2>1, <3>1, <3>3, <3>4, <3>6, <4>1
    <3>8. 2 * (Current.len - Current.hoff) + Allowed(Len(callbacks)) > AllocLimit
      <4>1. ASSUME NEW p \in Nat, NEW n \in Int, NEW a \in Nat, NEW b \in Nat,
                   NEW m \in Nat, p <= n, a <= b, m < 2 * p + a
            PROVE  2 * n + b > m
        BY <4>1
      <4>2. Current.len - Current.hoff \in Int
        BY <3>2
      <4> QED
        BY <3>2, <3>4, <3>5, <3>6, <4>1, <4>2
    <3> QED
      BY <3>7, <3>8
  <2>3. Current' = Current
    BY <1>0 DEF Current
  <2> QED
    BY <1>0, <2>1, <2>2, <2>3 DEF LineBound, Working, SmallTuplesNeverEnd, Small
<1>8. CASE AppendFits
  <2>1. /\ Appending /\ line' = line \o Addition /\ UNCHANGED text
        /\ pc = "tab" => pc' = "append" /\ UNCHANGED col
        /\ pc = "append" => pc' = "column" /\ col' = col + 1
    BY <1>8 DEF AppendFits
  <2>2. Len(line') = Len(line) + Len(Addition)
    BY <1>6, <2>1
  <2>3. CASE pc = "tab"
    <3>1. Written' = Written
      BY <1>0, <2>1, <2>3 DEF Written
    <3>2. Small => Len(line') + Len(text) < Written + PrintMax + 1
      <4>1. Len(line) \in Nat /\ Len(text) \in Nat /\ Written \in Nat
        BY <1>1
      <4>2. Len(line') = Len(line) + 1 /\ Untabbed = 0
        BY <1>1, <1>6, <2>1, <2>2, <2>3
      <4>3. Small => Len(line) + Len(text) < Written + PrintMax + Untabbed
        BY <2>3 DEF LineBound
      <4> QED
        BY <1>1, <4>1, <4>2, <4>3
    <3> QED
      BY <1>0, <2>1, <2>3, <3>1, <3>2 DEF LineBound, SmallTuplesNeverEnd
  <2>4. CASE pc = "append"
    <3>1. Written' = Written + PrintMax + 1
      <4>1. col - 1 \in Nat /\ col' - 1 = (col - 1) + 1
        BY <1>1, <2>1, <2>4
      <4>2. /\ Allowed((col - 1) + 1) = Allowed(col - 1) + PrintMax + 1
            /\ Allowed(col - 1) \in Nat
        BY <4>1, AllowedGrows
      <4>3. Written' = 2 * pos + Allowed(col' - 1)
        BY <1>0 DEF Written, Allowed
      <4> QED
        BY <1>0, <1>1, <4>1, <4>2, <4>3 DEF Written
    <3>2. Small => Len(line') < Written + PrintMax + 1
      BY <1>1, <1>6, <2>1, <2>2, <2>4 DEF LineBound
    <3> QED
      BY <1>0, <2>1, <2>4, <3>1, <3>2 DEF LineBound, LineShort, SmallTuplesNeverEnd,
                                          Working
  <2> QED
    BY <1>6, <2>1, <2>3, <2>4
<1>9. CASE Enlarge
  <2>1. /\ Appending /\ pc' = "enlarge" /\ resume' = pc
        /\ UNCHANGED <<line, text, col>>
    BY <1>9 DEF Enlarge
  <2>2. Written' = Written /\ Untabbed' = Untabbed
    BY <1>0, <2>1 DEF Written, Untabbed
  <2> QED
    BY <1>0, <1>6, <2>1, <2>2 DEF LineBound, SmallTuplesNeverEnd
<1>10. CASE Double
  <2>1. pc = "enlarge" /\ UNCHANGED <<pc, line, text, resume, col>>
    BY <1>10 DEF Double
  <2>2. Written' = Written /\ Untabbed' = Untabbed
    BY <1>0, <2>1 DEF Written, Untabbed
  <2> QED
    BY <1>0, <2>1, <2>2 DEF LineBound, SmallTuplesNeverEnd
<1>11. CASE Enlarged
  <2>1. /\ pc = "enlarge" /\ pc' = resume /\ resume \in {"tab", "append"}
        /\ UNCHANGED <<line, text, col>>
    BY <1>11 DEF Enlarged, IInv, TypeOK
  <2>2. Written' = Written /\ Untabbed' = Untabbed
    BY <1>0, <2>1 DEF Written, Untabbed
  <2> QED
    BY <1>0, <2>1, <2>2 DEF LineBound, SmallTuplesNeverEnd
<1> QED
  BY <1>2, <1>3, <1>4, <1>5, <1>7, <1>8, <1>9, <1>10, <1>11 DEF CopyText

LEMMA NextBounded == IInv /\ LineBound /\ [Next]_vars => LineBound'
<1> SUFFICES ASSUME IInv, LineBound, [Next]_vars PROVE LineBound'
  OBVIOUS
<1>1. CASE ParseTypes
  <2>1. pc' \in {"types", "tuple", "refused", "crash"}
    BY <1>1 DEF ParseTypes, NamesTooLong, EmptyName, AddTypeCallback, UnknownName,
                NamesDone, AtName
  <2> QED
    BY <2>1, RestBounded
<1>2. CASE FormatDecode
  BY <1>2 DEF FormatDecode, LineBound, LineShort, Working, SmallTuplesNeverEnd
<1>3. CASE PastBlock \/ BytesLeft \/ CopyFlush \/ TuplesDone
  <2>1. pc' \in {"types", "tuple", "refused", "finished", "crash"}
    BY <1>3 DEF PastBlock, BytesLeft, CopyFlush, TuplesDone, ReportAs
  <2> QED
    BY <2>1, RestBounded
<1>4. CASE Ended \/ UNCHANGED vars
  <2>1. UNCHANGED <<input, callbacks, k, col, pos, source, tmpBuff, text, line,
                    resume, pc>>
    BY <1>4 DEF Ended, vars, buffers
  <2>2. /\ Small' = Small /\ Written' = Written /\ Untabbed' = Untabbed
        /\ LineShort' = LineShort /\ SmallTuplesNeverEnd' = SmallTuplesNeverEnd
    BY <2>1 DEF Small, Written, Untabbed, LineShort, SmallTuplesNeverEnd, Current
  <2> QED
    BY <2>1, <2>2 DEF LineBound
<1> QED
  BY <1>1, <1>2, <1>3, <1>4, ColumnBounded, TextStepBounded, CopyBounded DEF Next

(* Only a tuple too large for the encoding buffer or for the line ends the *)
(* program in the middle of a block, whatever the types and the sizes of   *)
(* the buffers: the line grows by at most two characters for each byte of  *)
(* the tuple and, for each column, the longest printed value and a tab.    *)
THEOREM OnlyLargeTuplesEnd == Spec => []SmallTuplesNeverEnd
<1>1. Init => LineBound
  BY DEF Init, LineBound, Working, SmallTuplesNeverEnd
<1>2. IInv /\ LineBound /\ [Next]_vars => LineBound'
  BY NextBounded
<1>3. LineBound => SmallTuplesNeverEnd
  BY DEF LineBound
<1> QED
  BY <1>1, <1>2, <1>3, Invariance, PTL DEF Spec
=============================================================================
