---------------------------- MODULE MCTupleDecode ----------------------------
(***************************************************************************)
(* Small lists of types and tuples for TupleDecode: tuples as the server   *)
(* makes them, and the same cut, padded, with a wrong header or damaged.   *)
(***************************************************************************)
EXTENDS TupleDecode, TLC

N(name, length) == [name |-> name, length |-> length]
IntType == N("int", 3)
SmallintType == N("smallint", 8)
BoolType == N("bool", 4)
ChrType == N("char", 4)
NameType == N("name", 4)
TimetzType == N("timetz", 6)
DateType == N("date", 4)
TextType == N("text", 4)
XmlType == N("xml", 3)
RestType == N("~", 1)
Blank    == N("", 0)
Strange  == N("jsonb", 5)

Bytes(n, b) == [i \in 1..n |-> b]
Fixed(kind, b) ==
  [kind |-> kind, null |-> FALSE, long |-> FALSE,
   bytes |-> Bytes(LayoutOf(kind).size, b)]
ShortText(s) ==
  [kind |-> "string", null |-> FALSE, long |-> FALSE, bytes |-> s]
LongText(s) == [ShortText(s) EXCEPT !.long = TRUE]
NullOf(kind) == [kind |-> kind, null |-> TRUE, long |-> FALSE, bytes |-> <<>>]
NameOf(s) ==
  [kind |-> "name", null |-> FALSE, long |-> FALSE,
   bytes |-> s \o Bytes(NameLen - Len(s), Nul)]

(* A tuple as the server writes it, "after" being what follows in the      *)
(* block.                                                                  *)
Stored(columns, after) ==
  LET d == Filled(columns)
  IN [hoff |-> 24, len |-> 24 + Len(d), at |-> 0,
      nulls |-> {n \in 1..Len(columns) : columns[n].null},
      bytes |-> d \o after, beyond |-> 0, columns |-> columns,
      inflated |-> <<>>]

(* Tuples no server wrote.                                                 *)
Raw(bytes) ==
  [hoff |-> 24, len |-> 24 + Len(bytes), at |-> 0, nulls |-> {},
   bytes |-> bytes, beyond |-> 7, columns |-> <<>>, inflated |-> <<>>]
CutBy(t, n)   == [t EXCEPT !.len = @ - n, !.columns = <<>>]
PaddedBy(t, n) == [t EXCEPT !.len = @ + n, !.columns = <<>>,
                            !.bytes = @ \o Bytes(n, 0)]
HeaderBeyond(t) == [t EXCEPT !.hoff = t.len + 2, !.columns = <<>>]
Moved(t, n)   == [t EXCEPT !.at = n]

A == 65
B == 66

(* Some texts that are short: 0, 514 and 2313, "t" and "f", the markers.   *)
MCPrintLengths ==
  LET short == (<<"int", Bytes(4, 0)>> :> 1)
               @@ (<<"smallint", Bytes(2, 2)>> :> 3)
               @@ (<<"smallint", Bytes(2, Tab)>> :> 4)
      bools == [v \in {<<"bool", <<b>>>> : b \in {0, 1}} |-> 1]
      marks == [v \in {<<"toasted", <<>>>>, <<"compressed", <<>>>>} |-> 5]
  IN short @@ bools @@ marks

FixedRows ==
  {<<Fixed("int", 1), Fixed("smallint", 2)>>,
   <<NullOf("int"), Fixed("smallint", Tab)>>,
   <<Fixed("int", 0), NullOf("smallint")>>,
   <<NullOf("int"), NullOf("smallint")>>}
WideRows ==
  {<<Fixed("bool", b), Fixed("timetz", 3)>> : b \in {0, 1}}
CharRows ==
  {<<Fixed("char", b), Fixed("date", 5)>> :
     b \in {A, Nul, Newline, Return, Backslash, Tab, LetterN}}
Contents ==
  {<<>>, <<A>>, <<A, Backslash, LetterN>>, <<Newline, B>>, <<Return>>, <<Tab, A>>,
   <<Nul, Nul>>, Bytes(6, A), Bytes(12, Backslash)}
TextRows ==
  {<<Fixed("int", 1), t>> :
     t \in {ShortText(s) : s \in Contents} \cup {LongText(s) : s \in Contents}}
  \cup {<<t, Fixed("int", 1)>> :
     t \in {ShortText(s) : s \in Contents} \cup {LongText(<<A>>), NullOf("string")}}
DamagedRows ==
  {<<Fixed("int", 1), t>> :
     t \in {ShortText(<<A, Newline>>), LongText(<<A, B, Nul>>), NullOf("string")}}
LengthRows ==
  {<<Fixed("bool", 1), LongText(Bytes(n, A))>> : n \in {59, 60, 61, 124}}
NameRows ==
  {<<Fixed("int", 4), NameOf(s)>> : s \in {<<A, B>>, <<>>, <<Backslash>>}}
  \cup {<<Fixed("bool", 1), NameOf(<<A, B>>)>>}
HugeRows == {<<Fixed("int", 1), LongText(Bytes(n, A))>> : n \in {95, 97, 130}}
  \cup {<<ShortText(Bytes(48, Backslash)), Fixed("int", 1)>>,
        <<ShortText(Bytes(49, Backslash)), Fixed("int", 1)>>}
DoubleRows ==
  {<<LongText(Bytes(85, A)), LongText(Bytes(n, B))>> : n \in {10, 33, 34, 70}}

Build(toast, inflates, asserts) ==
  [toast |-> toast, inflates |-> inflates, asserts |-> asserts]
PlainBuild == Build(FALSE, FALSE, FALSE)

Case(types, tuples, b) ==
  [types |-> types, tuples |-> tuples, toast |-> b.toast,
   inflates |-> b.inflates, asserts |-> b.asserts]

(* Several values that only together are too long for a buffer.            *)
SeveralRows ==
  {Case(<<IntType, TextType>>,
        [n \in 1..4 |-> Stored(<<Fixed("int", n), ShortText(Bytes(36, A))>>, <<>>)],
        PlainBuild)}

(* A row, the same cut or padded, and the row again: what a failed row     *)
(* leaves behind would show.                                               *)
Around(types, rows, after) ==
  {Case(types, <<Stored(r, after), damaged, Stored(r, after)>>, PlainBuild) :
     r \in rows, damaged \in {CutBy(Stored(q, after), 1) : q \in rows}
                   \cup {PaddedBy(Stored(q, <<>>), n) : q \in rows, n \in {1, 4}}}
Alone(types, rows, after) ==
  {Case(types, <<Stored(r, after)>>, PlainBuild) : r \in rows}

Pointer(tag) == <<1, tag>> \o Bytes(16, 6)
CompressedText(raw, n) == <<(4 * n + 2) % 256, (4 * n + 2) \div 256, 0, 0,
                            raw, 0, 0, 0>> \o Bytes(n - 8, 9)
RawTexts ==
  {<<>>, <<Nul>>, <<Nul, Nul, Nul>>, <<1>>, <<3>>, <<5>>, <<255>>, <<4, 0>>,
   <<4, 0, 0, 0>>, <<12, 0, 0, 0, A>>, <<20, 0, 0, 0, A>>, <<20, 0, 0, 0, Newline>>,
   <<1, 2>> \o Bytes(8, 6), <<1, 9, 6>>, <<1, OnDisk, 6>>,
   CompressedText(0, 9), CompressedText(3, 12), CompressedText(70, 12),
   <<38, 0, 0, 0>>, Pointer(OnDisk), <<Nul, Nul>> \o Pointer(OnDisk), Pointer(Indirect)}
Builds == {Build(t, i, a) : t \in BOOLEAN, i \in BOOLEAN, a \in BOOLEAN}
RawInputs ==
  {Case(<<TextType>>, <<[Raw(s) EXCEPT !.inflated = z, !.beyond = 1 - (Len(s) % 2)]>>, b) :
     s \in RawTexts, b \in Builds, z \in {<<>>, <<A, B, Nul>>}}

Odd ==
  LET plain == Stored(<<Fixed("int", 1), Fixed("smallint", 2)>>, <<>>)
      texts == Stored(<<Fixed("int", 1), ShortText(<<A>>)>>, Bytes(2, A))
  IN {Case(<<IntType, SmallintType>>, <<HeaderBeyond(plain), plain>>, PlainBuild),
      Case(<<IntType, TextType>>, <<HeaderBeyond(texts), texts>>, PlainBuild)}
     \cup {Case(<<IntType, SmallintType>>, <<Moved(plain, n), plain>>, PlainBuild) :
             n \in 1..7}

TypeLists ==
  {<<Strange>>, <<IntType, Strange>>, <<IntType, Blank, SmallintType>>, <<Blank>>, <<RestType, IntType>>,
   [n \in 1..9 |-> IF n = 1 THEN IntType ELSE Blank],
   <<SmallintType, SmallintType>>, [n \in 1..7 |-> RestType], [n \in 1..8 |-> RestType],
   [n \in 1..9 |-> RestType], [n \in 1..7 |-> IF n = 7 THEN XmlType ELSE RestType]}
TypeInputs ==
  {Case(ts, <<Stored(<<Fixed("int", 1), Fixed("smallint", 2)>>, <<>>)>>, PlainBuild) :
     ts \in TypeLists}

RestInputs ==
  {Case(<<IntType, RestType>>, <<Stored(r, <<>>)>>, PlainBuild) :
     r \in FixedRows \cup {r \in TextRows : r[1].kind = "int"}}
NullRestInputs ==
  {Case(<<IntType, RestType>>,
          <<Stored(<<Fixed("int", 1), NullOf("smallint"), Fixed("int", 2)>>, <<>>)>>,
          PlainBuild)}

LengthInputs == Alone(<<BoolType, TextType>>, LengthRows, <<A>>)

MCInputs ==
  Around(<<IntType, SmallintType>>, FixedRows, <<>>)
    \cup Around(<<BoolType, TimetzType>>, WideRows, <<>>)
    \cup Alone(<<ChrType, DateType>>, CharRows, <<>>)
    \cup Around(<<IntType, TextType>>, DamagedRows, <<>>)
    \cup Alone(<<IntType, TextType>>, {r \in TextRows : r[1].kind = "int"}, <<>>)
    \cup Alone(<<TextType, IntType>>, {r \in TextRows : r[2].kind = "int"}, <<A>>)
    \cup LengthInputs
    \cup Alone(<<IntType, NameType>>, {r \in NameRows : r[1].kind = "int"}, <<A>>)
    \cup Alone(<<BoolType, NameType>>, {r \in NameRows : r[1].kind = "bool"}, Bytes(4, A))
    \cup Alone(<<IntType, TextType>>, {r \in HugeRows : r[1].kind = "int"}, <<>>)
    \cup Alone(<<TextType, IntType>>, {r \in HugeRows : r[2].kind = "int"}, <<>>)
    \cup Alone(<<TextType, TextType>>, DoubleRows, <<A>>)
    \cup SeveralRows \cup RawInputs \cup Odd \cup TypeInputs \cup RestInputs \cup NullRestInputs
=============================================================================
