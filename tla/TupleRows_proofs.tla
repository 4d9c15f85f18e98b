-------------------------- MODULE TupleRows_proofs --------------------------
(***************************************************************************)
(* Proofs that decoding does what it is for: a tuple the server wrote is   *)
(* printed as the COPY row of its values, one of the wrong length is not   *)
(* printed at all, and no tuple shows in the report of another, for all    *)
(* types, all values and all sizes of the buffers.  What is defined by     *)
(* recursion over columns, bytes or names is unfolded once by the lemmas   *)
(* of Recursion.                                                           *)
(***************************************************************************)
EXTENDS TupleDecode_proofs, Recursion

(* The list of types: its length so far.                                   *)
LEMMA LengthSteps ==
  ASSUME input \in Input
  PROVE  /\ LengthUpTo(0) = 0
         /\ \A n \in 1..Len(input.types) :
              LengthUpTo(n) = LengthUpTo(n - 1) + input.types[n].length
                                + (IF n > 1 THEN 1 ELSE 0)
         /\ \A n \in 0..Len(input.types) : LengthUpTo(n) \in Nat
<1> DEFINE N == Len(input.types)
           V == Nat
           After(m, v) == v + input.types[m].length + (IF m > 1 THEN 1 ELSE 0)
           step == [m \in 1..N |-> [v \in V |-> After(m, v)]]
           g == CHOOSE g : g = [m \in 0..N |->
                                  IF m = 0 THEN 0 ELSE After(m, g[m - 1])]
<1>1. N \in Nat
  BY DEF Input
<1>2. \A m \in 1..N : \A v \in V : After(m, v) \in V
  <2>1. input.types \in Seq(TypeName)
    BY DEF Input
  <2>2. \A m \in 1..N : input.types[m] \in TypeName
    BY <2>1
  <2> QED
    BY <2>2 DEF TypeName
<1>3. 0 \in V
  OBVIOUS
<1> HIDE DEF N, V, After
<1>4. PICK f : Recurs(f, N, V, 0, step)
  <2>1. step \in [1..N -> [V -> V]]
    BY <1>2
  <2> HIDE DEF step
  <2> QED
    BY <1>1, <1>3, <2>1, StepByStep
<1>5. f = [m \in 0..N |-> IF m = 0 THEN 0 ELSE After(m, f[m - 1])]
  <2>1. /\ f \in [0..N -> V] /\ f[0] = 0
        /\ \A m \in 1..N : f[m] = step[m][f[m - 1]]
    BY <1>4 DEF Recurs
  <2>2. \A m \in 1..N : f[m - 1] \in V
    BY <1>1, <2>1
  <2>3. \A m \in 1..N : f[m] = After(m, f[m - 1])
    BY <2>1, <2>2
  <2> HIDE DEF step
  <2> QED
    BY <1>1, <2>1, <2>3
<1>6. g[0] = 0 /\ \A m \in 1..N : g[m] = After(m, g[m - 1])
  <2>1. g = [m \in 0..N |-> IF m = 0 THEN 0 ELSE After(m, g[m - 1])]
    BY <1>5
  <2> HIDE DEF g
  <2> QED
    BY <1>1, <2>1
<1>7. \A m \in 0..N : g[m] \in V
  <2> HIDE DEF g
  <2>1. g[0] \in V
    BY <1>3, <1>6
  <2>2. \A m \in 1..N : g[m - 1] \in V => g[m] \in V
    BY <1>2, <1>6
  <2> QED
    BY <1>1, <2>1, <2>2, StepsStayIn, Zenon
<1>8. \A m : LengthUpTo(m) = g[m]
  BY DEF LengthUpTo, After, N, V
<1> HIDE DEF g
<1> QED
  BY <1>1, <1>6, <1>7, <1>8 DEF After, N, V

-----------------------------------------------------------------------------
(* The types and what they stand for.                                      *)

LEMMA KindsDiffer ==
  /\ "string" \notin FixedKinds /\ "ignore" \notin FixedKinds
  /\ "char" \in FixedKinds /\ "name" \in FixedKinds
<1>1. \A l \in Layouts : l.kind # "string" /\ l.kind # "ignore"
  BY DEF Layouts, IntegerLayouts, TimeLayouts, FloatLayouts, OctetLayouts,
         CharLayouts, Layout
<1>2. Layout("char", 1, 1) \in Layouts /\ Layout("name", NameLen, 4) \in Layouts
  BY DEF Layouts, CharLayouts
<1>3. Layout("char", 1, 1).kind = "char" /\ Layout("name", NameLen, 4).kind = "name"
  BY DEF Layout
<1> QED
  BY <1>1, <1>2, <1>3 DEF FixedKinds

(* No value of fixed size is empty.                                        *)
LEMMA LayoutSize ==
  ASSUME NEW kind \in FixedKinds
  PROVE  LayoutOf(kind).size \in Nat \ {0}
<1>1. \A l \in Layouts : l.size \in Nat \ {0}
  BY LimitsAssumption
     DEF Layouts, IntegerLayouts, TimeLayouts, FloatLayouts, OctetLayouts,
         CharLayouts, Layout
<1>2. \E l \in Layouts : l.kind = kind
  BY DEF FixedKinds
<1>3. LayoutOf(kind) \in Layouts
  BY <1>2 DEF LayoutOf
<1> QED
  BY <1>1, <1>3

(* A name stands for one decoder only.                                     *)
LEMMA OneDecoder ==
  ASSUME NEW name, NEW d \in Kinds, <<name, d>> \in CallbackTable
  PROVE  DecoderOf(name) = d
<1>1. \A e \in Kinds : <<name, e>> \in CallbackTable => e = d
  BY DEF CallbackTable
<1> QED
  BY <1>1 DEF DecoderOf

LEMMA DecoderType ==
  ASSUME NEW name, \E d \in Kinds : <<name, d>> \in CallbackTable
  PROVE  DecoderOf(name) \in Kinds /\ <<name, DecoderOf(name)>> \in CallbackTable
  BY DEF DecoderOf

(* The decoders asked for, name by name.                                    *)
LEMMA GivenSteps ==
  ASSUME input \in Input, AllNamesKnown
  PROVE  /\ GivenUpTo(0) = <<>>
         /\ \A n \in 1..Len(input.types) :
              GivenUpTo(n) =
                IF input.types[n].length = 0 THEN GivenUpTo(n - 1)
                ELSE Append(GivenUpTo(n - 1), DecoderOf(input.types[n].name))
         /\ \A n \in 0..Len(input.types) : GivenUpTo(n) \in Seq(Kinds)
<1> DEFINE N == Len(input.types)
           V == Seq(Kinds)
           After(m, v) == IF input.types[m].length = 0 THEN v
                          ELSE Append(v, DecoderOf(input.types[m].name))
           step == [m \in 1..N |-> [v \in V |-> After(m, v)]]
           g == CHOOSE g : g = [m \in 0..N |->
                                  IF m = 0 THEN <<>> ELSE After(m, g[m - 1])]
<1>1. N \in Nat
  BY DEF Input
<1>2. \A m \in 1..N : \A v \in V : After(m, v) \in V
  <2>1. input.types \in Seq(TypeName)
    BY DEF Input
  <2>2. \A m \in 1..N : input.types[m] \in TypeName
    BY <2>1
  <2> SUFFICES ASSUME NEW m \in 1..N, NEW v \in V PROVE After(m, v) \in V
    OBVIOUS
  <2>3. input.types[m].length \in Nat
    BY <2>2 DEF TypeName
  <2>4. CASE input.types[m].length = 0
    BY <2>4
  <2>5. CASE input.types[m].length > 0
    <3>1. DecoderOf(input.types[m].name) \in Kinds
      BY <2>5, DecoderType DEF AllNamesKnown
    <3> QED
      BY <2>5, <3>1
  <2> QED
    BY <2>3, <2>4, <2>5
<1>3. <<>> \in V
  OBVIOUS
<1> HIDE DEF N, V, After
<1>4. PICK f : Recurs(f, N, V, <<>>, step)
  <2>1. step \in [1..N -> [V -> V]]
    BY <1>2
  <2> HIDE DEF step
  <2> QED
    BY <1>1, <1>3, <2>1, StepByStep
<1>5. f = [m \in 0..N |-> IF m = 0 THEN <<>> ELSE After(m, f[m - 1])]
  <2>1. /\ f \in [0..N -> V] /\ f[0] = <<>>
        /\ \A m \in 1..N : f[m] = step[m][f[m - 1]]
    BY <1>4 DEF Recurs
  <2>2. \A m \in 1..N : f[m - 1] \in V
    BY <1>1, <2>1
  <2>3. \A m \in 1..N : f[m] = After(m, f[m - 1])
    BY <2>1, <2>2
  <2> HIDE DEF step
  <2> QED
    BY <1>1, <2>1, <2>3
<1>6. g[0] = <<>> /\ \A m \in 1..N : g[m] = After(m, g[m - 1])
  <2>1. g = [m \in 0..N |-> IF m = 0 THEN <<>> ELSE After(m, g[m - 1])]
    BY <1>5
  <2> HIDE DEF g
  <2> QED
    BY <1>1, <2>1
<1>7. \A m \in 0..N : g[m] \in V
  <2> HIDE DEF g
  <2>1. g[0] \in V
    BY <1>3, <1>6
  <2>2. \A m \in 1..N : g[m - 1] \in V => g[m] \in V
    BY <1>2, <1>6
  <2> QED
    BY <1>1, <2>1, <2>2, StepsStayIn, Zenon
<1>8. \A m : GivenUpTo(m) = g[m]
  BY DEF GivenUpTo, After, N, V
<1> HIDE DEF g
<1> QED
  BY <1>1, <1>6, <1>7, <1>8 DEF After, N, V

-----------------------------------------------------------------------------
(* How a tuple is filled.                                                  *)

LEMMA AlignType ==
  ASSUME NEW c \in Column, Storable(c)
  PROVE  /\ ServerAlign(c) \in {1, 2, 4, 8}
         /\ c.kind \in FixedKinds \/ c.kind = "string"
<1>1. c.kind \in FixedKinds \/ c.kind = "string"
  BY DEF Storable
<1> QED
  BY <1>1, LayoutType DEF ServerAlign

LEMMA LengthWordType ==
  ASSUME NEW n \in Nat
  PROVE  LengthWord(n) \in Seq(Byte) /\ Len(LengthWord(n)) = 4
<1> DEFINE a == 4 * n
           b == n \div 64
           c == n \div 16384
           d == n \div (256 * 16384)
<1>1. a \in Nat /\ b \in Nat /\ c \in Nat /\ d \in Nat
  OBVIOUS
<1> HIDE DEF a, b, c, d
<1>2. a % 256 \in Byte /\ b % 256 \in Byte /\ c % 256 \in Byte /\ d % 256 \in Byte
  BY <1>1 DEF Byte
<1>3. /\ <<a % 256, b % 256, c % 256, d % 256>> \in Seq(Byte)
      /\ Len(<<a % 256, b % 256, c % 256, d % 256>>) = 4
  BY <1>2
<1> QED
  BY <1>3 DEF LengthWord, a, b, c, d

(* A sequence and another.                                                 *)
LEMMA ConcatLen ==
  ASSUME NEW S, NEW a \in Seq(S), NEW b \in Seq(S)
  PROVE  /\ a \o b \in Seq(S)
         /\ Len(a \o b) = Len(a) + Len(b)
         /\ Len(a) \in Nat /\ Len(b) \in Nat
         /\ \A i \in 1..(Len(a) + Len(b)) :
              (a \o b)[i] = IF i <= Len(a) THEN a[i] ELSE b[i - Len(a)]
<1>1. a \o b \in Seq(S)
  OBVIOUS
<1>2. Len(a \o b) = Len(a) + Len(b)
  OBVIOUS
<1>3. Len(a) \in Nat /\ Len(b) \in Nat
  OBVIOUS
<1>4. \A i \in 1..(Len(a) + Len(b)) :
        (a \o b)[i] = IF i <= Len(a) THEN a[i] ELSE b[i - Len(a)]
  OBVIOUS
<1> QED
  BY <1>1, <1>2, <1>3, <1>4

LEMMA StoredType ==
  ASSUME NEW c \in Column, Storable(c)
  PROVE  /\ StoredForm(c) \in Seq(Byte)
         /\ Len(StoredForm(c)) \in Nat \ {0}
<1>1. c.bytes \in Seq(Byte) /\ Len(c.bytes) \in Nat
  BY DEF Column
<1>2. CASE c.kind \in FixedKinds
  <2>1. Len(c.bytes) = LayoutOf(c.kind).size
    BY <1>2, KindsDiffer DEF Storable
  <2> QED
    BY <1>1, <1>2, <2>1, KindsDiffer, LayoutSize DEF StoredForm
<1>3. CASE c.kind = "string" /\ c.long
  <2> DEFINE word == LengthWord(Len(c.bytes) + 4)
  <2>1. word \in Seq(Byte) /\ Len(word) = 4
    BY <1>1, LengthWordType
  <2> HIDE DEF word
  <2>2. c.bytes \in Seq(Byte)
    BY <1>1
  <2>4. word \o c.bytes \in Seq(Byte) /\ Len(word \o c.bytes) = Len(word) + Len(c.bytes)
    BY <2>1, <2>2, ConcatLen
  <2>3. StoredForm(c) = word \o c.bytes
    BY <1>3 DEF StoredForm, word
  <2> QED
    BY <1>1, <2>1, <2>3, <2>4
<1>4. CASE c.kind = "string" /\ ~c.long
  <2> DEFINE word == <<2 * (Len(c.bytes) + 1) + 1>>
  <2>1. Len(c.bytes) <= 126
    BY <1>4, KindsDiffer DEF Storable
  <2>0. 2 * (Len(c.bytes) + 1) + 1 \in Byte
    <3>1. \A m \in Nat : m <= 126 => 2 * (m + 1) + 1 \in Byte
      BY DEF Byte
    <3> HIDE DEF word
    <3> QED
      BY <1>1, <2>1, <3>1
  <2>2. word \in Seq(Byte) /\ Len(word) = 1
    BY <2>0
  <2> HIDE DEF word
  <2>3. c.bytes \in Seq(Byte)
    BY <1>1
  <2>5. word \o c.bytes \in Seq(Byte) /\ Len(word \o c.bytes) = Len(word) + Len(c.bytes)
    BY <2>2, <2>3, ConcatLen
  <2>4. StoredForm(c) = word \o c.bytes
    BY <1>4 DEF StoredForm, word
  <2> QED
    BY <1>1, <2>2, <2>4, <2>5
<1> QED
  BY <1>1, <1>2, <1>3, <1>4, AlignType

(* The zero bytes put before a value.                                      *)
Gap(n, c) == [i \in 1..Padding(n, ServerAlign(c)) |-> Nul]

LEMMA GapType ==
  ASSUME NEW c \in Column, Storable(c), NEW n \in Nat
  PROVE  /\ Gap(n, c) \in Seq(Byte)
         /\ Padding(n, ServerAlign(c)) \in Nat
         /\ Len(Gap(n, c)) = Padding(n, ServerAlign(c))
<1> DEFINE p == Padding(n, ServerAlign(c))
<1>1. p \in Nat
  BY AlignType, PaddingType
<1> HIDE DEF p
<1>2. [i \in 1..p |-> Nul] \in Seq(Byte) /\ Len([i \in 1..p |-> Nul]) = p
  BY <1>1 DEF Nul, Byte
<1> QED
  BY <1>1, <1>2 DEF Gap, p

(* The data of a tuple, column by column.                                   *)
LEMMA FilledSteps ==
  ASSUME NEW columns \in Seq(Column),
         \A n \in 1..Len(columns) : columns[n].null \/ Storable(columns[n])
  PROVE  /\ FilledUpTo(columns, 0) = <<>>
         /\ \A n \in 1..Len(columns) :
              FilledUpTo(columns, n) =
                IF columns[n].null THEN FilledUpTo(columns, n - 1)
                ELSE FilledUpTo(columns, n - 1)
                       \o Gap(Len(FilledUpTo(columns, n - 1)), columns[n])
                       \o StoredForm(columns[n])
         /\ \A n \in 0..Len(columns) : FilledUpTo(columns, n) \in Seq(Byte)
<1> DEFINE N == Len(columns)
           V == Seq(Byte)
           After(m, v) == IF columns[m].null THEN v
                          ELSE v \o Gap(Len(v), columns[m]) \o StoredForm(columns[m])
           step == [m \in 1..N |-> [v \in V |-> After(m, v)]]
           g == CHOOSE g : g = [m \in 0..N |->
                                  IF m = 0 THEN <<>> ELSE After(m, g[m - 1])]
<1>1. N \in Nat
  OBVIOUS
<1>2. \A m \in 1..N : \A v \in V : After(m, v) \in V
  <2> SUFFICES ASSUME NEW m \in 1..N, NEW v \in V PROVE After(m, v) \in V
    OBVIOUS
  <2>1. columns[m] \in Column
    OBVIOUS
  <2>2. CASE Storable(columns[m])
    <3>1. Len(v) \in Nat
      OBVIOUS
    <3>2. Gap(Len(v), columns[m]) \in Seq(Byte) /\ StoredForm(columns[m]) \in Seq(Byte)
      BY <2>1, <2>2, <3>1, GapType, StoredType
    <3> DEFINE a == Gap(Len(v), columns[m])
               b == StoredForm(columns[m])
    <3>3. v \in Seq(Byte) /\ a \in Seq(Byte) /\ b \in Seq(Byte)
      BY <3>2
    <3> HIDE DEF a, b
    <3>4. v \o a \o b \in Seq(Byte)
      BY <3>3
    <3> QED
      BY <3>3, <3>4 DEF a, b
  <2>3. CASE columns[m].null
    BY <2>3
  <2> QED
    BY <2>1, <2>2, <2>3
<1>3. <<>> \in V
  OBVIOUS
<1> HIDE DEF N, V, After
<1>4. PICK f : Recurs(f, N, V, <<>>, step)
  <2>1. step \in [1..N -> [V -> V]]
    BY <1>2
  <2> HIDE DEF step
  <2> QED
    BY <1>1, <1>3, <2>1, StepByStep
<1>5. f = [m \in 0..N |-> IF m = 0 THEN <<>> ELSE After(m, f[m - 1])]
  <2>1. /\ f \in [0..N -> V] /\ f[0] = <<>>
        /\ \A m \in 1..N : f[m] = step[m][f[m - 1]]
    BY <1>4 DEF Recurs
  <2>2. \A m \in 1..N : f[m - 1] \in V
    BY <1>1, <2>1
  <2>3. \A m \in 1..N : f[m] = After(m, f[m - 1])
    BY <2>1, <2>2
  <2> HIDE DEF step
  <2> QED
    BY <1>1, <2>1, <2>3
<1>6. g[0] = <<>> /\ \A m \in 1..N : g[m] = After(m, g[m - 1])
  <2>1. g = [m \in 0..N |-> IF m = 0 THEN <<>> ELSE After(m, g[m - 1])]
    BY <1>5
  <2> HIDE DEF g
  <2> QED
    BY <1>1, <2>1
<1>7. \A m \in 0..N : g[m] \in V
  <2> HIDE DEF g
  <2>1. g[0] \in V
    BY <1>3, <1>6
  <2>2. \A m \in 1..N : g[m - 1] \in V => g[m] \in V
    BY <1>2, <1>6
  <2> QED
    BY <1>1, <2>1, <2>2, StepsStayIn, Zenon
<1>8. \A m : FilledUpTo(columns, m) = g[m]
  BY DEF FilledUpTo, Gap, After, N, V
<1> HIDE DEF g
<1> QED
  BY <1>1, <1>6, <1>7, <1>8 DEF After, N, V

-----------------------------------------------------------------------------
(* How values are printed.                                                 *)

CopyChar(b) ==
  IF b \in DOMAIN EscapeLetter
    THEN <<Char(Backslash), Char(EscapeLetter[b])>> ELSE <<Char(b)>>

(* Only a tab is not escaped as COPY wants it.                             *)
LEMMA EscapeIsCopy ==
  ASSUME NEW b \in Byte, b # Tab
  PROVE  Escape(b) = CopyChar(b)
<1>1. DOMAIN EscapeLetter = {Nul, Tab, Newline, Return, Backslash}
  BY DEF EscapeLetter
<1>2. /\ EscapeLetter[Nul] = Digit0 /\ EscapeLetter[Newline] = Lowern
      /\ EscapeLetter[Return] = Lowerr /\ EscapeLetter[Backslash] = Backslash
  BY DEF EscapeLetter, Nul, Tab, Newline, Return, Backslash
<1> QED
  BY <1>1, <1>2 DEF Escape, CopyChar, Nul, Tab, Newline, Return, Backslash

LEMMA CopyCharType ==
  ASSUME NEW b \in Byte
  PROVE  CopyChar(b) \in Seq(Symbol)
<1>1. CASE b # Tab
  BY <1>1, EscapeIsCopy, EscapeType
<1>2. CASE b = Tab
  <2>1. EscapeLetter[Tab] = 116 /\ Tab \in DOMAIN EscapeLetter
    BY DEF EscapeLetter, Nul, Tab, Newline, Return, Backslash
  <2>2. Char(Backslash) \in Symbol /\ Char(116) \in Symbol
    BY DEF Char, Symbol, Byte, Backslash
  <2> QED
    BY <1>2, <2>1, <2>2 DEF CopyChar
<1> QED
  BY <1>1, <1>2

(* The text format, character by character.                                 *)
LEMMA CopySteps ==
  ASSUME NEW s \in Seq(Byte)
  PROVE  /\ CopyFormUpTo(s, 0) = <<>>
         /\ \A n \in 1..Len(s) :
              CopyFormUpTo(s, n) = CopyFormUpTo(s, n - 1) \o CopyChar(s[n])
         /\ \A n \in 0..Len(s) : CopyFormUpTo(s, n) \in Seq(Symbol)
<1> DEFINE N == Len(s)
           V == Seq(Symbol)
           After(m, v) == v \o CopyChar(s[m])
           step == [m \in 1..N |-> [v \in V |-> After(m, v)]]
           g == CHOOSE g : g = [m \in 0..N |->
                                  IF m = 0 THEN <<>> ELSE After(m, g[m - 1])]
<1>1. N \in Nat
  OBVIOUS
<1>2. \A m \in 1..N : \A v \in V : After(m, v) \in V
  <2> SUFFICES ASSUME NEW m \in 1..N, NEW v \in V PROVE After(m, v) \in V
    OBVIOUS
  <2>1. s[m] \in Byte
    OBVIOUS
  <2>2. CopyChar(s[m]) \in Seq(Symbol)
    BY <2>1, CopyCharType
  <2> QED
    BY <2>2
<1>3. <<>> \in V
  OBVIOUS
<1> HIDE DEF N, V, After
<1>4. PICK f : Recurs(f, N, V, <<>>, step)
  <2>1. step \in [1..N -> [V -> V]]
    BY <1>2
  <2> HIDE DEF step
  <2> QED
    BY <1>1, <1>3, <2>1, StepByStep
<1>5. f = [m \in 0..N |-> IF m = 0 THEN <<>> ELSE After(m, f[m - 1])]
  <2>1. /\ f \in [0..N -> V] /\ f[0] = <<>>
        /\ \A m \in 1..N : f[m] = step[m][f[m - 1]]
    BY <1>4 DEF Recurs
  <2>2. \A m \in 1..N : f[m - 1] \in V
    BY <1>1, <2>1
  <2>3. \A m \in 1..N : f[m] = After(m, f[m - 1])
    BY <2>1, <2>2
  <2> HIDE DEF step
  <2> QED
    BY <1>1, <2>1, <2>3
<1>6. g[0] = <<>> /\ \A m \in 1..N : g[m] = After(m, g[m - 1])
  <2>1. g = [m \in 0..N |-> IF m = 0 THEN <<>> ELSE After(m, g[m - 1])]
    BY <1>5
  <2> HIDE DEF g
  <2> QED
    BY <1>1, <2>1
<1>7. \A m \in 0..N : g[m] \in V
  <2> HIDE DEF g
  <2>1. g[0] \in V
    BY <1>3, <1>6
  <2>2. \A m \in 1..N : g[m - 1] \in V => g[m] \in V
    BY <1>2, <1>6
  <2> QED
    BY <1>1, <2>1, <2>2, StepsStayIn, Zenon
<1>8. \A m : CopyFormUpTo(s, m) = g[m]
  BY DEF CopyFormUpTo, CopyChar, After, N, V
<1> HIDE DEF g
<1> QED
  BY <1>1, <1>6, <1>7, <1>8 DEF After, N, V

LEMMA FieldType ==
  ASSUME NEW c \in Column, c.null \/ Storable(c)
  PROVE  Field(c) \in Seq(Symbol)
<1>1. c.bytes \in Seq(Byte) /\ c.kind \in Kinds
  BY DEF Column
<1>2. UpToNul(c.bytes) \in Seq(Byte)
  BY <1>1, UpToNulType
<1>3. \A b \in Seq(Byte) : CopyForm(b) \in Seq(Symbol)
  <2> SUFFICES ASSUME NEW b \in Seq(Byte) PROVE CopyForm(b) \in Seq(Symbol)
    OBVIOUS
  <2>1. Len(b) \in 0..Len(b)
    OBVIOUS
  <2> QED
    BY <2>1, CopySteps DEF CopyForm
<1>4. Printed(c.kind, c.bytes) \in Seq(Symbol)
  BY <1>1, MarkType
<1>5. NullMark \in Seq(Symbol)
  BY MarkType
<1> QED
  BY <1>1, <1>2, <1>3, <1>4, <1>5 DEF Field

(* The columns of the types, "~" and what follows it left out.             *)
LEMMA ShownType ==
  ASSUME input \in Input, AllNamesKnown
  PROVE  /\ Given \in Seq(Kinds) /\ Len(Given) \in Nat
         /\ ShownCount \in 0..Len(Given)
         /\ Given = <<>> \/ (Len(Given) > 0 /\ ShownCount >= Len(Given) - 1)
<1>1. Len(input.types) \in 0..Len(input.types)
  BY DEF Input
<1>2. Given \in Seq(Kinds)
  BY <1>1, GivenSteps DEF Given
<1>3. Given = <<>> \/ Len(Given) \in Nat \ {0}
  BY <1>2
<1>4. Len(Given) \in Nat
  BY <1>2
<1>5. Given = <<>> => Len(Given) = 0
  OBVIOUS
<1> QED
  BY <1>2, <1>3, <1>4, <1>5 DEF ShownCount

Between(n) == IF n > 1 THEN <<Char(Tab)>> ELSE <<>>

(* The row of a tuple, column by column.                                    *)
LEMMA LineSteps ==
  ASSUME input \in Input, AllNamesKnown, NEW t, t.columns \in Seq(Column),
         ShownCount <= Len(t.columns),
         \A n \in 1..Len(t.columns) : t.columns[n].null \/ Storable(t.columns[n])
  PROVE  /\ LineUpTo(t, 0) = <<>>
         /\ \A n \in 1..ShownCount :
              LineUpTo(t, n) = LineUpTo(t, n - 1) \o Between(n) \o Field(t.columns[n])
         /\ \A n \in 0..ShownCount : LineUpTo(t, n) \in Seq(Symbol)
<1> DEFINE N == ShownCount
           V == Seq(Symbol)
           After(m, v) == v \o Between(m) \o Field(t.columns[m])
           step == [m \in 1..N |-> [v \in V |-> After(m, v)]]
           g == CHOOSE g : g = [m \in 0..N |->
                                  IF m = 0 THEN <<>> ELSE After(m, g[m - 1])]
<1>1. N \in Nat
  BY ShownType
<1>2. \A m \in 1..N : \A v \in V : After(m, v) \in V
  <2> SUFFICES ASSUME NEW m \in 1..N, NEW v \in V PROVE After(m, v) \in V
    OBVIOUS
  <2>1. m \in 1..Len(t.columns)
    BY <1>1
  <2>2. t.columns[m] \in Column /\ (t.columns[m].null \/ Storable(t.columns[m]))
    BY <2>1
  <2>3. Field(t.columns[m]) \in Seq(Symbol)
    BY <2>2, FieldType
  <2>4. Between(m) \in Seq(Symbol)
    <3>1. Char(Tab) \in Symbol
      BY DEF Char, Symbol, Byte, Tab
    <3> QED
      BY <3>1 DEF Between
  <2> DEFINE a == Between(m)
             b == Field(t.columns[m])
  <2>5. v \in Seq(Symbol) /\ a \in Seq(Symbol) /\ b \in Seq(Symbol)
    BY <2>3, <2>4
  <2> HIDE DEF a, b
  <2>6. v \o a \o b \in Seq(Symbol)
    BY <2>5
  <2> QED
    BY <2>5, <2>6 DEF a, b
<1>3. <<>> \in V
  OBVIOUS
<1> HIDE DEF N, V, After
<1>4. PICK f : Recurs(f, N, V, <<>>, step)
  <2>1. step \in [1..N -> [V -> V]]
    BY <1>2
  <2> HIDE DEF step
  <2> QED
    BY <1>1, <1>3, <2>1, StepByStep
<1>5. f = [m \in 0..N |-> IF m = 0 THEN <<>> ELSE After(m, f[m - 1])]
  <2>1. /\ f \in [0..N -> V] /\ f[0] = <<>>
        /\ \A m \in 1..N : f[m] = step[m][f[m - 1]]
    BY <1>4 DEF Recurs
  <2>2. \A m \in 1..N : f[m - 1] \in V
    BY <1>1, <2>1
  <2>3. \A m \in 1..N : f[m] = After(m, f[m - 1])
    BY <2>1, <2>2
  <2> HIDE DEF step
  <2> QED
    BY <1>1, <2>1, <2>3
<1>6. g[0] = <<>> /\ \A m \in 1..N : g[m] = After(m, g[m - 1])
  <2>1. g = [m \in 0..N |-> IF m = 0 THEN <<>> ELSE After(m, g[m - 1])]
    BY <1>5
  <2> HIDE DEF g
  <2> QED
    BY <1>1, <2>1
<1>7. \A m \in 0..N : g[m] \in V
  <2> HIDE DEF g
  <2>1. g[0] \in V
    BY <1>3, <1>6
  <2>2. \A m \in 1..N : g[m - 1] \in V => g[m] \in V
    BY <1>2, <1>6
  <2> QED
    BY <1>1, <2>1, <2>2, StepsStayIn, Zenon
<1>8. \A m : LineUpTo(t, m) = g[m]
  BY DEF LineUpTo, Between, After, N, V
<1> HIDE DEF g
<1> QED
  BY <1>1, <1>6, <1>7, <1>8 DEF After, N, V

(* How far values of fixed size reach, column by column.                    *)
LEMMA FixedSteps ==
  ASSUME input \in Input, AllNamesKnown, NEW t, t.at \in Nat,
         \A n \in 1..Len(Given) : Given[n] \in FixedKinds
  PROVE  /\ FixedUpTo(t, 0) = 0
         /\ \A n \in 1..Len(Given) :
              FixedUpTo(t, n) =
                IF n \in t.nulls THEN FixedUpTo(t, n - 1)
                ELSE FixedUpTo(t, n - 1)
                       + Padding(t.at + FixedUpTo(t, n - 1), LayoutOf(Given[n]).align)
                       + LayoutOf(Given[n]).size
         /\ \A n \in 0..Len(Given) : FixedUpTo(t, n) \in Nat
<1> DEFINE N == Len(Given)
           V == Nat
           After(m, v) == IF m \in t.nulls THEN v
                          ELSE v + Padding(t.at + v, LayoutOf(Given[m]).align)
                                 + LayoutOf(Given[m]).size
           step == [m \in 1..N |-> [v \in V |-> After(m, v)]]
           g == CHOOSE g : g = [m \in 0..N |->
                                  IF m = 0 THEN 0 ELSE After(m, g[m - 1])]
<1>1. N \in Nat
  BY ShownType
<1>2. \A m \in 1..N : \A v \in V : After(m, v) \in V
  <2> SUFFICES ASSUME NEW m \in 1..N, NEW v \in V PROVE After(m, v) \in V
    OBVIOUS
  <2>1. LayoutOf(Given[m]).size \in Nat /\ LayoutOf(Given[m]).align \in {1, 2, 4, 8}
    BY LayoutType
  <2>2. t.at + v \in Nat
    OBVIOUS
  <2>3. Padding(t.at + v, LayoutOf(Given[m]).align) \in Nat
    BY <2>1, <2>2, PaddingType
  <2> QED
    BY <2>1, <2>3
<1>3. 0 \in V
  OBVIOUS
<1> HIDE DEF N, V, After
<1>4. PICK f : Recurs(f, N, V, 0, step)
  <2>1. step \in [1..N -> [V -> V]]
    BY <1>2
  <2> HIDE DEF step
  <2> QED
    BY <1>1, <1>3, <2>1, StepByStep
<1>5. f = [m \in 0..N |-> IF m = 0 THEN 0 ELSE After(m, f[m - 1])]
  <2>1. /\ f \in [0..N -> V] /\ f[0] = 0
        /\ \A m \in 1..N : f[m] = step[m][f[m - 1]]
    BY <1>4 DEF Recurs
  <2>2. \A m \in 1..N : f[m - 1] \in V
    BY <1>1, <2>1
  <2>3. \A m \in 1..N : f[m] = After(m, f[m - 1])
    BY <2>1, <2>2
  <2> HIDE DEF step
  <2> QED
    BY <1>1, <2>1, <2>3
<1>6. g[0] = 0 /\ \A m \in 1..N : g[m] = After(m, g[m - 1])
  <2>1. g = [m \in 0..N |-> IF m = 0 THEN 0 ELSE After(m, g[m - 1])]
    BY <1>5
  <2> HIDE DEF g
  <2> QED
    BY <1>1, <2>1
<1>7. \A m \in 0..N : g[m] \in V
  <2> HIDE DEF g
  <2>1. g[0] \in V
    BY <1>3, <1>6
  <2>2. \A m \in 1..N : g[m - 1] \in V => g[m] \in V
    BY <1>2, <1>6
  <2> QED
    BY <1>1, <2>1, <2>2, StepsStayIn, Zenon
<1>8. \A m : FixedUpTo(t, m) = g[m]
  BY DEF FixedUpTo, After, N, V
<1> HIDE DEF g
<1> QED
  BY <1>1, <1>6, <1>7, <1>8 DEF After, N, V

-----------------------------------------------------------------------------
(* Where the values of a tuple are.                                        *)

(* The data of the first columns begins the data of more.                  *)
Begins(a, b) == Len(a) <= Len(b) /\ \A i \in 1..Len(a) : b[i] = a[i]

Filling(columns) ==
  /\ columns \in Seq(Column)
  /\ \A n \in 1..Len(columns) : columns[n].null \/ Storable(columns[n])

LEMMA FilledGrows ==
  ASSUME NEW columns, Filling(columns)
  PROVE  \A m \in 0..Len(columns) : \A n \in 0..m :
           Begins(FilledUpTo(columns, n), FilledUpTo(columns, m))
<1> DEFINE N == Len(columns)
           F(m) == FilledUpTo(columns, m)
           S == {m \in 0..N : \A n \in 0..m : Begins(F(n), F(m))}
<1>1. /\ columns \in Seq(Column) /\ N \in Nat
      /\ \A n \in 1..N : columns[n].null \/ Storable(columns[n])
  BY DEF Filling
<1>2. \A m \in 0..N : F(m) \in Seq(Byte)
  BY <1>1, FilledSteps
<1>3. 0 \in S
  <2>1. \A n \in 0..0 : n = 0
    OBVIOUS
  <2>2. Begins(F(0), F(0))
    BY <1>1, <1>2 DEF Begins
  <2> HIDE DEF N, F
  <2> QED
    BY <1>1, <2>1, <2>2
<1>4. ASSUME NEW m \in 0..(N - 1), m \in S PROVE m + 1 \in S
  <2>1. m \in 0..N /\ m + 1 \in 1..N /\ m + 1 \in 0..N /\ (m + 1) - 1 = m
    BY <1>1
  <2>2. F(m) \in Seq(Byte) /\ F(m + 1) \in Seq(Byte)
    BY <1>2, <2>1
  <2>3. Begins(F(m), F(m + 1))
    <3> DEFINE c == columns[m + 1]
    <3>1. F(m + 1) = IF c.null THEN F(m)
                     ELSE F(m) \o Gap(Len(F(m)), c) \o StoredForm(c)
      BY <1>1, <2>1, FilledSteps
    <3>2. c \in Column /\ (c.null \/ Storable(c))
      BY <1>1, <2>1
    <3> HIDE DEF F, c
    <3>3. CASE c.null
      BY <2>2, <3>1, <3>3 DEF Begins
    <3>4. CASE ~c.null
      <4>1. Len(F(m)) \in Nat
        BY <2>2
      <4> DEFINE a == F(m)
                 g == Gap(Len(F(m)), c)
                 v == StoredForm(c)
      <4>2. a \in Seq(Byte) /\ g \in Seq(Byte) /\ v \in Seq(Byte)
        BY <2>2, <3>2, <3>4, <4>1, GapType, StoredType
      <4>3. F(m + 1) = (a \o g) \o v
        BY <3>1, <3>4
      <4> HIDE DEF a, g, v
      <4>4. a \in Seq(Byte) /\ g \in Seq(Byte)
        BY <4>2
      <4>5. /\ a \o g \in Seq(Byte) /\ Len(a \o g) = Len(a) + Len(g)
            /\ Len(a) \in Nat /\ Len(g) \in Nat
            /\ \A i \in 1..(Len(a) + Len(g)) :
                 (a \o g)[i] = IF i <= Len(a) THEN a[i] ELSE g[i - Len(a)]
        BY <4>4, ConcatLen
      <4> DEFINE b == a \o g
      <4>6. b \in Seq(Byte) /\ v \in Seq(Byte)
        BY <4>2, <4>5
      <4>7. /\ Len(b) = Len(a) + Len(g)
            /\ \A i \in 1..Len(a) : b[i] = a[i]
        BY <4>5
      <4> HIDE DEF b
      <4>8. /\ Len(b \o v) = Len(b) + Len(v) /\ Len(b) \in Nat /\ Len(v) \in Nat
            /\ \A i \in 1..(Len(b) + Len(v)) :
                 (b \o v)[i] = IF i <= Len(b) THEN b[i] ELSE v[i - Len(b)]
        BY <4>6, ConcatLen
      <4>9. Begins(a, b \o v)
        BY <4>5, <4>7, <4>8 DEF Begins
      <4> QED
        BY <4>3, <4>9 DEF a, b
    <3> QED
      BY <3>3, <3>4
  <2>4. ASSUME NEW n \in 0..(m + 1) PROVE Begins(F(n), F(m + 1))
    <3>1. CASE n = m + 1
      BY <2>2, <3>1 DEF Begins
    <3>2. CASE n # m + 1
      <4>1. n \in 0..m /\ n \in 0..N
        BY <2>1, <3>2
      <4>2. Begins(F(n), F(m)) /\ F(n) \in Seq(Byte)
        BY <1>2, <1>4, <4>1
      <4> HIDE DEF F
      <4>3. Len(F(n)) \in Nat /\ Len(F(m)) \in Nat /\ Len(F(m + 1)) \in Nat
        BY <2>2, <4>2
      <4> QED
        BY <2>3, <4>2, <4>3 DEF Begins
    <3> QED
      BY <3>1, <3>2
  <2> QED
    BY <2>1, <2>4
<1>5. \A m \in 0..N : m \in S
  <2> HIDE DEF S
  <2> QED
    BY <1>1, <1>3, <1>4, InductionUpTo
<1> QED
  BY <1>5

(* The zeros and the value of a column.                                    *)
LEMMA ColumnFilled ==
  ASSUME NEW columns, Filling(columns), NEW m \in 1..Len(columns),
         ~columns[m].null
  PROVE  LET c == columns[m]
             e == Len(FilledUpTo(columns, m - 1))
             p == Padding(e, ServerAlign(c))
             f == FilledUpTo(columns, m)
         IN /\ e \in Nat /\ p \in Nat /\ Storable(c) /\ c \in Column
            /\ f \in Seq(Byte) /\ StoredForm(c) \in Seq(Byte)
            /\ Len(f) = e + p + Len(StoredForm(c))
            /\ \A i \in 1..p : f[e + i] = Nul
            /\ \A i \in 1..Len(StoredForm(c)) : f[e + p + i] = StoredForm(c)[i]
<1> DEFINE c == columns[m]
           a == FilledUpTo(columns, m - 1)
           e == Len(a)
           p == Padding(e, ServerAlign(c))
           g == Gap(e, c)
           v == StoredForm(c)
           f == FilledUpTo(columns, m)
<1>1. /\ columns \in Seq(Column) /\ Len(columns) \in Nat
      /\ \A n \in 1..Len(columns) : columns[n].null \/ Storable(columns[n])
  BY DEF Filling
<1>2. c \in Column /\ Storable(c) /\ m - 1 \in 0..Len(columns) /\ m \in 0..Len(columns)
  BY <1>1
<1>3. a \in Seq(Byte) /\ f = (a \o g) \o v /\ f \in Seq(Byte)
  BY <1>1, <1>2, FilledSteps
<1>4. e \in Nat
  BY <1>3
<1>5. p \in Nat /\ g \in Seq(Byte) /\ Len(g) = p /\ v \in Seq(Byte)
  BY <1>2, <1>4, GapType, StoredType
<1>6. \A i \in 1..p : g[i] = Nul
  BY <1>5 DEF Gap
<1> HIDE DEF f, a, e, p, g, v, c
<1>7. a \in Seq(Byte) /\ g \in Seq(Byte)
  BY <1>3, <1>5
<1>8. /\ a \o g \in Seq(Byte) /\ Len(a \o g) = Len(a) + Len(g)
      /\ \A i \in 1..(Len(a) + Len(g)) :
           (a \o g)[i] = IF i <= Len(a) THEN a[i] ELSE g[i - Len(a)]
  BY <1>7, ConcatLen
<1> DEFINE b == a \o g
<1>9. b \in Seq(Byte) /\ v \in Seq(Byte) /\ Len(b) = e + p
  BY <1>5, <1>8 DEF e
<1>10. \A i \in 1..p : b[e + i] = Nul
  <2> SUFFICES ASSUME NEW i \in 1..p PROVE b[e + i] = Nul
    OBVIOUS
  <2>1. e + i \in 1..(e + p) /\ ~(e + i <= e) /\ (e + i) - e = i
    BY <1>4, <1>5
  <2>2. b[e + i] = g[i]
    BY <1>5, <1>8, <2>1 DEF e
  <2> QED
    BY <1>6, <2>2
<1> HIDE DEF b
<1>11. /\ Len(b \o v) = Len(b) + Len(v) /\ Len(v) \in Nat
       /\ \A i \in 1..(Len(b) + Len(v)) :
            (b \o v)[i] = IF i <= Len(b) THEN b[i] ELSE v[i - Len(b)]
  <2>1. b \in Seq(Byte) /\ v \in Seq(Byte)
    BY <1>9
  <2> QED
    BY <2>1, ConcatLen
<1>12. f = b \o v
  BY <1>3 DEF b
<1> DEFINE q == Len(v)
<1>13. q \in Nat
  BY <1>11
<1>14. \A i \in 1..p : f[e + i] = Nul
  <2> SUFFICES ASSUME NEW i \in 1..p PROVE f[e + i] = Nul
    OBVIOUS
  <2>1. \A j \in 1..((e + p) + q) : f[j] = IF j <= e + p THEN b[j] ELSE v[j - (e + p)]
    BY <1>9, <1>11, <1>12
  <2> HIDE DEF q
  <2>2. e + i \in 1..((e + p) + q) /\ e + i <= e + p
    BY <1>4, <1>5, <1>13
  <2> QED
    BY <1>10, <2>1, <2>2
<1>15. \A i \in 1..q : f[e + p + i] = v[i]
  <2>1. \A j \in 1..((e + p) + q) : f[j] = IF j <= e + p THEN b[j] ELSE v[j - (e + p)]
    BY <1>9, <1>11, <1>12
  <2> HIDE DEF q
  <2> SUFFICES ASSUME NEW i \in 1..q PROVE f[e + p + i] = v[i]
    OBVIOUS
  <2>2. /\ e + p + i \in 1..((e + p) + q) /\ ~(e + p + i <= e + p)
        /\ (e + p + i) - (e + p) = i
    BY <1>4, <1>5, <1>13
  <2> QED
    BY <2>1, <2>2
<1>16. Len(f) = e + p + q
  BY <1>9, <1>11, <1>12
<1> QED
  BY <1>2, <1>3, <1>4, <1>5, <1>14, <1>15, <1>16 DEF f, a, e, p, v, c

(* A tuple the server wrote.                                               *)
Columns == Current.columns
Here == Columns[col]
Total == Current.len - Current.hoff
End == [n \in 0..Len(Columns) |-> Len(FilledUpTo(Columns, n))]
GapOf(n) == Padding(End[n - 1], ServerAlign(Columns[n]))

LEMMA ColumnsType ==
  ASSUME input \in Input, k \in 1..Len(input.tuples), IsFilled(Current)
  PROVE  /\ Current \in Tuple /\ Filling(Columns) /\ Columns \in Seq(Column)
         /\ Len(Columns) \in Nat \ {0}
         /\ Total \in Nat /\ Total <= Len(Current.bytes)
         /\ Current.hoff \in Nat /\ Current.len \in Nat
         /\ Current.hoff <= Current.len
         /\ Current.at \in Nat /\ Current.at % 8 = 0
         /\ Current.bytes \in Seq(Byte) /\ Current.beyond \in Byte
         /\ \A n \in 1..Len(Columns) :
              n \in Current.nulls <=> Columns[n].null
<1>1. Current \in Tuple
  BY DEF Current, Input
<1>2. /\ Current.hoff \in Nat /\ Current.len \in Nat /\ Current.at \in Nat
      /\ Columns \in Seq(Column) /\ Current.bytes \in Seq(Byte)
      /\ Current.beyond \in Byte
  BY <1>1 DEF Tuple, Columns
<1>3. /\ Columns # <<>> /\ Current.hoff <= Current.len
      /\ Current.at % 8 = 0
      /\ Current.len - Current.hoff <= Len(Current.bytes)
  BY DEF IsFilled, Columns
<1>4. Current.nulls = {n \in 1..Len(Columns) : Columns[n].null}
  BY Zenon DEF IsFilled, Columns
<1>5. \A n \in 1..Len(Columns) : Columns[n].null \/ Storable(Columns[n])
  BY Zenon DEF IsFilled, Columns
<1>6. Len(Columns) \in Nat \ {0}
  BY <1>2, <1>3
<1> QED
  BY <1>1, <1>2, <1>3, <1>4, <1>5, <1>6 DEF Filling, Total

(* The columns end one after the other, the last where the tuple does.     *)
LEMMA EndsGrow ==
  ASSUME input \in Input, k \in 1..Len(input.tuples), IsFilled(Current)
  PROVE  /\ End[0] = 0 /\ End[Len(Columns)] = Total
         /\ \A n \in 0..Len(Columns) : End[n] \in Nat /\ End[n] <= Total
<1> DEFINE N == Len(Columns)
           f(n) == FilledUpTo(Columns, n)
<1>1. /\ Columns \in Seq(Column) /\ Filling(Columns) /\ N \in Nat \ {0}
      /\ Total \in Nat
  BY ColumnsType
<1>2. /\ f(0) = <<>>
      /\ \A n \in 0..N : f(n) \in Seq(Byte)
  BY <1>1, FilledSteps DEF Filling
<1>3. \A n \in 0..N : Len(f(n)) <= Len(f(N))
  <2>1. N \in 0..N
    BY <1>1
  <2>2. \A n \in 0..N : Begins(f(n), f(N))
    BY <1>1, <2>1, FilledGrows
  <2> QED
    BY <2>2 DEF Begins
<1>4. Len(f(N)) = Total
  BY DEF IsFilled, Filled, Total, Columns
<1>5. \A n \in 0..N : End[n] = Len(f(n))
  BY DEF End
<1>6. \A n \in 0..N : Len(f(n)) \in Nat
  BY <1>2
<1> HIDE DEF N, f
<1>7. 0 \in 0..N /\ N \in 0..N
  BY <1>1
<1>8. Len(f(0)) = 0
  BY <1>2
<1>9. /\ End[0] = 0 /\ End[N] = Total
      /\ \A n \in 0..N : End[n] \in Nat /\ End[n] <= Total
  BY <1>3, <1>4, <1>5, <1>6, <1>7, <1>8
<1> QED
  BY <1>9 DEF N

(* The bytes of the tuple are those of its columns.                        *)
LEMMA BytesFilled ==
  ASSUME input \in Input, k \in 1..Len(input.tuples), IsFilled(Current),
         NEW q \in Nat, q < Total
  PROVE  ByteAt(q) = FilledUpTo(Columns, Len(Columns))[q + 1]
<1>1. /\ Total \in Nat /\ Total <= Len(Current.bytes)
      /\ Current.bytes \in Seq(Byte)
  BY ColumnsType
<1>2. SubSeq(Current.bytes, 1, Total) = FilledUpTo(Columns, Len(Columns))
  BY DEF IsFilled, Filled, Total, Columns
<1>3. q + 1 \in 1..Total /\ q < Len(Current.bytes)
  BY <1>1
<1>4. SubSeq(Current.bytes, 1, Total)[q + 1] = Current.bytes[q + 1]
  BY <1>1, <1>3
<1> QED
  BY <1>2, <1>3, <1>4 DEF ByteAt

(* The zeros before a value, and its bytes.                                *)
LEMMA ColumnBytes ==
  ASSUME input \in Input, k \in 1..Len(input.tuples), IsFilled(Current),
         NEW m \in 1..Len(Columns), ~Columns[m].null
  PROVE  LET c == Columns[m]
             start == End[m - 1] + GapOf(m)
         IN /\ End[m - 1] \in Nat /\ GapOf(m) \in Nat
            /\ Storable(c) /\ c \in Column /\ StoredForm(c) \in Seq(Byte)
            /\ End[m] = start + Len(StoredForm(c))
            /\ \A q \in End[m - 1]..(start - 1) : ByteAt(q) = Nul
            /\ \A i \in 1..Len(StoredForm(c)) :
                 ByteAt(start + i - 1) = StoredForm(c)[i]
<1> DEFINE N == Len(Columns)
           c == Columns[m]
           f == FilledUpTo(Columns, m)
           whole == FilledUpTo(Columns, N)
           e == End[m - 1]
           p == GapOf(m)
           v == StoredForm(c)
<1>1. Filling(Columns) /\ N \in Nat \ {0} /\ Total \in Nat
  BY ColumnsType
<1>2. m - 1 \in 0..N /\ m \in 0..N /\ N \in 0..N /\ m \in 0..N
  BY <1>1
<1>3. e = Len(FilledUpTo(Columns, m - 1)) /\ End[m] = Len(f)
  BY <1>2 DEF End
<1>4. p = Padding(e, ServerAlign(c))
  BY DEF GapOf
<1>5. LET e0 == Len(FilledUpTo(Columns, m - 1))
          p0 == Padding(e0, ServerAlign(c))
      IN /\ e0 \in Nat /\ p0 \in Nat /\ Storable(c) /\ c \in Column
         /\ f \in Seq(Byte) /\ v \in Seq(Byte)
         /\ Len(f) = e0 + p0 + Len(v)
         /\ \A i \in 1..p0 : f[e0 + i] = Nul
         /\ \A i \in 1..Len(v) : f[e0 + p0 + i] = v[i]
  BY <1>1, ColumnFilled
<1>6. Begins(f, whole)
  BY <1>1, <1>2, FilledGrows
<1>7. End[m] <= Total
  BY <1>2, EndsGrow
<1>8. \A q \in Nat : q < Total => ByteAt(q) = whole[q + 1]
  BY BytesFilled
<1> HIDE DEF e, p, f, v, c, whole, N
<1>9. /\ e \in Nat /\ p \in Nat /\ Storable(c) /\ c \in Column
      /\ f \in Seq(Byte) /\ v \in Seq(Byte)
      /\ Len(f) = e + p + Len(v)
      /\ \A i \in 1..p : f[e + i] = Nul
      /\ \A i \in 1..Len(v) : f[e + p + i] = v[i]
  BY <1>3, <1>4, <1>5
<1>10. \A q \in Nat : q < Len(f) => ByteAt(q) = f[q + 1]
  <2> SUFFICES ASSUME NEW q \in Nat, q < Len(f) PROVE ByteAt(q) = f[q + 1]
    OBVIOUS
  <2> DEFINE l == Len(f)
  <2>1. l \in Nat
    BY <1>9
  <2>2. l <= Total
    BY <1>3, <1>7
  <2> HIDE DEF l
  <2>3. q + 1 \in 1..l /\ q < Total
    BY <1>1, <2>1, <2>2 DEF l
  <2>4. whole[q + 1] = f[q + 1]
    BY <1>6, <2>3 DEF Begins, l
  <2> QED
    BY <1>8, <2>3, <2>4
<1> DEFINE l == Len(f)
           w == Len(v)
<1>11. l \in Nat /\ w \in Nat /\ l = e + p + w
  BY <1>9
<1>12. \A q \in Nat : q < l => ByteAt(q) = f[q + 1]
  BY <1>10
<1>13. \A i \in 1..w : f[e + p + i] = v[i]
  BY <1>9
<1>14. End[m] = l
  BY <1>3
<1> HIDE DEF l, w
<1>15. \A q \in e..(e + p - 1) : ByteAt(q) = Nul
  <2> SUFFICES ASSUME NEW q \in e..(e + p - 1) PROVE ByteAt(q) = Nul
    OBVIOUS
  <2>1. q \in Nat /\ q < l /\ (q + 1) - e \in 1..p /\ e + ((q + 1) - e) = q + 1
    BY <1>9, <1>11
  <2>2. f[q + 1] = Nul
    BY <1>9, <2>1
  <2> QED
    BY <1>12, <2>1, <2>2
<1>16. \A i \in 1..w : ByteAt(e + p + i - 1) = v[i]
  <2> SUFFICES ASSUME NEW i \in 1..w PROVE ByteAt(e + p + i - 1) = v[i]
    OBVIOUS
  <2>1. /\ e + p + i - 1 \in Nat /\ e + p + i - 1 < l
        /\ (e + p + i - 1) + 1 = e + p + i
    BY <1>9, <1>11
  <2> QED
    BY <1>12, <1>13, <2>1
<1>17. End[m] = (e + p) + Len(v)
  BY <1>11, <1>14 DEF w
<1>18. \A i \in 1..Len(v) : ByteAt(e + p + i - 1) = v[i]
  BY <1>16 DEF w
<1> QED
  BY <1>9, <1>15, <1>17, <1>18 DEF e, p, v, c

-----------------------------------------------------------------------------
(* What the decoders read of it.                                           *)

(* A length word is its digits, the lowest in steps of 4.                  *)
LEMMA Digits ==
  ASSUME NEW n \in Nat, n < 64 * 256 * 256 * 256, NEW w, w = LengthWord(n)
  PROVE  /\ w[1] \div 4 + 64 * w[2] + 16384 * w[3] + 256 * 16384 * w[4] = n
         /\ w[1] % 4 = 0 /\ w[1] \in Nat
         /\ n % 64 # 0 => w[1] # 0
<1> DEFINE q == n \div 64
           r == n % 64
           s == n \div 16384
           t == n \div (256 * 16384)
<1>1. /\ q \in Nat /\ r \in 0..63 /\ n = 64 * q + r
      /\ s \in Nat /\ t \in Nat
  OBVIOUS
<1>2. (4 * n) % 256 = 4 * r
  OBVIOUS
<1>3. s = q \div 256 /\ t = s \div 256
  OBVIOUS
<1>4. t < 256
  OBVIOUS
<1>5. w[1] = (4 * n) % 256 /\ w[2] = q % 256 /\ w[3] = s % 256 /\ w[4] = t % 256
  BY DEF LengthWord
<1> HIDE DEF q, r, s, t
<1>6. w[1] \div 4 = r /\ w[1] % 4 = 0 /\ w[1] = 4 * r
  BY <1>1, <1>2, <1>5
<1>7. q = 256 * s + w[2] /\ s = 256 * t + w[3] /\ t = w[4]
  BY <1>1, <1>3, <1>4, <1>5
<1>8. r + 64 * w[2] + 16384 * w[3] + 256 * 16384 * w[4] = n
  <2> DEFINE x == w[2]
             y == w[3]
             z == w[4]
  <2>1. x \in Int /\ y \in Int /\ z \in Int /\ n = 64 * q + r
        /\ q = 256 * s + x /\ s = 256 * t + y /\ t = z
        /\ q \in Int /\ r \in Int /\ s \in Int /\ t \in Int
    BY <1>1, <1>5, <1>7
  <2> HIDE DEF x, y, z
  <2>2. q = 256 * (256 * z + y) + x
    BY <2>1
  <2>3. n = 64 * (256 * (256 * z + y) + x) + r
    BY <2>1, <2>2
  <2>4. 64 * (256 * (256 * z + y) + x) = 64 * x + 16384 * y + 256 * 16384 * z
    BY <2>1
  <2>5. r + 64 * x + 16384 * y + 256 * 16384 * z = n
    BY <2>1, <2>3, <2>4
  <2> QED
    BY <2>5 DEF x, y, z
<1> QED
  BY <1>1, <1>6, <1>8 DEF r

(* The data begins at a multiple of 8.                                     *)
LEMMA SamePadding ==
  ASSUME NEW at \in Nat, at % 8 = 0, NEW e \in Nat, NEW a \in {1, 2, 4, 8}
  PROVE  Padding(at + e, a) = Padding(e, a)
<1>1. PICK m \in Nat : at = 8 * m
  <2>1. at = 8 * (at \div 8) /\ at \div 8 \in Nat
    OBVIOUS
  <2> QED
    BY <2>1
<1>2. CASE a = 1
  BY <1>1, <1>2 DEF Padding
<1>3. CASE a = 2
  BY <1>1, <1>3 DEF Padding
<1>4. CASE a = 4
  BY <1>1, <1>4 DEF Padding
<1>5. CASE a = 8
  BY <1>1, <1>5 DEF Padding
<1> QED
  BY <1>2, <1>3, <1>4, <1>5

LEMMA NoPadding ==
  ASSUME NEW at \in Nat, at % 8 = 0, NEW e \in Nat
  PROVE  /\ Padding(e, 1) = 0
         /\ e % 4 = 0 => Padding(at + e, 4) = 0
  BY DEF Padding

LEMMA BytesAtIs ==
  ASSUME NEW s \in Seq(Byte), NEW start \in Nat,
         \A i \in 1..Len(s) : ByteAt(start + i - 1) = s[i]
  PROVE  BytesAt(start, Len(s)) = s
<1>1. BytesAt(start, Len(s)) = [i \in 1..Len(s) |-> s[i]]
  BY DEF BytesAt
<1>2. [i \in 1..Len(s) |-> s[i]] = s
  OBVIOUS
<1> QED
  BY <1>1, <1>2

(* A value of fixed size is found where the server put it.                 *)
LEMMA FixedRead ==
  ASSUME input \in Input, k \in 1..Len(input.tuples), IsFilled(Current),
         col \in 1..Len(Columns), ~Here.null, Here.kind \in FixedKinds,
         callbacks[col] = Here.kind, pos = End[col - 1],
         Here.kind = "name" => End[col - 1] % 4 = 0
  PROVE  /\ ValueStart \in Nat /\ ValueEnd = End[col] /\ ValueEnd \in Nat
         /\ ValueStart <= ValueEnd
         /\ BytesAt(ValueStart, ValueEnd - ValueStart) = Here.bytes
<1> DEFINE c == Here
           e == End[col - 1]
           p == GapOf(col)
           l == LayoutOf(c.kind)
           at == Current.at
<1>1. /\ e \in Nat /\ p \in Nat /\ Storable(c) /\ c \in Column
      /\ StoredForm(c) \in Seq(Byte)
      /\ End[col] = (e + p) + Len(StoredForm(c))
      /\ \A i \in 1..Len(StoredForm(c)) : ByteAt((e + p) + i - 1) = StoredForm(c)[i]
  BY ColumnBytes DEF Here
<1>2. at \in Nat /\ at % 8 = 0
  BY ColumnsType
<1>3. l.size \in Nat /\ l.align \in {1, 2, 4, 8}
  BY LayoutType
<1>4. Padding(at + e, l.align) = p
  <2>1. CASE c.kind # "name"
    <3>1. ServerAlign(c) = l.align
      BY <2>1, KindsDiffer DEF ServerAlign
    <3>2. p = Padding(e, l.align)
      BY <3>1 DEF GapOf, Here
    <3> HIDE DEF c, e, p, l, at
    <3> QED
      BY <1>1, <1>2, <1>3, <3>2, SamePadding
  <2>2. CASE c.kind = "name"
    <3>1. p = Padding(e, 1)
      BY <2>2 DEF GapOf, Here, ServerAlign
    <3>2. l.align = 4
      <4>1. Layout("name", NameLen, 4) \in Layouts
        BY DEF Layouts, CharLayouts
      <4>2. \A x \in Layouts : x.kind = "name" => x.align = 4
        BY DEF Layouts, IntegerLayouts, TimeLayouts, FloatLayouts, OctetLayouts,
               CharLayouts, Layout
      <4>3. Layout("name", NameLen, 4).kind = "name"
        BY DEF Layout
      <4>4. l \in Layouts /\ l.kind = "name"
        BY <2>2, <4>1, <4>3 DEF LayoutOf
      <4> QED
        BY <4>2, <4>4
    <3>3. e % 4 = 0
      BY <2>2
    <3> HIDE DEF c, e, p, l, at
    <3> QED
      BY <1>1, <1>2, <3>1, <3>2, <3>3, NoPadding
  <2> QED
    BY <2>1, <2>2
<1>5. ValueStart = e + p /\ ValueEnd = (e + p) + l.size
  <2>1. ValueStart = e + Padding(at + e, l.align)
    BY DEF ValueStart
  <2>2. ValueEnd = ValueStart + l.size
    BY DEF ValueEnd
  <2> QED
    BY <1>4, <2>1, <2>2
<1>6. StoredForm(c) = c.bytes /\ Len(c.bytes) = l.size /\ c.bytes \in Seq(Byte)
  <2>1. StoredForm(c) = c.bytes /\ Len(c.bytes) = l.size
    BY <1>1, KindsDiffer DEF StoredForm, Storable
  <2> QED
    BY <1>1, <2>1
<1> HIDE DEF c, e, p, l, at
<1> DEFINE b == c.bytes
           start == e + p
<1>7. /\ b \in Seq(Byte) /\ start \in Nat
      /\ \A i \in 1..Len(b) : ByteAt(start + i - 1) = b[i]
  BY <1>1, <1>6
<1>8. ValueEnd - ValueStart = Len(b) /\ ValueStart = start
  BY <1>1, <1>3, <1>5, <1>6
<1> HIDE DEF b, start
<1>9. BytesAt(start, Len(b)) = b
  BY <1>7, BytesAtIs
<1>10. BytesAt(ValueStart, ValueEnd - ValueStart) = c.bytes
  BY <1>8, <1>9 DEF b
<1>11. ValueEnd = End[col] /\ ValueEnd \in Nat /\ ValueStart \in Nat /\ ValueStart <= ValueEnd
  BY <1>1, <1>3, <1>5, <1>6
<1> QED
  BY <1>10, <1>11 DEF c

(* A text starts with its length word, of which no byte that is read as    *)
(* padding is the first.                                                   *)
TextStart == End[col - 1] + GapOf(col)

LEMMA ShortRead ==
  ASSUME input \in Input, k \in 1..Len(input.tuples), IsFilled(Current),
         col \in 1..Len(Columns), ~Here.null, Here.kind = "string", ~Here.long
  PROVE  /\ TextStart \in Nat
         /\ ByteAt(TextStart) % 2 = 1 /\ ByteAt(TextStart) \notin {0, 1}
         /\ TextStart + ByteAt(TextStart) \div 2 = End[col]
         /\ BytesAt(TextStart + 1, ByteAt(TextStart) \div 2 - 1) = Here.bytes
<1> DEFINE c == Here
           e == TextStart
           b == c.bytes
           n == Len(b)
           word == <<2 * (n + 1) + 1>>
           v == StoredForm(c)
<1>1. /\ e \in Nat /\ Storable(c) /\ c \in Column
      /\ End[col] = e + Len(v)
      /\ \A i \in 1..Len(v) : ByteAt(e + i - 1) = v[i]
  BY ColumnBytes DEF Here, TextStart
<1>2. b \in Seq(Byte) /\ n \in Nat
  BY <1>1 DEF Column
<1>3. n <= 126
  BY <1>1, KindsDiffer DEF Storable
<1>4. v = word \o b
  BY DEF StoredForm
<1> HIDE DEF c, e, b, v
<1>5. word \in Seq(Byte) /\ Len(word) = 1 /\ word[1] = 2 * (n + 1) + 1
  <2>1. \A m \in Nat : m <= 126 => 2 * (m + 1) + 1 \in Byte
    BY DEF Byte
  <2> HIDE DEF n
  <2>2. 2 * (n + 1) + 1 \in Byte
    BY <1>2, <1>3, <2>1
  <2> QED
    BY <2>2
<1> HIDE DEF word
<1>6. /\ Len(v) = Len(word) + Len(b)
      /\ \A i \in 1..(Len(word) + Len(b)) :
           v[i] = IF i <= Len(word) THEN word[i] ELSE b[i - Len(word)]
  <2>1. word \in Seq(Byte) /\ b \in Seq(Byte)
    BY <1>2, <1>5
  <2> QED
    BY <1>4, <2>1, ConcatLen
<1>7. \A i \in 1..(1 + n) : ByteAt(e + i - 1) = IF i <= 1 THEN word[i] ELSE b[i - 1]
  BY <1>1, <1>5, <1>6
<1>8. End[col] = e + (1 + n)
  BY <1>1, <1>5, <1>6
<1> HIDE DEF n
<1>9. ByteAt(e) = 2 * (n + 1) + 1
  <2>1. 1 \in 1..(1 + n) /\ e + 1 - 1 = e
    BY <1>1, <1>2
  <2> QED
    BY <1>5, <1>7, <2>1
<1>10. ByteAt(e) \div 2 = n + 1 /\ ByteAt(e) % 2 = 1 /\ ByteAt(e) \notin {0, 1}
  BY <1>2, <1>9
<1>11. \A i \in 1..n : ByteAt((e + 1) + i - 1) = b[i]
  <2> SUFFICES ASSUME NEW i \in 1..n PROVE ByteAt((e + 1) + i - 1) = b[i]
    OBVIOUS
  <2>1. /\ i + 1 \in 1..(1 + n) /\ ~(i + 1 <= 1) /\ (i + 1) - 1 = i
        /\ e + (i + 1) - 1 = (e + 1) + i - 1
    BY <1>1, <1>2
  <2>2. ByteAt(e + (i + 1) - 1) = b[(i + 1) - 1]
    BY <1>7, <2>1
  <2> QED
    BY <2>1, <2>2
<1>12. BytesAt(e + 1, Len(b)) = b
  <2>1. e + 1 \in Nat /\ \A i \in 1..Len(b) : ByteAt((e + 1) + i - 1) = b[i]
    BY <1>1, <1>11 DEF n
  <2> QED
    BY <1>2, <2>1, BytesAtIs
<1>13. ByteAt(e) \div 2 - 1 = n /\ e + ByteAt(e) \div 2 = End[col]
  <2> DEFINE h == ByteAt(e) \div 2
  <2>1. h = n + 1
    BY <1>10
  <2> HIDE DEF h
  <2>2. h - 1 = n /\ e + h = e + (1 + n)
    BY <1>1, <1>2, <2>1
  <2> QED
    BY <1>8, <2>2 DEF h
<1>14. BytesAt(e + 1, ByteAt(e) \div 2 - 1) = b
  BY <1>12, <1>13 DEF n
<1> QED
  BY <1>1, <1>10, <1>13, <1>14 DEF e, b, c

LongAt(p) ==
  ByteAt(p) \div 4 + 64 * ByteAt(p + 1) + 16384 * ByteAt(p + 2)
    + 256 * 16384 * ByteAt(p + 3)

LEMMA LongRead ==
  ASSUME input \in Input, k \in 1..Len(input.tuples), IsFilled(Current),
         col \in 1..Len(Columns), ~Here.null, Here.kind = "string", Here.long
  PROVE  /\ TextStart \in Nat
         /\ ByteAt(TextStart) % 4 = 0 /\ ByteAt(TextStart) \in Nat
         /\ (Len(Here.bytes) + 4) % 64 # 0 => ByteAt(TextStart) # 0
         /\ LongAt(TextStart) \in Nat /\ LongAt(TextStart) >= 4
         /\ TextStart + LongAt(TextStart) = End[col]
         /\ BytesAt(TextStart + 4, LongAt(TextStart) - 4) = Here.bytes
<1> DEFINE c == Here
           e == TextStart
           b == c.bytes
           n == Len(b)
           word == LengthWord(n + 4)
           v == StoredForm(c)
<1>1. /\ e \in Nat /\ Storable(c) /\ c \in Column
      /\ End[col] = e + Len(v)
      /\ \A i \in 1..Len(v) : ByteAt(e + i - 1) = v[i]
  BY ColumnBytes DEF Here, TextStart
<1>2. b \in Seq(Byte) /\ n \in Nat
  BY <1>1 DEF Column
<1>3. n + 4 < 64 * 256 * 256 * 256
  <2>1. c.kind \notin FixedKinds
    BY KindsDiffer
  <2> QED
    BY <1>1, <2>1, Zenon DEF Storable
<1>4. v = word \o b
  BY DEF StoredForm
<1> HIDE DEF c, e, b, v, n
<1>5. n + 4 \in Nat
  BY <1>2
<1>6. word \in Seq(Byte) /\ Len(word) = 4
  BY <1>5, LengthWordType
<1>7. /\ word[1] \div 4 + 64 * word[2] + 16384 * word[3] + 256 * 16384 * word[4] = n + 4
      /\ word[1] % 4 = 0 /\ word[1] \in Nat
      /\ (n + 4) % 64 # 0 => word[1] # 0
  <2> DEFINE m == n + 4
  <2>1. m \in Nat /\ m < 64 * 256 * 256 * 256 /\ word = LengthWord(m)
    BY <1>3, <1>5
  <2> HIDE DEF m, word
  <2>2. /\ word[1] \div 4 + 64 * word[2] + 16384 * word[3] + 256 * 16384 * word[4] = m
        /\ word[1] % 4 = 0 /\ word[1] \in Nat
        /\ m % 64 # 0 => word[1] # 0
    BY <2>1, Digits
  <2> QED
    BY <2>2 DEF m
<1> HIDE DEF word
<1>8. /\ Len(v) = Len(word) + Len(b)
      /\ \A i \in 1..(Len(word) + Len(b)) :
           v[i] = IF i <= Len(word) THEN word[i] ELSE b[i - Len(word)]
  <2>1. word \in Seq(Byte) /\ b \in Seq(Byte)
    BY <1>2, <1>6
  <2> QED
    BY <1>4, <2>1, ConcatLen
<1>9. Len(v) = 4 + n /\ Len(word) = 4 /\ Len(b) = n
  BY <1>6, <1>8 DEF n
<1>10. \A i \in 1..(4 + n) : ByteAt(e + i - 1) = IF i <= 4 THEN word[i] ELSE b[i - 4]
  BY <1>1, <1>8, <1>9
<1>11. End[col] = e + (4 + n)
  BY <1>1, <1>9
<1>12. /\ ByteAt(e) = word[1] /\ ByteAt(e + 1) = word[2]
       /\ ByteAt(e + 2) = word[3] /\ ByteAt(e + 3) = word[4]
  <2>1. /\ e + 1 - 1 = e /\ e + 2 - 1 = e + 1 /\ e + 3 - 1 = e + 2
        /\ e + 4 - 1 = e + 3
    BY <1>1
  <2>2. {1, 2, 3, 4} \subseteq 1..(4 + n)
    BY <1>2
  <2>3. \A i \in {1, 2, 3, 4} : ByteAt(e + i - 1) = word[i]
    BY <1>10, <2>2
  <2> QED
    BY <2>1, <2>3
<1> DEFINE long == LongAt(e)
<1>13. long = n + 4
  BY <1>7, <1>12 DEF LongAt
<1>14. \A i \in 1..n : ByteAt((e + 4) + i - 1) = b[i]
  <2> SUFFICES ASSUME NEW i \in 1..n PROVE ByteAt((e + 4) + i - 1) = b[i]
    OBVIOUS
  <2>1. /\ i + 4 \in 1..(4 + n) /\ ~(i + 4 <= 4) /\ (i + 4) - 4 = i
        /\ e + (i + 4) - 1 = (e + 4) + i - 1
    BY <1>1, <1>2
  <2>2. ByteAt(e + (i + 4) - 1) = b[(i + 4) - 4]
    BY <1>10, <2>1
  <2> QED
    BY <2>1, <2>2
<1>15. BytesAt(e + 4, Len(b)) = b
  <2>1. e + 4 \in Nat /\ \A i \in 1..Len(b) : ByteAt((e + 4) + i - 1) = b[i]
    BY <1>1, <1>14 DEF n
  <2> QED
    BY <1>2, <2>1, BytesAtIs
<1> HIDE DEF long
<1>16. /\ long \in Nat /\ long >= 4 /\ e + long = End[col] /\ long - 4 = n
  BY <1>1, <1>2, <1>11, <1>13
<1>17. BytesAt(e + 4, long - 4) = b
  BY <1>15, <1>16 DEF n
<1>18. /\ ByteAt(e) % 4 = 0 /\ ByteAt(e) \in Nat
       /\ (Len(b) + 4) % 64 # 0 => ByteAt(e) # 0
  BY <1>7, <1>12 DEF n
<1> QED
  BY <1>1, <1>16, <1>17, <1>18 DEF e, b, c, long

-----------------------------------------------------------------------------
(* The invariant: between two columns the program is where the first ones  *)
(* end and the line holds their fields; inside one it is in the padding    *)
(* before a text, or holds the rest of the field it has read.              *)

Known == IsFilled(Current) /\ Describes(Current) /\ Ordinary(Current)
Row == [n \in 0..ShownCount |-> LineUpTo(Current, n)]

TypesRead ==
  /\ named <= Len(input.types)
  /\ pc \in Working \cup {"tuple", "finished"} => named = Len(input.types)
Asked == [n \in 0..Len(input.types) |-> GivenUpTo(n)]
DecodersGiven == AllNamesKnown => callbacks = Asked[named]
Counted ==
  /\ Len(reports) = k - 1 /\ k <= Len(input.tuples) + 1
  /\ pc \in {"types", "refused"} => k = 1
  /\ pc = "finished" => k = Len(input.tuples) + 1

BeforeColumn ==
  IF col <= ShownCount + 1 THEN pos = End[col - 1] /\ line = Row[col - 1]
  ELSE pos = Total /\ line = Row[ShownCount]
InPadding ==
  /\ ~Here.null /\ Here.kind = "string"
  /\ End[col - 1] <= pos /\ pos <= TextStart
Encoding ==
  \E b \in Seq(Byte) : \E n \in 0..Len(b) :
    /\ \A i \in 1..Len(b) : b[i] # Tab
    /\ Field(Here) = CopyForm(b)
    /\ tmpBuff = CopyFormUpTo(b, n)
    /\ source = SubSeq(b, n + 1, Len(b))
AtTab == pos = End[col] /\ text = Field(Here) /\ line = Row[col - 1]
AfterTab ==
  pos = End[col] /\ text = Field(Here) /\ line = Row[col - 1] \o Between(col)

LaidOut ==
  /\ pc = "column" => BeforeColumn
  /\ pc # "column" => col <= ShownCount
  /\ pc = "string" => InPadding /\ line = Row[col - 1]
  /\ pc = "encode" => Encoding /\ pos = End[col] /\ line = Row[col - 1]
  /\ pc = "tab" => AtTab
  /\ pc = "append" => AfterTab
  /\ pc = "enlarge" => IF resume = "tab" THEN AtTab /\ line # <<>> ELSE AfterTab

RInv ==
  TypesRead /\ DecodersGiven /\ Counted /\ (pc \in Working /\ Known => LaidOut)

LEMMA KnownFacts ==
  ASSUME IInv, RInv, pc \in Working, Known
  PROVE  /\ input \in Input /\ k \in 1..Len(input.tuples) /\ IsFilled(Current)
         /\ AllNamesKnown /\ callbacks = Given /\ Len(Given) \in Nat \ {0}
         /\ ShownCount \in 0..Len(Columns) /\ ShownCount \in 0..Len(Given)
         /\ ShownCount = Len(Given)
              \/ (ShownCount = Len(Given) - 1 /\ Given[Len(Given)] = "ignore")
         /\ \A n \in 1..ShownCount : Given[n] = Columns[n].kind
         /\ ShownCount = Len(Given) => Len(Columns) = ShownCount
         /\ Total \in Nat /\ pos \in Nat /\ size \in Nat /\ pos + size = Total
         /\ col \in Nat \ {0} /\ LaidOut
<1>1. input \in Input /\ pos \in Nat /\ size \in Nat /\ k \in Nat \ {0}
      /\ col \in Nat \ {0} /\ k <= Len(input.tuples) /\ Len(input.tuples) \in Nat
  BY LimitsAssumption DEF IInv, TypeOK, TupleAtHand, Input
<1>2. k \in 1..Len(input.tuples)
  BY <1>1
<1>3. IsFilled(Current) /\ Describes(Current)
  BY DEF Known
<1>4. AllNamesKnown /\ Given # <<>>
  BY <1>3 DEF Describes
<1>5. callbacks = Given
  <2>1. named = Len(input.types)
    BY DEF RInv, TypesRead
  <2>2. Len(input.types) \in 0..Len(input.types)
    BY <1>1 DEF Input
  <2> QED
    BY <1>4, <2>1, <2>2 DEF RInv, DecodersGiven, Given, Asked
<1>6. /\ Given \in Seq(Kinds) /\ Len(Given) \in Nat
      /\ ShownCount \in 0..Len(Given)
  BY <1>1, <1>4, ShownType
<1>7. Len(Given) \in Nat \ {0}
  BY <1>4, <1>6
<1>8. ShownCount = IF Given[Len(Given)] = "ignore" THEN Len(Given) - 1 ELSE Len(Given)
  BY <1>4 DEF ShownCount
<1>9. Total \in Nat /\ pos + size = Total
  BY <1>1, <1>2, <1>3, ColumnsType DEF IInv, InsideTuple, Total
<1>10. /\ ShownCount <= Len(Columns)
       /\ \A n \in 1..ShownCount : Given[n] = Columns[n].kind
       /\ Given[Len(Given)] # "ignore" => Len(Columns) = ShownCount
  BY <1>3 DEF Describes, Columns
<1>11. Len(Columns) \in Nat
  BY <1>1, <1>2, <1>3, ColumnsType
<1>12. LaidOut
  BY DEF RInv
<1> DEFINE g == Len(Given)
           s == ShownCount
           last == Given[g]
<1>13. /\ g \in Nat \ {0} /\ s \in Int /\ s = IF last = "ignore" THEN g - 1 ELSE g
       /\ last # "ignore" => Len(Columns) = s
  BY <1>6, <1>7, <1>8, <1>10
<1> HIDE DEF g, s, last
<1>14. s = g \/ (s = g - 1 /\ last = "ignore")
  BY <1>13
<1>15. s = g => Len(Columns) = s
  BY <1>13
<1>16. /\ ShownCount = Len(Given)
            \/ (ShownCount = Len(Given) - 1 /\ Given[Len(Given)] = "ignore")
       /\ ShownCount = Len(Given) => Len(Columns) = ShownCount
  BY <1>14, <1>15 DEF g, s, last
<1> QED
  BY <1>1, <1>2, <1>3, <1>4, <1>5, <1>6, <1>7, <1>9, <1>10, <1>11, <1>12, <1>16

LEMMA RowSteps ==
  ASSUME input \in Input, k \in 1..Len(input.tuples), IsFilled(Current),
         AllNamesKnown, ShownCount <= Len(Columns)
  PROVE  /\ Row[0] = <<>>
         /\ \A n \in 1..ShownCount :
              Row[n] = Row[n - 1] \o Between(n) \o Field(Columns[n])
         /\ \A n \in 0..ShownCount : Row[n] \in Seq(Symbol)
         /\ \A n \in 1..ShownCount :
              Between(n) \in Seq(Symbol) /\ Field(Columns[n]) \in Seq(Symbol)
<1> DEFINE L(n) == LineUpTo(Current, n)
           N == ShownCount
<1>1. /\ Current.columns \in Seq(Column)
      /\ \A n \in 1..Len(Current.columns) :
           Current.columns[n].null \/ Storable(Current.columns[n])
      /\ Len(Columns) \in Nat
  BY ColumnsType DEF Filling, Columns
<1>2. /\ L(0) = <<>>
      /\ \A n \in 1..N : L(n) = L(n - 1) \o Between(n) \o Field(Columns[n])
      /\ \A n \in 0..N : L(n) \in Seq(Symbol)
  BY <1>1, LineSteps DEF Columns
<1>3. \A n \in 0..N : Row[n] = L(n)
  BY DEF Row
<1>4. N \in Nat
  BY ShownType
<1>5. \A n \in 1..N : Field(Columns[n]) \in Seq(Symbol)
  <2> SUFFICES ASSUME NEW n \in 1..N PROVE Field(Columns[n]) \in Seq(Symbol)
    OBVIOUS
  <2>1. n \in 1..Len(Columns)
    BY <1>1, <1>4
  <2>2. Columns[n] \in Column /\ (Columns[n].null \/ Storable(Columns[n]))
    BY <1>1, <2>1 DEF Columns
  <2> QED
    BY <2>2, FieldType
<1>6. \A n : Between(n) \in Seq(Symbol)
  BY MarkType DEF Between
<1> HIDE DEF L, N
<1>7. /\ Row[0] = <<>>
      /\ \A n \in 1..N : Row[n] = Row[n - 1] \o Between(n) \o Field(Columns[n])
      /\ \A n \in 0..N : Row[n] \in Seq(Symbol)
  <2>1. \A n \in 1..N : n - 1 \in 0..N /\ n \in 0..N
    BY <1>4
  <2>2. 0 \in 0..N
    BY <1>4
  <2>3. Row[0] = <<>>
    BY <1>2, <1>3, <2>2
  <2>4. \A n \in 0..N : Row[n] \in Seq(Symbol)
    BY <1>2, <1>3
  <2>5. \A n \in 1..N : Row[n] = Row[n - 1] \o Between(n) \o Field(Columns[n])
    BY <1>2, <1>3, <2>1
  <2> QED
    BY <2>3, <2>4, <2>5
<1> QED
  BY <1>5, <1>6, <1>7 DEF N

(* Nothing that is known of the tuple changes while it is decoded.         *)
LEMMA SameTypes ==
  ASSUME input' = input
  PROVE  /\ Given' = Given /\ ShownCount' = ShownCount /\ Asked' = Asked
         /\ AllNamesKnown' <=> AllNamesKnown
<1>1. Given' = Given
  BY DEF Given, GivenUpTo
<1>2. ShownCount' = ShownCount
  BY <1>1 DEF ShownCount
<1>3. AllNamesKnown' <=> AllNamesKnown
  BY DEF AllNamesKnown
<1>4. Asked' = Asked
  BY DEF Asked, GivenUpTo
<1> QED
  BY <1>1, <1>2, <1>3, <1>4

LEMMA SameTuple ==
  ASSUME input' = input, k' = k
  PROVE  /\ Current' = Current /\ Columns' = Columns /\ End' = End
         /\ Total' = Total /\ Row' = Row
         /\ Known' <=> Known
         /\ \A n : GapOf(n)' = GapOf(n)
<1>1. Current' = Current
  BY DEF Current
<1>2. Columns' = Columns
  BY <1>1 DEF Columns
<1>3. End' = End
  BY <1>2 DEF End
<1>4. Total' = Total
  BY <1>1 DEF Total
<1>5. ShownCount' = ShownCount /\ Given' = Given /\ (AllNamesKnown' <=> AllNamesKnown)
  BY SameTypes
<1>6. Row' = Row
  BY <1>1, <1>5 DEF Row, LineUpTo
<1>7. \A n : GapOf(n)' = GapOf(n)
  BY <1>2, <1>3 DEF GapOf
<1>8. IsFilled(Current)' <=> IsFilled(Current)
  BY <1>1 DEF IsFilled
<1>9. Describes(Current)' <=> Describes(Current)
  BY <1>1, <1>5 DEF Describes
<1>10. Ordinary(Current)' <=> Ordinary(Current)
  BY <1>1, <1>5 DEF Ordinary, NoTabs, FirstShown, NamesAligned, LowByteKept,
     ValueToIgnore
<1>11. Known' <=> Known
  BY <1>8, <1>9, <1>10 DEF Known
<1> QED
  BY <1>1, <1>2, <1>3, <1>4, <1>6, <1>7, <1>11

-----------------------------------------------------------------------------
(* Each step keeps to the layout.                                          *)

(* A column about to be decoded is one the tuple has, and the decoder is   *)
(* its own or the one that ignores the rest.                               *)
LEMMA ColumnHere ==
  ASSUME IInv, RInv, Known, AtColumn
  PROVE  /\ pc \in Working
         /\ col \in 1..Len(Columns) /\ col <= ShownCount + 1
         /\ Here \in Column /\ (Here.null \/ Storable(Here))
         /\ col \in Current.nulls <=> Here.null
         /\ pos = End[col - 1] /\ line = Row[col - 1]
         /\ col <= ShownCount => callbacks[col] = Here.kind
         /\ col = ShownCount + 1 => callbacks[col] = "ignore" /\ ~Here.null
         /\ Here.null => End[col] = pos
         /\ ~Here.null => size > 0
<1>1. pc = "column" /\ pc \in Working /\ col <= Len(callbacks)
  BY DEF AtColumn, Working
<1>2. /\ input \in Input /\ k \in 1..Len(input.tuples) /\ IsFilled(Current)
      /\ AllNamesKnown /\ callbacks = Given /\ Len(Given) \in Nat \ {0}
      /\ ShownCount \in 0..Len(Columns) /\ ShownCount \in 0..Len(Given)
      /\ ShownCount = Len(Given)
           \/ (ShownCount = Len(Given) - 1 /\ Given[Len(Given)] = "ignore")
      /\ \A n \in 1..ShownCount : Given[n] = Columns[n].kind
      /\ pos \in Nat /\ size \in Nat /\ pos + size = Total
      /\ col \in Nat \ {0} /\ LaidOut
  BY <1>1, KnownFacts
<1>3. /\ Columns \in Seq(Column) /\ Len(Columns) \in Nat
      /\ \A n \in 1..Len(Columns) : Columns[n].null \/ Storable(Columns[n])
      /\ \A n \in 1..Len(Columns) : n \in Current.nulls <=> Columns[n].null
  BY <1>2, ColumnsType DEF Filling
<1>4. ShownCount < Len(Given) =>
        ShownCount < Len(Columns) /\ ~Columns[ShownCount + 1].null
  BY DEF Known, Ordinary, ValueToIgnore, Columns
<1>5. col <= ShownCount \/ (col = ShownCount + 1 /\ col = Len(Given)
                             /\ Given[col] = "ignore")
  BY <1>1, <1>2
<1>6. col \in 1..Len(Columns) /\ col <= ShownCount + 1
  BY <1>2, <1>3, <1>4, <1>5
<1>7. col = ShownCount + 1 => callbacks[col] = "ignore" /\ ~Here.null
  BY <1>2, <1>4, <1>5 DEF Here
<1>8. col <= ShownCount => callbacks[col] = Here.kind
  BY <1>2 DEF Here
<1>9. Here \in Column /\ (Here.null \/ Storable(Here)) /\ (col \in Current.nulls <=> Here.null)
  BY <1>3, <1>6 DEF Here
<1>10. pos = End[col - 1] /\ line = Row[col - 1]
  BY <1>1, <1>2, <1>6 DEF LaidOut, BeforeColumn
<1>11. ASSUME Here.null PROVE End[col] = pos
  <2>1. col - 1 \in 0..Len(Columns) /\ col \in 0..Len(Columns)
    BY <1>3, <1>6
  <2>2. FilledUpTo(Columns, col) = FilledUpTo(Columns, col - 1)
    BY <1>3, <1>6, <1>11, FilledSteps DEF Here
  <2> QED
    BY <1>10, <2>1, <2>2 DEF End
<1>12. ASSUME ~Here.null PROVE size > 0
  <2> DEFINE m == Len(StoredForm(Here))
             e == End[col - 1]
             p == GapOf(col)
  <2>1. e \in Nat /\ p \in Nat /\ Storable(Here) /\ End[col] = (e + p) + m
    BY <1>2, <1>6, <1>12, ColumnBytes DEF Here
  <2>2. m \in Nat \ {0}
    BY <1>9, <2>1, StoredType
  <2>3. End[col] <= Total /\ Total = e + size /\ Total \in Nat
    <3>1. col \in 0..Len(Columns)
      BY <1>3, <1>6
    <3> QED
      BY <1>2, <1>10, <3>1, EndsGrow
  <2> HIDE DEF m, e, p
  <2> QED
    BY <1>2, <2>1, <2>2, <2>3
<1> QED
  BY <1>1, <1>6, <1>7, <1>8, <1>9, <1>10, <1>11, <1>12

(* A field is ready to be appended.                                        *)
LEMMA ReadyToAppend ==
  ASSUME pc' = "tab", pos' = End[col], text' = Field(Here), line' = Row[col - 1],
         col' = col, col <= ShownCount, input' = input, k' = k
  PROVE  LaidOut'
<1>1. Columns' = Columns /\ End' = End /\ Row' = Row /\ ShownCount' = ShownCount
  BY SameTuple, SameTypes
<1>2. Field(Here)' = Field(Here)
  BY <1>1 DEF Field, Here
<1>3. AtTab'
  BY <1>1, <1>2 DEF AtTab
<1> QED
  BY <1>1, <1>3 DEF LaidOut

(* Its bytes are ready to be encoded.                                      *)
LEMMA ReadyToEncode ==
  ASSUME NEW b \in Seq(Byte), \A i \in 1..Len(b) : b[i] # Tab,
         Field(Here) = CopyForm(b),
         pc' = "encode", pos' = End[col], source' = b, tmpBuff' = <<>>,
         line' = Row[col - 1],
         col' = col, col <= ShownCount, input' = input, k' = k
  PROVE  LaidOut'
<1>1. Columns' = Columns /\ End' = End /\ Row' = Row /\ ShownCount' = ShownCount
  BY SameTuple, SameTypes
<1>2. Field(Here)' = Field(Here)
  BY <1>1 DEF Field, Here
<1>3. CopyFormUpTo(b, 0) = <<>> /\ SubSeq(b, 0 + 1, Len(b)) = b /\ 0 \in 0..Len(b)
  BY CopySteps
<1>4. Encoding'
  <2>1. /\ Field(Here)' = CopyForm(b) /\ tmpBuff' = CopyFormUpTo(b, 0)
        /\ source' = SubSeq(b, 0 + 1, Len(b))
    BY <1>2, <1>3
  <2> QED
    BY <1>3, <2>1 DEF Encoding
<1> QED
  BY <1>1, <1>4 DEF LaidOut

(* No column shown has a tab.                                              *)
LEMMA NoTabHere ==
  ASSUME IInv, Known, input \in Input, k \in 1..Len(input.tuples),
         col \in 1..ShownCount, ShownCount \in 0..Len(Columns)
  PROVE  /\ Here.bytes \in Seq(Byte) /\ UpToNul(Here.bytes) \in Seq(Byte)
         /\ \A i \in 1..Len(Here.bytes) : Here.bytes[i] # Tab
         /\ \A i \in 1..Len(UpToNul(Here.bytes)) : UpToNul(Here.bytes)[i] # Tab
<1>1. Columns \in Seq(Column) /\ col \in 1..Len(Columns)
  BY ColumnsType DEF Known
<1>2. Here \in Column
  BY <1>1 DEF Here
<1>3. Here.bytes \in Seq(Byte)
  BY <1>2 DEF Column
<1>4. \A i \in 1..Len(Here.bytes) : Here.bytes[i] # Tab
  BY DEF Known, Ordinary, NoTabs, Here, Columns
<1> DEFINE s == Here.bytes
<1>5. s \in Seq(Byte)
  BY <1>3
<1>6. \A i \in 1..Len(s) : s[i] # Tab
  BY <1>4
<1> HIDE DEF s
<1>7. /\ UpToNul(s) \in Seq(Byte) /\ Len(UpToNul(s)) <= Len(s)
      /\ \A i \in 1..Len(UpToNul(s)) : UpToNul(s)[i] = s[i]
  BY <1>5, UpToNulType
<1>8. \A i \in 1..Len(UpToNul(s)) : UpToNul(s)[i] # Tab
  <2>1. Len(s) \in Nat /\ Len(UpToNul(s)) \in Nat
    BY <1>5, <1>7
  <2>2. \A i \in 1..Len(UpToNul(s)) : i \in 1..Len(s)
    BY <1>7, <2>1
  <2> QED
    BY <1>6, <1>7, <2>2
<1> QED
  BY <1>3, <1>4, <1>7, <1>8 DEF s

LEMMA ColumnLaid ==
  ASSUME IInv, RInv, Known, DecodeColumn
  PROVE  /\ LaidOut' /\ pc' \in Working
         /\ UNCHANGED <<input, named, callbacks, k, reports>>
<1>0. AtColumn
  BY DEF DecodeColumn, NullColumn, OutOfBytes, DecodeFixed, DecodeChars,
     DecodeShort, DecodeIgnore, DecodeString, Decoding
<1>1. /\ pc \in Working
      /\ col \in 1..Len(Columns) /\ col <= ShownCount + 1
      /\ Here \in Column /\ (Here.null \/ Storable(Here))
      /\ col \in Current.nulls <=> Here.null
      /\ pos = End[col - 1] /\ line = Row[col - 1]
      /\ col <= ShownCount => callbacks[col] = Here.kind
      /\ col = ShownCount + 1 => callbacks[col] = "ignore" /\ ~Here.null
      /\ Here.null => End[col] = pos
      /\ ~Here.null => size > 0
  BY <1>0, ColumnHere
<1>2. /\ input \in Input /\ k \in 1..Len(input.tuples) /\ IsFilled(Current)
      /\ ShownCount \in 0..Len(Columns) /\ Len(Columns) \in Nat
      /\ pos \in Nat /\ size \in Nat /\ pos + size = Total /\ col \in Nat \ {0}
  BY <1>1, KnownFacts, ColumnsType
<1>3. End[col] \in Nat /\ End[col] <= Total
  <2>1. col \in 0..Len(Columns)
    BY <1>1, <1>2
  <2> QED
    BY <1>2, <2>1, EndsGrow
<1>4. ASSUME Here.kind \in FixedKinds, ~Here.null, col <= ShownCount
      PROVE  /\ ValueStart \in Nat /\ ValueEnd = End[col] /\ ValueFits
             /\ BytesAt(ValueStart, ValueEnd - ValueStart) = Here.bytes
  <2>1. Here.kind = "name" => End[col - 1] % 4 = 0
    <3>1. col \in 1..ShownCount /\ col - 1 \in 0..Len(Columns)
      BY <1>1, <1>2, <1>4
    <3>2. Here.kind = "name" => Len(FilledUpTo(Columns, col - 1)) % 4 = 0
      BY <3>1 DEF Known, Ordinary, NamesAligned, Here, Columns
    <3> QED
      BY <3>1, <3>2 DEF End
  <2>2. callbacks[col] = Here.kind
    BY <1>1, <1>4
  <2>3. /\ ValueStart \in Nat /\ ValueEnd = End[col]
        /\ BytesAt(ValueStart, ValueEnd - ValueStart) = Here.bytes
    BY <1>1, <1>2, <1>4, <2>1, <2>2, FixedRead
  <2> QED
    BY <1>2, <1>3, <2>3 DEF ValueFits
<1>5. CASE NullColumn
  <2>1. Here.null /\ col <= ShownCount
    BY <1>1, <1>2, <1>5 DEF NullColumn
  <2>2. Field(Here) = NullMark
    BY <2>1 DEF Field
  <2>3. /\ pc' = "tab" /\ pos' = pos /\ text' = NullMark /\ line' = line
        /\ UNCHANGED <<input, named, callbacks, k, col, reports>>
    BY <1>5 DEF NullColumn, AppendText, buffers
  <2>4. LaidOut'
    BY <1>1, <2>1, <2>2, <2>3, ReadyToAppend
  <2> QED
    BY <2>3, <2>4 DEF Working
<1>6. CASE OutOfBytes
  BY <1>1, <1>6 DEF OutOfBytes
<1>7. CASE DecodeFixed
  <2>1. /\ callbacks[col] \in FixedKinds \ {"char", "name"} /\ ~Here.null
    BY <1>1, <1>7 DEF DecodeFixed, Decoding
  <2>2. col <= ShownCount /\ Here.kind = callbacks[col]
    BY <1>1, <1>2, <2>1, KindsDiffer
  <2>3. Field(Here) = Printed(Here.kind, Here.bytes)
    BY <2>1, <2>2, KindsDiffer DEF Field
  <2>4. /\ ValueStart \in Nat /\ ValueEnd = End[col]
        /\ BytesAt(ValueStart, ValueEnd - ValueStart) = Here.bytes
    BY <1>4, <2>1, <2>2
  <2>5. /\ pc' = "tab" /\ pos' = ValueEnd
        /\ text' = Printed(callbacks[col], BytesAt(ValueStart, ValueEnd - ValueStart))
        /\ line' = line
        /\ UNCHANGED <<input, named, callbacks, k, col, reports>>
    BY <1>7 DEF DecodeFixed, AppendText, Advance, buffers
  <2>6. text' = Field(Here) /\ pos' = End[col] /\ line' = Row[col - 1]
    BY <1>1, <2>2, <2>3, <2>4, <2>5
  <2>7. LaidOut'
    BY <2>2, <2>5, <2>6, ReadyToAppend
  <2> QED
    BY <2>5, <2>7 DEF Working
<1>8. CASE DecodeChars
  <2>1. /\ callbacks[col] \in {"char", "name"} /\ ~Here.null
    BY <1>1, <1>8 DEF DecodeChars, Decoding
  <2>2. col <= ShownCount /\ Here.kind = callbacks[col] /\ Here.kind \in FixedKinds
    BY <1>1, <1>2, <2>1, KindsDiffer
  <2> DEFINE b == IF Here.kind = "name" THEN UpToNul(Here.bytes) ELSE Here.bytes
  <2>3. /\ Here.bytes \in Seq(Byte) /\ UpToNul(Here.bytes) \in Seq(Byte)
        /\ \A i \in 1..Len(Here.bytes) : Here.bytes[i] # Tab
        /\ \A i \in 1..Len(UpToNul(Here.bytes)) : UpToNul(Here.bytes)[i] # Tab
    <3>1. col \in 1..ShownCount
      BY <1>2, <2>2
    <3> QED
      BY <1>2, <3>1, NoTabHere
  <2>4. b \in Seq(Byte) /\ \A i \in 1..Len(b) : b[i] # Tab
    BY <2>3
  <2>5. Field(Here) = CopyForm(b)
    BY <2>1, <2>2 DEF Field
  <2>6. /\ ValueStart \in Nat /\ ValueEnd = End[col]
        /\ BytesAt(ValueStart, ValueEnd - ValueStart) = Here.bytes
    BY <1>4, <2>1, <2>2
  <2>7. /\ pc' = "encode" /\ pos' = ValueEnd /\ tmpBuff' = <<>> /\ line' = line
        /\ source' = IF callbacks[col] = "name"
                       THEN UpToNul(BytesAt(ValueStart, ValueEnd - ValueStart))
                       ELSE BytesAt(ValueStart, ValueEnd - ValueStart)
        /\ UNCHANGED <<input, named, callbacks, k, col, reports>>
    BY <1>8 DEF DecodeChars, EncodeText, Advance, buffers
  <2>8. source' = b /\ pos' = End[col] /\ line' = Row[col - 1]
    BY <1>1, <2>2, <2>6, <2>7
  <2> HIDE DEF b
  <2>9. LaidOut'
    BY <2>2, <2>4, <2>5, <2>7, <2>8, ReadyToEncode
  <2> QED
    BY <2>7, <2>9 DEF Working
<1>9. CASE DecodeShort
  <2>1. callbacks[col] \in FixedKinds /\ ~Here.null /\ ~ValueFits
    BY <1>1, <1>9 DEF DecodeShort, Decoding
  <2>2. col <= ShownCount /\ Here.kind = callbacks[col]
    BY <1>1, <1>2, <2>1, KindsDiffer
  <2> QED
    BY <1>4, <2>1, <2>2
<1>10. CASE DecodeIgnore
  <2>1. callbacks[col] = "ignore" /\ ~Here.null
    BY <1>1, <1>10 DEF DecodeIgnore, Decoding
  <2>2. Here.kind # "ignore"
    BY <1>1, <2>1, AlignType, KindsDiffer
  <2>3. col = ShownCount + 1
    BY <1>1, <1>2, <2>1, <2>2
  <2>4. /\ pc' = pc /\ pos' = pos + size /\ line' = line /\ col' = col + 1
        /\ UNCHANGED <<input, named, callbacks, k, reports>>
    BY <1>10 DEF DecodeIgnore, Advance, buffers
  <2>5. /\ Total' = Total /\ Row' = Row /\ ShownCount' = ShownCount
    BY <2>4, SameTuple, SameTypes
  <2>6. pc = "column"
    BY <1>0 DEF AtColumn
  <2>7. ~(col' <= ShownCount' + 1) /\ pos' = Total' /\ line' = Row'[ShownCount']
    <3>1. ~(col + 1 <= ShownCount + 1) /\ col - 1 = ShownCount
      BY <1>2, <2>3
    <3> QED
      BY <1>1, <1>2, <2>4, <2>5, <3>1
  <2>8. BeforeColumn'
    BY <2>7 DEF BeforeColumn
  <2> QED
    BY <2>4, <2>6, <2>8 DEF LaidOut, Working
<1>11. CASE DecodeString
  <2>1. callbacks[col] = "string" /\ ~Here.null
    BY <1>1, <1>11 DEF DecodeString, Decoding
  <2>2. col <= ShownCount /\ Here.kind = "string"
    BY <1>1, <1>2, <2>1, KindsDiffer
  <2>3. /\ pc' = "string" /\ pos' = pos /\ line' = line /\ col' = col
        /\ UNCHANGED <<input, named, callbacks, k, reports>>
    BY <1>11 DEF DecodeString, buffers
  <2>4. /\ Columns' = Columns /\ End' = End /\ Row' = Row /\ ShownCount' = ShownCount
        /\ GapOf(col)' = GapOf(col)
    BY <2>3, SameTuple, SameTypes
  <2>5. GapOf(col) \in Nat
    BY <1>1, <1>2, <2>1, ColumnBytes DEF Here
  <2>6. Here' = Here
    BY <2>3, <2>4 DEF Here
  <2>7. TextStart' = TextStart
    BY <2>3, <2>4 DEF TextStart, GapOf
  <2>8. End[col - 1] <= pos /\ pos <= TextStart
    BY <1>1, <1>2, <2>5 DEF TextStart
  <2>9. InPadding'
    BY <2>1, <2>2, <2>3, <2>4, <2>6, <2>7, <2>8 DEF InPadding
  <2>10. LaidOut'
    BY <1>1, <2>2, <2>3, <2>4, <2>9 DEF LaidOut
  <2> QED
    BY <2>3, <2>10 DEF Working
<1> QED
  BY <1>5, <1>6, <1>7, <1>8, <1>9, <1>10, <1>11 DEF DecodeColumn

(* Zeros up to the start of a text are its padding, and what starts there  *)
(* is a length word of the form the text was given.                        *)
LEMMA TextHere ==
  ASSUME IInv, RInv, Known, pc = "string"
  PROVE  /\ input \in Input /\ k \in 1..Len(input.tuples) /\ IsFilled(Current)
         /\ ShownCount \in 0..Len(Columns) /\ col \in 1..ShownCount
         /\ ~Here.null /\ Here.kind = "string" /\ line = Row[col - 1]
         /\ pos \in Nat /\ TextStart \in Nat /\ size \in Nat
         /\ End[col - 1] <= pos /\ pos <= TextStart
         /\ pos < TextStart => LengthByte = Nul /\ size > 0
         /\ pos = TextStart => LengthByte # Nul /\ ~IsExternal /\ ~IsCompressed
         /\ pos = TextStart /\ ~Here.long =>
              /\ IsShort /\ ~IsLong
              /\ ShortSize <= size /\ pos + ShortSize = End[col]
              /\ BytesAt(pos + 1, ShortSize - 1) = Here.bytes
         /\ pos = TextStart /\ Here.long =>
              /\ ~IsShort /\ IsLong
              /\ LongSize <= size /\ pos + LongSize = End[col]
              /\ BytesAt(pos + 4, LongSize - 4) = Here.bytes
<1>1. /\ input \in Input /\ k \in 1..Len(input.tuples) /\ IsFilled(Current)
      /\ ShownCount \in 0..Len(Columns)
      /\ pos \in Nat /\ size \in Nat /\ pos + size = Total /\ Total \in Nat
      /\ col \in Nat \ {0} /\ LaidOut
  BY KnownFacts DEF Working
<1>2. /\ ~Here.null /\ Here.kind = "string" /\ line = Row[col - 1]
      /\ End[col - 1] <= pos /\ pos <= TextStart /\ col <= ShownCount
  BY <1>1 DEF LaidOut, InPadding
<1>3. col \in 1..ShownCount /\ col \in 1..Len(Columns) /\ Len(Columns) \in Nat
  BY <1>1, <1>2, ColumnsType
<1>4. /\ End[col - 1] \in Nat /\ TextStart \in Nat /\ Storable(Here) /\ Here \in Column
      /\ End[col] = TextStart + Len(StoredForm(Here))
      /\ \A q \in End[col - 1]..(TextStart - 1) : ByteAt(q) = Nul
  <2> DEFINE c == Columns[col]
             start == End[col - 1] + GapOf(col)
  <2>1. ~c.null
    BY <1>2 DEF Here
  <2>2. /\ End[col - 1] \in Nat /\ GapOf(col) \in Nat
        /\ Storable(c) /\ c \in Column
        /\ End[col] = start + Len(StoredForm(c))
        /\ \A q \in End[col - 1]..(start - 1) : ByteAt(q) = Nul
    BY <1>1, <1>3, <2>1, ColumnBytes
  <2>3. start \in Nat
    BY <2>2
  <2> QED
    BY <2>2, <2>3 DEF Here, TextStart
<1>5. Len(StoredForm(Here)) \in Nat \ {0}
  BY <1>4, StoredType
<1>6. End[col] \in Nat /\ End[col] <= Total
  <2>1. col \in 0..Len(Columns)
    BY <1>3
  <2> QED
    BY <1>1, <2>1, EndsGrow
<1>7. ASSUME pos < TextStart PROVE LengthByte = Nul /\ size > 0
  <2>1. pos \in End[col - 1]..(TextStart - 1)
    BY <1>1, <1>2, <1>4, <1>7
  <2>2. ByteAt(pos) = Nul
    BY <1>4, <2>1
  <2> DEFINE l == Len(StoredForm(Here))
  <2>3. l \in Nat /\ End[col] = TextStart + l
    BY <1>4, <1>5
  <2> HIDE DEF l
  <2>4. size > 0
    BY <1>1, <1>4, <1>6, <1>7, <2>3
  <2> QED
    BY <2>2, <2>4 DEF LengthByte
<1>8. ASSUME pos = TextStart, ~Here.long
      PROVE  /\ LengthByte # Nul /\ ~IsExternal /\ ~IsCompressed
             /\ IsShort /\ ~IsLong
             /\ ShortSize <= size /\ pos + ShortSize = End[col]
             /\ BytesAt(pos + 1, ShortSize - 1) = Here.bytes
  <2> DEFINE b == LengthByte
             s == ShortSize
  <2>1. /\ b % 2 = 1 /\ b \notin {0, 1}
        /\ pos + s = End[col]
        /\ BytesAt(pos + 1, s - 1) = Here.bytes
    BY <1>1, <1>2, <1>3, <1>8, ShortRead DEF LengthByte, ShortSize
  <2>2. b \in Nat /\ s \in Nat
    <3>1. Current.bytes \in Seq(Byte) /\ Current.beyond \in Byte
      BY <1>1, ColumnsType
    <3>2. b \in Byte
      BY <1>1, <3>1, ByteAtType DEF LengthByte
    <3>3. b \in Nat
      BY <3>2 DEF Byte
    <3> QED
      BY <3>3 DEF ShortSize
  <2> HIDE DEF b, s
  <2>3. s <= size
    BY <1>1, <1>6, <2>1, <2>2
  <2>4. b % 4 # 0 /\ b % 4 # 2
    BY <2>1, <2>2
  <2> QED
    BY <2>1, <2>3, <2>4 DEF b, s, Nul, IsExternal, IsCompressed, IsShort, IsLong
<1>9. ASSUME pos = TextStart, Here.long
      PROVE  /\ LengthByte # Nul /\ ~IsExternal /\ ~IsCompressed
             /\ ~IsShort /\ IsLong
             /\ LongSize <= size /\ pos + LongSize = End[col]
             /\ BytesAt(pos + 4, LongSize - 4) = Here.bytes
  <2> DEFINE b == LengthByte
             s == LongSize
  <2>1. (Len(Here.bytes) + 4) % 64 # 0
    BY <1>2, <1>3, <1>9 DEF Known, Ordinary, LowByteKept, Here, Columns
  <2>2. /\ b % 4 = 0 /\ b \in Nat /\ b # 0
        /\ s \in Nat /\ s >= 4 /\ pos + s = End[col]
        /\ BytesAt(pos + 4, s - 4) = Here.bytes
    <3>1. s = LongAt(pos) /\ b = ByteAt(pos)
      BY DEF LongSize, LongAt, LengthByte
    <3> HIDE DEF s, b
    <3> QED
      BY <1>1, <1>2, <1>3, <1>9, <2>1, <3>1, LongRead
  <2> HIDE DEF b, s
  <2>3. s <= size /\ size >= 4
    BY <1>1, <1>6, <2>2
  <2>4. b % 2 = 0 /\ b % 2 # 1 /\ b # 1 /\ b % 4 # 2
    BY <2>2
  <2> QED
    BY <2>2, <2>3, <2>4 DEF b, s, Nul, IsExternal, IsCompressed, IsShort, IsLong
<1> QED
  BY <1>1, <1>2, <1>3, <1>4, <1>7, <1>8, <1>9

LEMMA TextLaid ==
  ASSUME IInv, RInv, Known, DecodeText
  PROVE  /\ LaidOut' /\ pc' \in Working
         /\ UNCHANGED <<input, named, callbacks, k, reports>>
<1>0. pc = "string"
  BY DEF DecodeText, SkipPadding, OnlyPadding, External, Fetch, FetchFails,
     FetchEnds, Short, Long, Compressed, BadText, AtPadding, AtText, AtPointer
<1>1. /\ input \in Input /\ k \in 1..Len(input.tuples) /\ IsFilled(Current)
      /\ ShownCount \in 0..Len(Columns) /\ col \in 1..ShownCount
      /\ ~Here.null /\ Here.kind = "string" /\ line = Row[col - 1]
      /\ pos \in Nat /\ TextStart \in Nat /\ size \in Nat
      /\ End[col - 1] <= pos /\ pos <= TextStart
      /\ pos < TextStart => LengthByte = Nul /\ size > 0
      /\ pos = TextStart => LengthByte # Nul /\ ~IsExternal /\ ~IsCompressed
      /\ pos = TextStart /\ ~Here.long =>
           /\ IsShort /\ ~IsLong
           /\ ShortSize <= size /\ pos + ShortSize = End[col]
           /\ BytesAt(pos + 1, ShortSize - 1) = Here.bytes
      /\ pos = TextStart /\ Here.long =>
           /\ ~IsShort /\ IsLong
           /\ LongSize <= size /\ pos + LongSize = End[col]
           /\ BytesAt(pos + 4, LongSize - 4) = Here.bytes
  BY <1>0, TextHere
<1>2. End[col - 1] \in Nat
  <2>1. col - 1 \in 0..Len(Columns) /\ Len(Columns) \in Nat
    BY <1>1, ColumnsType
  <2> QED
    BY <1>1, <2>1, EndsGrow
<1>3. AtPadding => pos < TextStart /\ size > 0
  <2>1. AtPadding => LengthByte = Nul
    BY DEF AtPadding, LengthByte
  <2> QED
    BY <1>1, <2>1
<1>4. AtText => pos = TextStart
  BY <1>1 DEF AtText
<1>5. ~OnlyPadding /\ ~External /\ ~Fetch /\ ~FetchFails /\ ~FetchEnds /\ ~Compressed
  BY <1>1, <1>3, <1>4
     DEF OnlyPadding, External, Fetch, FetchFails, FetchEnds, Compressed, AtPointer
<1>6. ~BadText
  <2> SUFFICES ASSUME BadText PROVE FALSE
    OBVIOUS
  <2>1. AtText /\ pos = TextStart
    BY <1>4 DEF BadText
  <2>2. /\ ~IsExternal /\ ~IsCompressed
        /\ (IsShort /\ ~IsLong) \/ (~IsShort /\ IsLong)
        /\ IsShort => ~(ShortSize > size)
        /\ IsLong => ~(LongSize > size)
    <3>1. CASE Here.long
      <4> DEFINE s == LongSize
      <4>1. s <= size /\ pos + s = End[col] /\ ~IsShort /\ IsLong
        BY <1>1, <2>1, <3>1
      <4>2. s \in Nat
        BY <1>0, TextSizes
      <4> HIDE DEF s
      <4>3. ~(s > size)
        BY <1>1, <4>1, <4>2
      <4> QED
        BY <1>1, <2>1, <4>1, <4>3 DEF s
    <3>2. CASE ~Here.long
      <4> DEFINE s == ShortSize
      <4>1. s <= size /\ pos + s = End[col] /\ IsShort /\ ~IsLong
        BY <1>1, <2>1, <3>2
      <4>2. s \in Nat
        BY <1>0, TextSizes
      <4> HIDE DEF s
      <4>3. ~(s > size)
        BY <1>1, <4>1, <4>2
      <4> QED
        BY <1>1, <2>1, <4>1, <4>3 DEF s
    <3> QED
      BY <3>1, <3>2
  <2> QED
    BY <2>2, Zenon DEF BadText
<1>7. CASE SkipPadding
  <2>1. pos < TextStart
    BY <1>3, <1>7 DEF SkipPadding
  <2>2. /\ pc' = pc /\ pos' = pos + 1 /\ line' = line /\ col' = col
        /\ UNCHANGED <<input, named, callbacks, k, reports>>
    BY <1>7 DEF SkipPadding, Advance, buffers
  <2>3. /\ Columns' = Columns /\ End' = End /\ Row' = Row /\ ShownCount' = ShownCount
        /\ GapOf(col)' = GapOf(col)
    BY <2>2, SameTuple, SameTypes
  <2>4. Here' = Here /\ TextStart' = TextStart
    BY <2>2, <2>3 DEF Here, TextStart, GapOf
  <2>5. End[col - 1] <= pos + 1 /\ pos + 1 <= TextStart
    BY <1>1, <1>2, <2>1
  <2>6. InPadding'
    BY <1>1, <2>2, <2>3, <2>4, <2>5 DEF InPadding
  <2>7. LaidOut'
    BY <1>0, <1>1, <2>2, <2>3, <2>6 DEF LaidOut
  <2> QED
    BY <1>0, <2>2, <2>7 DEF Working
<1>8. /\ Field(Here) = CopyForm(Here.bytes) /\ Here.bytes \in Seq(Byte)
      /\ \A i \in 1..Len(Here.bytes) : Here.bytes[i] # Tab
      /\ col <= ShownCount
  <2>1. Field(Here) = CopyForm(Here.bytes)
    BY <1>1 DEF Field
  <2>2. col <= ShownCount
    BY <1>1
  <2> QED
    BY <1>1, <2>1, <2>2, NoTabHere
<1>9. CASE Short
  <2>1. pos = TextStart /\ IsShort
    BY <1>4, <1>9 DEF Short
  <2>2. pos + ShortSize = End[col] /\ BytesAt(pos + 1, ShortSize - 1) = Here.bytes
    BY <1>1, <2>1
  <2>3. /\ pc' = "encode" /\ pos' = pos + ShortSize /\ tmpBuff' = <<>> /\ line' = line
        /\ source' = BytesAt(pos + 1, ShortSize - 1)
        /\ UNCHANGED <<input, named, callbacks, k, col, reports>>
    BY <1>9 DEF Short, EncodeText, Advance, buffers
  <2>4. source' = Here.bytes /\ pos' = End[col] /\ line' = Row[col - 1]
    BY <1>1, <2>2, <2>3
  <2>5. LaidOut'
    BY <1>8, <2>3, <2>4, ReadyToEncode
  <2> QED
    BY <2>3, <2>5 DEF Working
<1>10. CASE Long
  <2>1. pos = TextStart /\ IsLong
    BY <1>4, <1>10 DEF Long
  <2>2. pos + LongSize = End[col] /\ BytesAt(pos + 4, LongSize - 4) = Here.bytes
    BY <1>1, <2>1
  <2>3. /\ pc' = "encode" /\ pos' = pos + LongSize /\ tmpBuff' = <<>> /\ line' = line
        /\ source' = BytesAt(pos + 4, LongSize - 4)
        /\ UNCHANGED <<input, named, callbacks, k, col, reports>>
    BY <1>10 DEF Long, EncodeText, Advance, buffers
  <2>4. source' = Here.bytes /\ pos' = End[col] /\ line' = Row[col - 1]
    BY <1>1, <2>2, <2>3
  <2>5. LaidOut'
    BY <1>8, <2>3, <2>4, ReadyToEncode
  <2> QED
    BY <2>3, <2>5 DEF Working
<1> QED
  BY <1>5, <1>6, <1>7, <1>9, <1>10 DEF DecodeText

(* Only before the first column is the line empty.                         *)
LEMMA RowNotEmpty ==
  ASSUME IInv, RInv, pc \in Working, Known, NEW n \in 1..ShownCount
  PROVE  Row[n] # <<>>
<1>1. /\ input \in Input /\ k \in 1..Len(input.tuples) /\ IsFilled(Current)
      /\ AllNamesKnown /\ ShownCount \in 0..Len(Columns) /\ Len(Columns) \in Nat
  BY KnownFacts, ColumnsType
<1>2. /\ Row[0] = <<>> /\ Row[n] = Row[n - 1] \o Between(n) \o Field(Columns[n])
      /\ Row[n - 1] \in Seq(Symbol)
      /\ Between(n) \in Seq(Symbol) /\ Field(Columns[n]) \in Seq(Symbol)
  <2>1. n - 1 \in 0..ShownCount /\ ShownCount <= Len(Columns)
    BY <1>1
  <2> QED
    BY <1>1, <2>1, RowSteps
<1> DEFINE a == Row[n - 1]
           b == Between(n)
           c == Field(Columns[n])
<1>3. a \in Seq(Symbol) /\ b \in Seq(Symbol) /\ c \in Seq(Symbol)
  BY <1>2
<1>4. b # <<>> \/ c # <<>>
  <2>1. CASE n = 1
    <3>1. ShownCount > 0
      BY <1>1
    <3> QED
      BY <2>1, <3>1 DEF Known, Ordinary, FirstShown, Columns
  <2>2. CASE n # 1
    <3>1. n > 1
      BY <1>1, <2>2
    <3> QED
      BY <3>1 DEF Between
  <2> QED
    BY <2>1, <2>2
<1> HIDE DEF a, b, c
<1>5. (a \o b) \o c # <<>>
  <2>1. a \in Seq(Symbol) /\ b \in Seq(Symbol)
    BY <1>3
  <2>2. /\ a \o b \in Seq(Symbol) /\ Len(a \o b) = Len(a) + Len(b)
        /\ Len(a) \in Nat /\ Len(b) \in Nat
    BY <2>1, ConcatLen
  <2> DEFINE d == a \o b
  <2>3. d \in Seq(Symbol) /\ c \in Seq(Symbol)
    BY <1>3, <2>2
  <2>4. Len(d) = Len(a) + Len(b)
    BY <2>2
  <2> HIDE DEF d
  <2>5. Len(d \o c) = Len(d) + Len(c) /\ Len(c) \in Nat
    BY <2>3, ConcatLen
  <2>6. b # <<>> => Len(b) > 0
    BY <1>3
  <2>7. c # <<>> => Len(c) > 0
    BY <1>3
  <2>8. Len(d \o c) > 0
    BY <1>4, <2>2, <2>4, <2>5, <2>6, <2>7
  <2>9. Len(<<>>) = 0
    OBVIOUS
  <2>10. d \o c # <<>>
    BY <2>8, <2>9
  <2> QED
    BY <2>10 DEF d
<1> QED
  BY <1>2, <1>5 DEF a, b, c

(* The text of a column follows its tab.                                   *)
LEMMA NextField ==
  ASSUME IInv, RInv, pc \in Working, Known, col \in 1..ShownCount
  PROVE  /\ Row[col - 1] # <<>> => Between(col) = <<Char(Tab)>>
         /\ Row[col - 1] = <<>> => Row[col - 1] \o Between(col) = <<>>
         /\ Row[col] = (Row[col - 1] \o Between(col)) \o Field(Here)
<1>1. /\ input \in Input /\ k \in 1..Len(input.tuples) /\ IsFilled(Current)
      /\ AllNamesKnown /\ ShownCount \in 0..Len(Columns) /\ Len(Columns) \in Nat
  BY KnownFacts, ColumnsType
<1>2. Row[0] = <<>> /\ Row[col] = Row[col - 1] \o Between(col) \o Field(Columns[col])
  <2>1. ShownCount <= Len(Columns)
    BY <1>1
  <2> QED
    BY <1>1, <2>1, RowSteps
<1>3. CASE col = 1
  <2>1. col - 1 = 0 /\ Between(col) = <<>>
    BY <1>3 DEF Between
  <2>2. <<>> \o <<>> = <<>>
    OBVIOUS
  <2> QED
    BY <1>2, <2>1, <2>2 DEF Here
<1>4. CASE col # 1
  <2>1. col - 1 \in 1..ShownCount /\ col > 1
    BY <1>1, <1>4
  <2>2. Between(col) = <<Char(Tab)>>
    BY <2>1 DEF Between
  <2>3. Row[col - 1] # <<>>
    BY <2>1, RowNotEmpty
  <2> QED
    BY <1>2, <2>2, <2>3 DEF Here
<1> QED
  BY <1>3, <1>4

(* What is laid out stays so while nothing of it changes.                  *)
LEMMA SameAppending ==
  ASSUME input' = input, k' = k, col' = col, pos' = pos, text' = text
  PROVE  /\ line' = line => (AtTab' <=> AtTab) /\ (AfterTab' <=> AfterTab)
         /\ ShownCount' = ShownCount /\ Row' = Row /\ End' = End
         /\ Field(Here)' = Field(Here)
<1>1. Columns' = Columns /\ End' = End /\ Row' = Row /\ ShownCount' = ShownCount
  BY SameTuple, SameTypes
<1>2. Field(Here)' = Field(Here)
  BY <1>1 DEF Field, Here
<1> QED
  BY <1>1, <1>2 DEF AtTab, AfterTab, Between

LEMMA EncodeLaid ==
  ASSUME IInv, RInv, Known, EncodeChar \/ EncodeDone
  PROVE  /\ LaidOut'
         /\ UNCHANGED <<input, named, callbacks, k, reports>>
<1>1. pc = "encode" /\ pc \in Working
  BY DEF EncodeChar, EncodeDone, Working
<1>2. /\ Encoding /\ pos = End[col] /\ line = Row[col - 1] /\ col <= ShownCount
  BY <1>1, KnownFacts DEF LaidOut
<1>9. PICK b \in Seq(Byte) : \E n \in 0..Len(b) :
        /\ \A i \in 1..Len(b) : b[i] # Tab
        /\ Field(Here) = CopyForm(b)
        /\ tmpBuff = CopyFormUpTo(b, n)
        /\ source = SubSeq(b, n + 1, Len(b))
  BY <1>2 DEF Encoding
<1>3. PICK n \in 0..Len(b) :
        /\ \A i \in 1..Len(b) : b[i] # Tab
        /\ Field(Here) = CopyForm(b)
        /\ tmpBuff = CopyFormUpTo(b, n)
        /\ source = SubSeq(b, n + 1, Len(b))
  BY <1>9
<1> DEFINE l == Len(b)
<1>4. l \in Nat
  OBVIOUS
<1>5. CASE EncodeDone
  <2>1. /\ pc' = "tab" /\ pos' = pos /\ text' = tmpBuff /\ line' = line /\ col' = col
        /\ source = <<>>
        /\ UNCHANGED <<input, named, callbacks, k, reports>>
    BY <1>5 DEF EncodeDone, buffers
  <2>2. n = l
    <3>1. Len(source) = 0
      BY <2>1
    <3>2. n + 1 <= l => Len(SubSeq(b, n + 1, l)) = l - (n + 1) + 1
      BY <1>4
    <3> HIDE DEF l
    <3>3. n \in 0..l /\ source = SubSeq(b, n + 1, l)
      BY <1>3 DEF l
    <3> QED
      BY <1>4, <3>1, <3>2, <3>3
  <2>3. text' = Field(Here)
    BY <1>3, <2>1, <2>2 DEF CopyForm
  <2>4. LaidOut'
    BY <1>2, <2>1, <2>3, ReadyToAppend
  <2> QED
    BY <2>1, <2>4
<1>6. CASE EncodeChar
  <2>1. /\ pc' = pc /\ pos' = pos /\ line' = line /\ col' = col /\ source # <<>>
        /\ tmpBuff' = tmpBuff \o Escape(Head(source)) /\ source' = Tail(source)
        /\ UNCHANGED <<input, named, callbacks, k, reports>>
    BY <1>6 DEF EncodeChar, buffers
  <2>2. n < l
    <3>1. ~(n < l) => SubSeq(b, n + 1, l) = <<>>
      BY <1>4
    <3> QED
      BY <1>3, <1>4, <2>1, <3>1
  <2>3. n + 1 \in 1..l /\ n + 1 \in 0..l /\ (n + 1) - 1 = n
    BY <1>4, <2>2
  <2>4. /\ Head(SubSeq(b, n + 1, l)) = b[n + 1]
        /\ Tail(SubSeq(b, n + 1, l)) = SubSeq(b, (n + 1) + 1, l)
    <3>1. n + 1 \in 1..Len(b) /\ Len(b) \in (n + 1)..Len(b)
      BY <1>4, <2>3
    <3> QED
      BY <3>1, HeadTailOfSubSeq
  <2>5. Escape(b[n + 1]) = CopyChar(b[n + 1])
    <3>1. b[n + 1] \in Byte /\ b[n + 1] # Tab
      BY <1>3, <2>3
    <3> QED
      BY <3>1, EscapeIsCopy
  <2>6. CopyFormUpTo(b, n + 1) = CopyFormUpTo(b, n) \o CopyChar(b[n + 1])
    BY <2>3, CopySteps
  <2>7. tmpBuff' = CopyFormUpTo(b, n + 1) /\ source' = SubSeq(b, (n + 1) + 1, l)
    BY <1>3, <2>1, <2>4, <2>5, <2>6
  <2>8. Columns' = Columns /\ End' = End /\ Row' = Row /\ ShownCount' = ShownCount
    BY <2>1, SameTuple, SameTypes
  <2>9. Field(Here)' = Field(Here)
    BY <2>1, <2>8 DEF Field, Here
  <2>10. Encoding'
    BY <1>3, <2>3, <2>7, <2>9 DEF Encoding
  <2>11. LaidOut'
    BY <1>1, <1>2, <2>1, <2>8, <2>10 DEF LaidOut
  <2> QED
    BY <2>1, <2>11
<1> QED
  BY <1>5, <1>6

LEMMA CopyLaid ==
  ASSUME IInv, RInv, Known, CopyText
  PROVE  /\ pc' = "exit" \/ (pc' \in Working /\ LaidOut')
         /\ UNCHANGED <<input, named, callbacks, k, reports>>
<1>0. pc \in {"encode", "tab", "append", "enlarge"} /\ pc \in Working
  BY DEF CopyText, EncodeChar, EncodeTooLarge, EncodeDone, NoTab, AppendTooLarge,
     AppendFits, Enlarge, Double, Enlarged, Appending, Working
<1>1. LaidOut /\ col <= ShownCount /\ ShownCount \in Nat /\ col \in Nat \ {0}
      /\ col \in 1..ShownCount
  BY <1>0, KnownFacts DEF LaidOut
<1>2. CASE EncodeChar \/ EncodeDone
  <2>1. pc' \in Working
    BY <1>0, <1>2 DEF EncodeChar, EncodeDone, Working
  <2> QED
    BY <1>2, <2>1, EncodeLaid
<1>3. CASE EncodeTooLarge \/ AppendTooLarge
  BY <1>3 DEF EncodeTooLarge, AppendTooLarge, buffers
<1>4. CASE NoTab
  <2>1. /\ pc = "tab" /\ line = <<>> /\ pc' = "append" /\ pos' = pos /\ text' = text
        /\ line' = line /\ col' = col
        /\ UNCHANGED <<input, named, callbacks, k, reports>>
    BY <1>4 DEF NoTab, buffers
  <2>2. AtTab
    BY <1>1, <2>1 DEF LaidOut
  <2>3. AfterTab
    BY <1>0, <1>1, <2>1, <2>2, NextField DEF AtTab, AfterTab
  <2>4. AfterTab' /\ ShownCount' = ShownCount
    BY <2>1, <2>3, SameAppending
  <2> QED
    BY <1>1, <2>1, <2>4 DEF LaidOut, Working
<1>5. CASE AppendFits
  <2>1. /\ pos' = pos /\ text' = text /\ line' = line \o Addition
        /\ pc = "append" \/ (pc = "tab" /\ line # <<>>)
        /\ pc = "tab" => pc' = "append" /\ col' = col
        /\ pc # "tab" => pc' = "column" /\ col' = col + 1
        /\ UNCHANGED <<input, named, callbacks, k, reports>>
    BY <1>5 DEF AppendFits, Appending
  <2>2. CASE pc = "tab"
    <3>1. AtTab /\ line' = line \o <<Char(Tab)>>
      BY <1>1, <2>1, <2>2 DEF LaidOut, Addition
    <3>2. Between(col) = <<Char(Tab)>>
      BY <1>0, <1>1, <2>1, <2>2, <3>1, NextField DEF AtTab
    <3>3. /\ ShownCount' = ShownCount /\ Row' = Row /\ End' = End
          /\ Field(Here)' = Field(Here)
      BY <2>1, <2>2, SameAppending
    <3>4. AfterTab'
      BY <2>1, <2>2, <3>1, <3>2, <3>3 DEF AtTab, AfterTab, Between
    <3> QED
      BY <1>1, <2>1, <2>2, <3>3, <3>4 DEF LaidOut, Working
  <2>3. CASE pc = "append"
    <3>1. AfterTab /\ line' = line \o text
      BY <1>1, <2>1, <2>3 DEF LaidOut, Addition
    <3>2. line' = Row[col] /\ pos' = End[col]
      BY <1>0, <1>1, <2>1, <3>1, NextField DEF AfterTab
    <3>3. /\ ShownCount' = ShownCount /\ Row' = Row /\ End' = End
      BY <2>1, SameTuple, SameTypes
    <3>4. col' <= ShownCount' + 1 /\ col' - 1 = col /\ pc' = "column"
      BY <1>1, <2>1, <2>3, <3>3
    <3>5. BeforeColumn'
      BY <3>2, <3>3, <3>4 DEF BeforeColumn
    <3> QED
      BY <2>1, <3>4, <3>5 DEF LaidOut, Working
  <2> QED
    BY <2>1, <2>2, <2>3
<1>6. CASE Enlarge
  <2>1. /\ pos' = pos /\ text' = text /\ line' = line /\ col' = col
        /\ pc = "append" \/ (pc = "tab" /\ line # <<>>)
        /\ resume' = pc /\ pc' = "enlarge"
        /\ UNCHANGED <<input, named, callbacks, k, reports>>
    BY <1>6 DEF Enlarge, Appending
  <2>2. IF pc = "tab" THEN AtTab /\ line # <<>> ELSE AfterTab
    BY <1>1, <2>1 DEF LaidOut
  <2>3. (AtTab' <=> AtTab) /\ (AfterTab' <=> AfterTab) /\ ShownCount' = ShownCount
    BY <2>1, SameAppending
  <2> QED
    BY <1>1, <2>1, <2>2, <2>3 DEF LaidOut, Working
<1>7. CASE Double
  <2>1. /\ pos' = pos /\ text' = text /\ line' = line /\ col' = col
        /\ resume' = resume /\ pc = "enlarge" /\ pc' = "enlarge"
        /\ UNCHANGED <<input, named, callbacks, k, reports>>
    BY <1>7 DEF Double
  <2>2. IF resume = "tab" THEN AtTab /\ line # <<>> ELSE AfterTab
    BY <1>1, <2>1 DEF LaidOut
  <2>3. (AtTab' <=> AtTab) /\ (AfterTab' <=> AfterTab) /\ ShownCount' = ShownCount
    BY <2>1, SameAppending
  <2> QED
    BY <1>1, <2>1, <2>2, <2>3 DEF LaidOut, Working
<1>8. CASE Enlarged
  <2>1. /\ pos' = pos /\ text' = text /\ line' = line /\ col' = col
        /\ resume' = resume /\ pc = "enlarge" /\ pc' = resume
        /\ UNCHANGED <<input, named, callbacks, k, reports>>
    BY <1>8 DEF Enlarged
  <2>2. IF resume = "tab" THEN AtTab /\ line # <<>> ELSE AfterTab
    BY <1>1, <2>1 DEF LaidOut
  <2>3. (AtTab' <=> AtTab) /\ (AfterTab' <=> AfterTab) /\ ShownCount' = ShownCount
    BY <2>1, SameAppending
  <2>4. resume \in {"tab", "append"}
    BY DEF IInv, TypeOK
  <2> QED
    BY <1>1, <2>1, <2>2, <2>3, <2>4 DEF LaidOut, Working
<1> QED
  BY <1>2, <1>3, <1>4, <1>5, <1>6, <1>7, <1>8 DEF CopyText

(* At the end of a tuple all of it has been decoded.                       *)
LEMMA EndLaid ==
  ASSUME IInv, RInv, Known, AtEnd
  PROVE  size = 0 /\ line = LineUpTo(Current, ShownCount)
<1>1. pc = "column" /\ col > Len(callbacks)
  BY DEF AtEnd
<1>2. /\ input \in Input /\ k \in 1..Len(input.tuples) /\ IsFilled(Current)
      /\ callbacks = Given /\ Len(Given) \in Nat \ {0}
      /\ ShownCount \in 0..Len(Columns)
      /\ ShownCount = Len(Given) \/ ShownCount = Len(Given) - 1
      /\ ShownCount = Len(Given) => Len(Columns) = ShownCount
      /\ pos \in Nat /\ size \in Nat /\ pos + size = Total /\ Total \in Nat
      /\ col \in Nat \ {0} /\ LaidOut
  BY <1>1, KnownFacts DEF Working
<1>3. BeforeColumn
  BY <1>1, <1>2 DEF LaidOut
<1>4. pos = Total /\ line = Row[ShownCount]
  <2>1. CASE col <= ShownCount + 1
    <3>1. col - 1 = ShownCount /\ Len(Columns) = ShownCount
      BY <1>1, <1>2, <2>1
    <3> QED
      BY <1>2, <1>3, <2>1, <3>1, EndsGrow DEF BeforeColumn
  <2>2. CASE ~(col <= ShownCount + 1)
    BY <1>3, <2>2 DEF BeforeColumn
  <2> QED
    BY <2>1, <2>2
<1>5. Row[ShownCount] = LineUpTo(Current, ShownCount)
  <2>1. ShownCount \in 0..ShownCount
    BY <1>2
  <2> QED
    BY <2>1 DEF Row
<1> QED
  BY <1>2, <1>4, <1>5

LEMMA CallbackKinds ==
  ASSUME NEW c \in CallbackTable
  PROVE  c = <<c[1], c[2]>> /\ c[2] \in Kinds
<1>1. c[2] \in Kinds
  BY DEF CallbackTable, Kinds, FixedKinds, Layouts, IntegerLayouts,
         TimeLayouts, FloatLayouts, OctetLayouts, CharLayouts, Layout
<1>2. c = <<c[1], c[2]>>
  BY DEF CallbackTable
<1> QED
  BY <1>1, <1>2

(* The types are read name by name.                                        *)
LEMMA TypesGiven ==
  ASSUME IInv, RInv, ParseTypes
  PROVE  /\ TypesRead' /\ DecodersGiven'
         /\ pc' \in {"types", "tuple", "refused", "crash"} /\ pc = "types"
         /\ UNCHANGED <<input, k, reports>>
<1>1. /\ input \in Input /\ named \in Nat /\ Len(input.types) \in Nat
      /\ callbacks \in Seq(Kinds) /\ named <= Len(input.types)
  BY DEF IInv, TypeOK, RInv, TypesRead, Input
<1>2. /\ pc = "types" /\ pc' \in {"types", "tuple", "refused", "crash"}
      /\ UNCHANGED <<input, k, reports>>
  BY DEF ParseTypes, NamesTooLong, EmptyName, AddTypeCallback, UnknownName,
     NamesDone, AtName
<1>3. Asked' = Asked /\ (AllNamesKnown' <=> AllNamesKnown)
  BY <1>2, SameTypes
<1>4. CASE NamesTooLong \/ UnknownName \/ NamesDone
  <2>1. /\ named' = named /\ callbacks' = callbacks
        /\ pc' \in {"refused", "tuple"}
        /\ pc' = "tuple" => named = Len(input.types)
    BY <1>4 DEF NamesTooLong, UnknownName, NamesDone
  <2>2. TypesRead'
    BY <1>1, <1>2, <2>1 DEF TypesRead, Working
  <2>3. DecodersGiven'
    BY <1>3, <2>1 DEF RInv, DecodersGiven
  <2> QED
    BY <1>2, <2>2, <2>3
<1>5. CASE EmptyName \/ AddTypeCallback
  <2>1. /\ named < Len(input.types) /\ named' = named + 1
        /\ pc' \in {"types", "crash"}
    BY <1>2, <1>5 DEF EmptyName, AddTypeCallback, AtName
  <2>2. TypesRead'
    BY <1>1, <1>2, <2>1 DEF TypesRead, Working
  <2>3. ASSUME AllNamesKnown PROVE callbacks' = Asked[named + 1]
    <3> DEFINE n == named + 1
               name == input.types[n]
    <3>1. n \in 1..Len(input.types) /\ n - 1 = named
          /\ n \in 0..Len(input.types) /\ named \in 0..Len(input.types)
      BY <1>1, <2>1
    <3>2. GivenUpTo(n) = IF name.length = 0 THEN GivenUpTo(named)
                         ELSE Append(GivenUpTo(named), DecoderOf(name.name))
      BY <1>1, <2>3, <3>1, GivenSteps
    <3>3. callbacks = GivenUpTo(named) /\ Asked[n] = GivenUpTo(n)
      BY <2>3, <3>1 DEF RInv, DecodersGiven, Asked
    <3>4. CASE EmptyName
      BY <3>2, <3>3, <3>4 DEF EmptyName, NextName
    <3>5. CASE AddTypeCallback
      <4>1. PICK d \in DecodersOf(name.name) : callbacks' = Append(callbacks, d)
        BY <3>5 DEF AddTypeCallback, NextName
      <4>2. PICK c \in CallbackTable : c[1] = name.name /\ c[2] = d
        BY <4>1 DEF DecodersOf
      <4>3. c = <<name.name, d>> /\ d \in Kinds
        BY <4>2, CallbackKinds
      <4>4. DecoderOf(name.name) = d
        BY <4>2, <4>3, OneDecoder
      <4>5. name.length # 0
        BY <3>5 DEF AddTypeCallback, NextName
      <4> QED
        BY <3>2, <3>3, <4>1, <4>4, <4>5
    <3> QED
      BY <1>5, <3>4, <3>5
  <2>4. DecodersGiven'
    BY <1>3, <2>1, <2>3 DEF DecodersGiven
  <2> QED
    BY <1>2, <2>2, <2>4
<1> QED
  BY <1>4, <1>5 DEF ParseTypes

(* Reports are counted.                                                    *)
LEMMA ReportCounts ==
  ASSUME IInv, RInv, pc = "column" \/ pc = "string",
         NEW kind, ReportAs(kind), UNCHANGED <<input, named, callbacks>>
  PROVE  /\ RInv' /\ k \in 1..Len(input.tuples)
         /\ Len(reports) = k - 1 /\ Len(reports') = k
         /\ reports' = Append(reports, [kind |-> kind, line |-> line])
<1>1. /\ input \in Input /\ k \in Nat \ {0} /\ k <= Len(input.tuples)
      /\ reports \in Seq([kind : {"row", "error"}, line : Seq(Symbol)])
      /\ Len(input.tuples) \in Nat
  BY DEF IInv, TypeOK, TupleAtHand, Working, Input
<1>2. Len(reports) = k - 1
  BY DEF RInv, Counted
<1>3. /\ reports' = Append(reports, [kind |-> kind, line |-> line])
      /\ k' = k + 1 /\ pc' = "tuple" /\ pc' \notin Working
  BY DEF ReportAs, Working
<1>4. Len(reports') = k
  BY <1>1, <1>2, <1>3
<1>5. Counted'
  <2>1. Len(reports') = k' - 1 /\ k' <= Len(input.tuples) + 1
    BY <1>1, <1>3, <1>4
  <2> QED
    BY <1>3, <2>1 DEF Counted
<1>6. TypesRead'
  BY <1>3 DEF RInv, TypesRead, Working
<1>7. DecodersGiven'
  BY SameTypes DEF RInv, DecodersGiven
<1> QED
  BY <1>1, <1>2, <1>3, <1>4, <1>5, <1>6, <1>7 DEF RInv

(* Within a tuple nothing is reported.                                     *)
LEMMA WithinRow ==
  ASSUME IInv, RInv, pc \in Working, pc' \in Working \cup {"exit", "crash"},
         UNCHANGED <<input, named, callbacks, k, reports>>,
         Known /\ pc' \in Working => LaidOut'
  PROVE  RInv'
<1>1. TypesRead'
  BY DEF RInv, TypesRead, Working
<1>2. DecodersGiven'
  BY SameTypes DEF RInv, DecodersGiven
<1>3. Counted'
  BY DEF RInv, Counted, Working
<1>4. Known' <=> Known
  BY SameTuple
<1> QED
  BY <1>1, <1>2, <1>3, <1>4 DEF RInv

(* A report shows the row of a tuple that is known.                        *)
LEMMA KnownReported ==
  ASSUME IInv, RInv, [Next]_vars, k' # k
  PROVE  /\ RInv' /\ k \in 1..Len(input.tuples) /\ UNCHANGED input
         /\ pc \in Working /\ pc' = "tuple"
         /\ \E kind : reports' = Append(reports, [kind |-> kind, line |-> line])
         /\ Known => reports' = Append(reports, RowOf(Current))
         /\ Len(reports) = k - 1 /\ Len(reports') = k
<1>1. CASE BytesLeft \/ CopyFlush
  <2>1. /\ pc = "column" /\ AtEnd /\ UNCHANGED <<input, named, callbacks>>
    BY <1>1 DEF BytesLeft, CopyFlush, AtEnd
  <2>2. PICK kind : ReportAs(kind)
    BY <1>1 DEF BytesLeft, CopyFlush
  <2>3. /\ RInv' /\ k \in 1..Len(input.tuples)
        /\ Len(reports) = k - 1 /\ Len(reports') = k
        /\ reports' = Append(reports, [kind |-> kind, line |-> line])
    BY <2>1, <2>2, ReportCounts
  <2>4. ASSUME Known PROVE reports' = Append(reports, RowOf(Current))
    <3>1. size = 0 /\ line = LineUpTo(Current, ShownCount)
      BY <2>1, <2>4, EndLaid
    <3>2. CopyFlush
      BY <1>1, <3>1 DEF BytesLeft
    <3>3. reports' = Append(reports, [kind |-> "row", line |-> line])
      BY <3>2 DEF CopyFlush, ReportAs
    <3> QED
      BY <3>1, <3>3 DEF RowOf
  <2> QED
    BY <2>1, <2>2, <2>3, <2>4 DEF ReportAs, Working
<1>2. CASE DecodeColumn \/ DecodeText
  <2>1. ~Known
    BY <1>2, ColumnLaid, TextLaid
  <2>2. OutOfBytes \/ DecodeShort \/ OnlyPadding \/ FetchFails \/ BadText
    BY <1>2 DEF DecodeColumn, DecodeText, NullColumn, DecodeFixed, DecodeChars,
       DecodeIgnore, DecodeString, SkipPadding, External, Fetch, FetchEnds,
       Short, Long, Compressed
  <2>3. /\ ReportAs("error") /\ UNCHANGED <<input, named, callbacks>>
        /\ pc = "column" \/ pc = "string"
    BY <2>2 DEF OutOfBytes, DecodeShort, OnlyPadding, FetchFails, BadText,
       AtColumn, Decoding, AtPadding, AtText, AtPointer
  <2>4. /\ RInv' /\ k \in 1..Len(input.tuples)
        /\ Len(reports) = k - 1 /\ Len(reports') = k
        /\ reports' = Append(reports, [kind |-> "error", line |-> line])
    BY <2>3, ReportCounts
  <2> QED
    BY <2>1, <2>3, <2>4 DEF ReportAs, Working
<1>3. CASE ParseTypes \/ FormatDecode \/ PastBlock \/ TuplesDone \/ Ended
             \/ UNCHANGED vars
  BY <1>3 DEF ParseTypes, NamesTooLong, EmptyName, AddTypeCallback, UnknownName,
     NamesDone, FormatDecode, PastBlock, TuplesDone, Ended, vars
<1>4. CASE CopyText
  BY <1>4 DEF CopyText, EncodeChar, EncodeTooLarge, EncodeDone, NoTab,
     AppendTooLarge, AppendFits, Enlarge, Double, Enlarged
<1> QED
  BY <1>1, <1>2, <1>3, <1>4 DEF Next

LEMMA InitRows == Init => RInv
<1> SUFFICES ASSUME Init PROVE RInv
  OBVIOUS
<1>1. /\ input \in Input /\ named = 0 /\ callbacks = <<>> /\ k = 1 /\ pc = "types"
      /\ reports = <<>>
  BY InputsAssumption DEF Init
<1>2. Len(input.types) \in Nat /\ Len(input.tuples) \in Nat /\ Len(reports) = 0
  BY <1>1 DEF Input
<1>3. TypesRead /\ Counted
  BY <1>1, <1>2 DEF TypesRead, Counted, Working
<1>4. DecodersGiven
  <2>1. 0 \in 0..Len(input.types)
    BY <1>2
  <2> QED
    BY <1>1, <2>1, GivenSteps DEF DecodersGiven, Asked
<1> QED
  BY <1>1, <1>3, <1>4 DEF RInv, Working

LEMMA NextRows == IInv /\ RInv /\ [Next]_vars => RInv'
<1> SUFFICES ASSUME IInv, RInv, [Next]_vars PROVE RInv'
  OBVIOUS
<1>1. CASE k' # k
  BY <1>1, KnownReported
<1>2. ASSUME k' = k, DecodeColumn PROVE RInv'
  <2>1. ~OutOfBytes /\ ~DecodeShort
    <3>1. k + 1 # k
      BY DEF IInv, TypeOK
    <3> QED
      BY <1>2, <3>1 DEF OutOfBytes, DecodeShort, ReportAs
  <2>2. /\ pc \in Working /\ pc' \in Working
        /\ UNCHANGED <<input, named, callbacks, k, reports>>
    BY <1>2, <2>1 DEF DecodeColumn, NullColumn, DecodeFixed, DecodeChars,
       DecodeIgnore, DecodeString, Decoding, AtColumn, AppendText, EncodeText,
       Working
  <2>3. Known => LaidOut'
    BY <1>2, ColumnLaid
  <2> QED
    BY <2>2, <2>3, WithinRow
<1>3. ASSUME k' = k, DecodeText PROVE RInv'
  <2>1. ~OnlyPadding /\ ~FetchFails /\ ~BadText
    <3>1. k + 1 # k
      BY DEF IInv, TypeOK
    <3> QED
      BY <1>3, <3>1 DEF OnlyPadding, FetchFails, BadText, ReportAs
  <2>2. /\ pc \in Working /\ pc' \in Working \cup {"exit"}
        /\ UNCHANGED <<input, named, callbacks, k, reports>>
    BY <1>3, <2>1 DEF DecodeText, SkipPadding, External, Fetch, FetchEnds, Short,
       Long, Compressed, AtPadding, AtText, AtPointer, AppendText, EncodeText,
       Working
  <2>3. Known => LaidOut'
    BY <1>3, TextLaid
  <2> QED
    BY <2>2, <2>3, WithinRow
<1>4. ASSUME CopyText PROVE RInv'
  <2>1. /\ pc \in Working /\ pc' \in Working \cup {"exit"}
        /\ UNCHANGED <<input, named, callbacks, k, reports>>
    <3>1. resume \in {"tab", "append"}
      BY DEF IInv, TypeOK
    <3> QED
      BY <1>4, <3>1 DEF CopyText, EncodeChar, EncodeTooLarge, EncodeDone, NoTab,
         AppendTooLarge, AppendFits, Enlarge, Double, Enlarged, Appending,
         buffers, Working
  <2>2. Known /\ pc' # "exit" => LaidOut'
    BY <1>4, CopyLaid
  <2> QED
    BY <2>1, <2>2, WithinRow DEF Working
<1>5. CASE PastBlock
  <2>1. /\ pc \in Working /\ pc' = "crash"
        /\ UNCHANGED <<input, named, callbacks, k, reports>>
    BY <1>5 DEF PastBlock, Decoding, AtColumn, Working
  <2> QED
    BY <2>1, WithinRow DEF Working
<1>6. CASE ParseTypes
  <2>1. /\ TypesRead' /\ DecodersGiven'
        /\ pc' \in {"types", "tuple", "refused", "crash"} /\ pc = "types"
        /\ UNCHANGED <<input, k, reports>>
    BY <1>6, TypesGiven
  <2>2. Counted' /\ pc' \notin Working
    BY <2>1 DEF RInv, Counted, Working
  <2> QED
    BY <2>1, <2>2 DEF RInv
<1>7. CASE FormatDecode
  <2>1. /\ pc = "tuple" /\ pc' = "column" /\ pos' = 0 /\ line' = <<>> /\ col' = 1
        /\ k <= Len(input.tuples)
        /\ UNCHANGED <<input, named, callbacks, k, reports>>
    BY <1>7 DEF FormatDecode
  <2>2. TypesRead' /\ Counted'
    BY <2>1 DEF RInv, TypesRead, Counted, Working
  <2>3. DecodersGiven'
    BY <2>1, SameTypes DEF RInv, DecodersGiven
  <2>4. ASSUME Known PROVE LaidOut'
    <3>1. /\ input \in Input /\ k \in 1..Len(input.tuples)
      BY <2>1 DEF IInv, TypeOK, Input
    <3>2. IsFilled(Current) /\ AllNamesKnown /\ ShownCount <= Len(Columns)
      BY <2>4 DEF Known, Describes, Columns
    <3>3. End[0] = 0 /\ Row[0] = <<>> /\ ShownCount \in Nat
      <4>1. End[0] = 0
        BY <3>1, <3>2, EndsGrow
      <4>2. Row[0] = <<>>
        BY <3>1, <3>2, RowSteps
      <4>3. ShownCount \in Nat
        BY <3>1, <3>2, ShownType
      <4> QED
        BY <4>1, <4>2, <4>3
    <3>4. End' = End /\ Row' = Row /\ ShownCount' = ShownCount
      BY <2>1, SameTuple, SameTypes
    <3>5. col' <= ShownCount' + 1 /\ col' - 1 = 0
      BY <2>1, <3>3, <3>4
    <3>6. BeforeColumn'
      BY <2>1, <3>3, <3>4, <3>5 DEF BeforeColumn
    <3> QED
      BY <2>1, <3>6 DEF LaidOut
  <2>5. Known' <=> Known
    BY <2>1, SameTuple
  <2> QED
    BY <2>2, <2>3, <2>4, <2>5 DEF RInv
<1>8. CASE TuplesDone
  <2>1. /\ pc = "tuple" /\ pc' = "finished" /\ k > Len(input.tuples)
        /\ UNCHANGED <<input, named, callbacks, k, reports>>
    BY <1>8 DEF TuplesDone
  <2>2. k \in Nat /\ Len(input.tuples) \in Nat
    BY DEF IInv, TypeOK, Input
  <2>3. TypesRead' /\ Counted' /\ pc' \notin Working
    BY <2>1, <2>2 DEF RInv, TypesRead, Counted, Working
  <2>4. DecodersGiven'
    BY <2>1, SameTypes DEF RInv, DecodersGiven
  <2> QED
    BY <2>3, <2>4 DEF RInv
<1>9. CASE UNCHANGED vars
  <2>1. UNCHANGED <<input, named, callbacks, k, col, pos, source, tmpBuff, text,
                    line, resume, pc, reports>>
    BY <1>9 DEF vars, buffers
  <2>2. TypesRead' /\ Counted'
    BY <2>1 DEF RInv, TypesRead, Counted
  <2>3. DecodersGiven'
    BY <2>1, SameTypes DEF RInv, DecodersGiven
  <2>4. ASSUME LaidOut PROVE LaidOut'
    <3>1. /\ Columns' = Columns /\ End' = End /\ Row' = Row /\ Total' = Total
          /\ ShownCount' = ShownCount /\ GapOf(col)' = GapOf(col)
      BY <2>1, SameTuple, SameTypes
    <3>2. Here' = Here /\ TextStart' = TextStart
      BY <2>1, <3>1 DEF Here, TextStart, GapOf
    <3>3. Field(Here)' = Field(Here)
      BY <3>2 DEF Field
    <3>4. /\ BeforeColumn' <=> BeforeColumn
          /\ InPadding' <=> InPadding
      BY <2>1, <3>1, <3>2 DEF BeforeColumn, InPadding
    <3>5. (AtTab' <=> AtTab) /\ (AfterTab' <=> AfterTab)
      BY <2>1, SameAppending
    <3>6. Encoding' <=> Encoding
      BY <2>1, <3>3 DEF Encoding
    <3> QED
      BY <2>1, <2>4, <3>1, <3>4, <3>5, <3>6 DEF LaidOut
  <2>5. Known' <=> Known
    BY <2>1, SameTuple
  <2> QED
    BY <2>1, <2>2, <2>3, <2>4, <2>5 DEF RInv
<1>10. CASE Ended
  BY <1>9, <1>10 DEF Ended
<1>11. CASE BytesLeft \/ CopyFlush
  <2>1. k' = k + 1 /\ k \in Nat
    BY <1>11 DEF BytesLeft, CopyFlush, ReportAs, IInv, TypeOK
  <2> QED
    BY <1>1, <2>1
<1> QED
  BY <1>1, <1>2, <1>3, <1>4, <1>5, <1>6, <1>7, <1>8, <1>9, <1>10, <1>11 DEF Next

-----------------------------------------------------------------------------
(* Each step reports, completes, gives up or does not show.                *)

LEMMA SameDue ==
  ASSUME input' = input
  PROVE  Due' = Due
<1>1. ShownCount' = ShownCount /\ Given' = Given /\ (AllNamesKnown' <=> AllNamesKnown)
  BY SameTypes
<1> DEFINE K(t) == IsFilled(t) /\ Describes(t) /\ Ordinary(t)
           R(t) == IF IsFilled(t) /\ Describes(t) THEN RowOf(t) ELSE <<>>
<1>2. \A t : Describes(t)' <=> Describes(t)
  BY <1>1 DEF Describes
<1>3. \A t : Ordinary(t)' <=> Ordinary(t)
  BY <1>1 DEF Ordinary, NoTabs, FirstShown, NamesAligned, LowByteKept, ValueToIgnore
<1>4. \A t : RowOf(t)' = RowOf(t)
  BY <1>1 DEF RowOf, LineUpTo
<1> QED
  BY <1>2, <1>3, <1>4 DEF Due

(* What is due at the tuple at hand.                                       *)
LEMMA DueHere ==
  ASSUME k \in 1..Len(input.tuples)
  PROVE  Due[k].known => Known /\ Due[k].report = RowOf(Current)
<1> DEFINE K(t) == IsFilled(t) /\ Describes(t) /\ Ordinary(t)
           R(t) == IF IsFilled(t) /\ Describes(t) THEN RowOf(t) ELSE <<>>
<1>1. Due[k] = [known |-> K(input.tuples[k]), report |-> R(input.tuples[k])]
  BY DEF Due
<1> HIDE DEF R, K
<1>2. Due[k].known = K(input.tuples[k]) /\ Due[k].report = R(input.tuples[k])
  BY <1>1
<1>3. Current = input.tuples[k]
  BY DEF Current
<1>4. K(Current) => Known /\ R(Current) = RowOf(Current)
  BY DEF K, R, Known
<1> QED
  BY <1>2, <1>3, <1>4

(* A step that reports nothing.                                            *)
LEMMA QuietStep ==
  ASSUME IInv, RInv, [Next]_vars, k' = k
  PROVE  /\ input' = input /\ reports' = reports
         /\ pc \in Halted => pc' = pc
         /\ pc' = "finished" /\ pc # "finished" => k > Len(input.tuples)
<1>1. k + 1 # k /\ resume \in {"tab", "append"}
  BY DEF IInv, TypeOK
<1>2. CASE ParseTypes
  BY <1>2 DEF ParseTypes, NamesTooLong, EmptyName, AddTypeCallback, UnknownName,
     NamesDone, AtName, Halted
<1>3. CASE FormatDecode \/ PastBlock \/ TuplesDone
  BY <1>3 DEF FormatDecode, PastBlock, TuplesDone, Decoding, AtColumn, Halted
<1>4. CASE DecodeColumn
  BY <1>1, <1>4 DEF DecodeColumn, NullColumn, OutOfBytes, DecodeFixed, DecodeChars,
     DecodeShort, DecodeIgnore, DecodeString, Decoding, AtColumn, ReportAs,
     AppendText, EncodeText, Halted
<1>5. CASE DecodeText
  BY <1>1, <1>5 DEF DecodeText, SkipPadding, OnlyPadding, External, Fetch,
     FetchFails, FetchEnds, Short, Long, Compressed, BadText, AtPadding, AtText,
     AtPointer, ReportAs, AppendText, EncodeText, Halted
<1>6. CASE CopyText
  BY <1>1, <1>6 DEF CopyText, EncodeChar, EncodeTooLarge, EncodeDone, NoTab,
     AppendTooLarge, AppendFits, Enlarge, Double, Enlarged, Appending, Halted
<1>7. CASE BytesLeft \/ CopyFlush
  BY <1>1, <1>7 DEF BytesLeft, CopyFlush, ReportAs
<1>8. CASE UNCHANGED vars \/ Ended
  BY <1>8 DEF vars, Ended
<1> QED
  BY <1>2, <1>3, <1>4, <1>5, <1>6, <1>7, <1>8 DEF Next

LEMMA DueLength ==
  ASSUME input \in Input
  PROVE  Len(Due) = Len(input.tuples) /\ Len(input.tuples) \in Nat
<1>1. Len(input.tuples) \in Nat
  BY DEF Input
<1> DEFINE n == Len(input.tuples)
           D(m) == LET t == input.tuples[m]
                   IN [known |-> IsFilled(t) /\ Describes(t) /\ Ordinary(t),
                       report |-> IF IsFilled(t) /\ Describes(t) THEN RowOf(t)
                                  ELSE <<>>]
<1>2. n \in Nat /\ Due = [m \in 1..n |-> D(m)]
  BY <1>1 DEF Due
<1> HIDE DEF n, D
<1>3. Len([m \in 1..n |-> D(m)]) = n
  BY <1>2
<1> QED
  BY <1>1, <1>2, <1>3 DEF n

LEMMA StepReports ==
  ASSUME IInv, RInv, [Next]_vars PROVE [Rows!Next]_Rows!reportVars
<1> SUFFICES Rows!Next \/ UNCHANGED Rows!reportVars
  OBVIOUS
<1>1. CASE k' # k
  <2>1. /\ k \in 1..Len(input.tuples) /\ UNCHANGED input
        /\ pc \in Working /\ pc' = "tuple"
        /\ \E kind : reports' = Append(reports, [kind |-> kind, line |-> line])
        /\ Known => reports' = Append(reports, RowOf(Current))
        /\ Len(reports) = k - 1 /\ Len(reports') = k
    BY <1>1, KnownReported
  <2>2. Due' = Due /\ input \in Input
    BY <2>1, SameDue DEF IInv, TypeOK
  <2>3. Status = "decoding" /\ Status' = "decoding"
    BY <2>1 DEF Status, Working, Halted
  <2>4. Len(Due) = Len(input.tuples) /\ Len(input.tuples) \in Nat
    BY <2>2, DueLength
  <2>5. Len(reports) < Len(Due) /\ Len(reports') = Len(reports) + 1
    BY <2>1, <2>4
  <2>6. SubSeq(reports', 1, Len(reports)) = reports
    <3> DEFINE V == [kind : {"row", "error"}, line : Seq(Symbol)]
    <3>1. reports \in Seq(V) /\ reports' \in Seq(V)
      <4>1. IInv'
        BY NextInv
      <4> QED
        BY <4>1 DEF IInv, TypeOK
    <3>2. PICK kind : reports' = Append(reports, [kind |-> kind, line |-> line])
      BY <2>1
    <3> DEFINE r == [kind |-> kind, line |-> line]
    <3> HIDE DEF V, r
    <3>3. reports' = Append(reports, r)
      BY <3>2 DEF r
    <3>4. \A i \in 1..Len(reports) : reports'[i] = reports[i]
      BY <3>1, <3>3
    <3> DEFINE n == Len(reports)
    <3>5. n \in Nat /\ n <= Len(reports') /\ Len(reports') \in Nat
      BY <2>1, <3>1
    <3>6. /\ SubSeq(reports', 1, n) \in Seq(V) /\ Len(SubSeq(reports', 1, n)) = n
          /\ \A i \in 1..n : SubSeq(reports', 1, n)[i] = reports'[i]
      BY <3>1, <3>5
    <3> QED
      BY <3>1, <3>4, <3>6, SeqEqual
  <2>7. Due[Len(reports')].known => reports'[Len(reports')] = Due[Len(reports')].report
    <3>1. Due[k].known => Known /\ Due[k].report = RowOf(Current)
      BY <2>1, DueHere
    <3>2. ASSUME Known PROVE reports'[k] = RowOf(Current)
      <4> DEFINE V == [kind : {"row", "error"}, line : Seq(Symbol)]
                 r == RowOf(Current)
      <4>1. reports \in Seq(V) /\ reports' = Append(reports, r) /\ Len(reports) + 1 = k
        BY <2>1, <3>2 DEF IInv, TypeOK
      <4> HIDE DEF V, r
      <4> QED
        BY <4>1 DEF r
    <3> QED
      BY <2>1, <3>1, <3>2
  <2>8. Rows!Report
    BY <2>2, <2>3, <2>5, <2>6, <2>7 DEF Rows!Report
  <2> QED
    BY <2>8 DEF Rows!Next
<1>2. CASE k' = k
  <2>1. /\ input' = input /\ reports' = reports
        /\ pc \in Halted => pc' = pc
        /\ pc' = "finished" /\ pc # "finished" => k > Len(input.tuples)
    BY <1>2, QuietStep
  <2>2. Due' = Due /\ input \in Input
    BY <2>1, SameDue DEF IInv, TypeOK
  <2>3. CASE Status' = Status
    BY <2>1, <2>2, <2>3 DEF Rows!reportVars
  <2>4. CASE Status' # Status
    <3>1. Status = "decoding" /\ Status' \in {"complete", "failed"}
      BY <2>1, <2>4 DEF Status, Halted
    <3>2. CASE Status' = "failed"
      BY <2>1, <2>2, <3>1, <3>2 DEF Rows!GiveUp, Rows!Next
    <3>3. CASE Status' = "complete"
      <4>1. pc' = "finished" /\ pc # "finished"
        BY <3>1, <3>3 DEF Status
      <4>2. k > Len(input.tuples) /\ Len(reports) = k - 1
            /\ k <= Len(input.tuples) + 1 /\ k \in Nat
        BY <2>1, <4>1 DEF RInv, Counted, IInv, TypeOK
      <4>3. Len(Due) = Len(input.tuples) /\ Len(input.tuples) \in Nat
        BY <2>2, DueLength
      <4>4. Len(reports) = Len(Due)
        BY <4>2, <4>3
      <4>5. Rows!Complete
        BY <2>1, <2>2, <3>1, <3>3, <4>4 DEF Rows!Complete
      <4> QED
        BY <4>5 DEF Rows!Next
    <3> QED
      BY <3>1, <3>2, <3>3
  <2> QED
    BY <2>3, <2>4
<1> QED
  BY <1>1, <1>2

(* Each tuple is reported once and in order, a tuple the server wrote and  *)
(* the types describe as the COPY row of its values, whatever the values,  *)
(* the padding between them and the sizes of the buffers.                  *)
THEOREM DecodingImplementsRows == Spec => RowSpec
<1>1. Init => Rows!Init
  BY DEF Init, Rows!Init, Status, Halted
<1>2. IInv /\ RInv /\ [Next]_vars => RInv'
  BY NextRows
<1>3. IInv /\ RInv /\ [Next]_vars => [Rows!Next]_Rows!reportVars
  BY StepReports
<1> QED
  BY <1>1, <1>2, <1>3, InitRows, Invariance, PTL DEF Spec, RowSpec, Rows!Spec

-----------------------------------------------------------------------------
(* The array of decoders: every decoder takes the place of a name and of   *)
(* the comma before it, but for the first.                                 *)

Lengths == [n \in 0..Len(input.types) |-> LengthUpTo(n)]
LongName(n) == input.types[n].length > 1
LongNameRead == \E n \in 1..named : LongName(n)

RoomForDecoders ==
  /\ named <= Len(input.types)
  /\ Len(callbacks) > 0 => TypesLength <= TypesMax
  /\ 2 * Len(callbacks) <= Lengths[named] + (IF LongNameRead THEN 0 ELSE 1)

LEMMA LengthsGrow ==
  ASSUME input \in Input
  PROVE  /\ Len(input.types) \in Nat
         /\ \A n \in 0..Len(input.types) : Lengths[n] \in Nat
         /\ Lengths[0] = 0 /\ Lengths[Len(input.types)] = TypesLength
         /\ \A n \in 1..Len(input.types) :
              /\ input.types[n].length \in Nat
              /\ Lengths[n] = Lengths[n - 1] + input.types[n].length
                                + (IF n > 1 THEN 1 ELSE 0)
         /\ \A m \in 0..Len(input.types) : \A n \in 0..m : Lengths[n] <= Lengths[m]
<1> DEFINE N == Len(input.types)
           L == Lengths
<1>1. N \in Nat /\ input.types \in Seq(TypeName)
  BY DEF Input
<1>2. \A n \in 1..N : input.types[n].length \in Nat
  <2>1. \A n \in 1..N : input.types[n] \in TypeName
    BY <1>1
  <2> QED
    BY <2>1 DEF TypeName
<1>3. \A n \in 0..N : L[n] = LengthUpTo(n)
  BY DEF Lengths
<1>4. /\ \A n \in 0..N : L[n] \in Nat
      /\ L[0] = 0 /\ L[N] = TypesLength
      /\ \A n \in 1..N : L[n] = L[n - 1] + input.types[n].length
                                  + (IF n > 1 THEN 1 ELSE 0)
  <2>1. 0 \in 0..N /\ N \in 0..N /\ \A n \in 1..N : n \in 0..N /\ n - 1 \in 0..N
    BY <1>1
  <2>2. /\ LengthUpTo(0) = 0
        /\ \A n \in 1..N : LengthUpTo(n) = LengthUpTo(n - 1) + input.types[n].length
                                             + (IF n > 1 THEN 1 ELSE 0)
        /\ \A n \in 0..N : LengthUpTo(n) \in Nat
    BY LengthSteps
  <2> HIDE DEF N, L
  <2>3. L[N] = TypesLength
    BY <1>3, <2>1 DEF TypesLength, N
  <2> QED
    BY <1>3, <2>1, <2>2, <2>3
<1> DEFINE S == {m \in 0..N : \A n \in 0..m : L[n] <= L[m]}
<1> HIDE DEF N, L
<1>5. 0 \in S
  BY <1>1, <1>4
<1>6. ASSUME NEW m \in 0..(N - 1), m \in S PROVE m + 1 \in S
  <2>1. m + 1 \in 1..N /\ m + 1 \in 0..N /\ (m + 1) - 1 = m /\ m \in 0..N
    BY <1>1
  <2>2. L[m] <= L[m + 1] /\ L[m] \in Nat /\ L[m + 1] \in Nat
    <3> DEFINE a == input.types[m + 1].length
               g == IF m + 1 > 1 THEN 1 ELSE 0
    <3>1. a \in Nat
      BY <1>2, <2>1
    <3>2. L[m + 1] = L[(m + 1) - 1] + a + g
      BY <1>4, <2>1
    <3>3. g \in Nat
      OBVIOUS
    <3>4. L[m] \in Nat /\ L[m + 1] \in Nat
      BY <1>4, <2>1
    <3> HIDE DEF a, g
    <3>5. L[m + 1] = L[m] + a + g
      BY <2>1, <3>2
    <3> QED
      BY <3>1, <3>3, <3>4, <3>5
  <2>3. ASSUME NEW n \in 0..(m + 1) PROVE L[n] <= L[m + 1]
    <3>1. CASE n = m + 1
      BY <2>2, <3>1
    <3>2. CASE n # m + 1
      <4>1. n \in 0..m /\ n \in 0..N
        BY <1>1, <1>6, <2>1, <2>3, <3>2
      <4>2. L[n] <= L[m] /\ L[n] \in Nat
        BY <1>4, <1>6, <4>1
      <4> QED
        BY <2>2, <4>2
    <3> QED
      BY <3>1, <3>2
  <2> QED
    BY <2>1, <2>3
<1>7. \A m \in 0..N : m \in S
  <2> HIDE DEF S
  <2> QED
    BY <1>1, <1>5, <1>6, InductionUpTo
<1>8. \A m \in 0..N : \A n \in 0..m : L[n] <= L[m]
  BY <1>7
<1> QED
  BY <1>1, <1>2, <1>4, <1>8 DEF N, L

(* Only reading the types changes the decoders.                            *)
LEMMA TypesKept ==
  ASSUME [Next]_vars
  PROVE  /\ input' = input
         /\ ~ParseTypes => named' = named /\ callbacks' = callbacks
<1>1. CASE ParseTypes
  BY <1>1 DEF ParseTypes, NamesTooLong, EmptyName, AddTypeCallback, UnknownName,
     NamesDone
<1>2. CASE FormatDecode \/ PastBlock \/ TuplesDone \/ BytesLeft \/ CopyFlush
  BY <1>2 DEF FormatDecode, PastBlock, TuplesDone, BytesLeft, CopyFlush
<1>3. CASE DecodeColumn
  BY <1>3 DEF DecodeColumn, NullColumn, OutOfBytes, DecodeFixed, DecodeChars,
     DecodeShort, DecodeIgnore, DecodeString
<1>4. CASE DecodeText
  BY <1>4 DEF DecodeText, SkipPadding, OnlyPadding, External, Fetch,
     FetchFails, FetchEnds, Short, Long, Compressed, BadText
<1>5. CASE CopyText
  BY <1>5 DEF CopyText, EncodeChar, EncodeTooLarge, EncodeDone, NoTab,
     AppendTooLarge, AppendFits, Enlarge, Double, Enlarged
<1>6. CASE UNCHANGED vars \/ Ended
  BY <1>6 DEF vars, Ended
<1> QED
  BY <1>1, <1>2, <1>3, <1>4, <1>5, <1>6 DEF Next

LEMMA NextRoom == IInv /\ RoomForDecoders /\ [Next]_vars => RoomForDecoders'
<1> SUFFICES ASSUME IInv, RoomForDecoders, [Next]_vars PROVE RoomForDecoders'
  OBVIOUS
<1>1. input' = input
  BY TypesKept
<1>2. /\ input \in Input /\ named \in Nat /\ callbacks \in Seq(Kinds)
      /\ Len(callbacks) \in Nat
  BY DEF IInv, TypeOK
<1>3. Lengths' = Lengths /\ TypesLength' = TypesLength
  BY <1>1 DEF Lengths, TypesLength, LengthUpTo
<1>4. CASE named' = named /\ callbacks' = callbacks
  <2>1. LongNameRead' <=> LongNameRead
    BY <1>1, <1>4 DEF LongNameRead, LongName
  <2> QED
    BY <1>1, <1>3, <1>4, <2>1 DEF RoomForDecoders
<1>5. CASE EmptyName \/ AddTypeCallback
  <2> DEFINE n == named + 1
             c == Len(callbacks)
             d == Len(callbacks')
             l == input.types[n].length
  <2>1. /\ named < Len(input.types) /\ named' = n /\ TypesLength <= TypesMax
        /\ EmptyName => l = 0 /\ callbacks' = callbacks
        /\ AddTypeCallback =>
             l > 0 /\ \E decoder : callbacks' = Append(callbacks, decoder)
    BY <1>5 DEF EmptyName, AddTypeCallback, AtName, NextName
  <2>2. EmptyName => d = c
    BY <2>1
  <2>3. AddTypeCallback => d = c + 1
    BY <1>2, <2>1
  <2>4. n \in 1..Len(input.types) /\ n <= Len(input.types) /\ n - 1 = named
        /\ named \in 0..Len(input.types)
    <3>1. Len(input.types) \in Nat
      BY <1>2, LengthsGrow
    <3> DEFINE N == Len(input.types)
    <3> HIDE DEF N
    <3>2. N \in Nat /\ named \in Nat /\ named < N
      BY <1>2, <2>1, <3>1 DEF N
    <3>3. n \in 1..N /\ n <= N /\ n - 1 = named /\ named \in 0..N
      BY <3>2
    <3> QED
      BY <3>3 DEF N
  <2>5. /\ Lengths[n] = Lengths[named] + l + (IF n > 1 THEN 1 ELSE 0)
        /\ Lengths[named] \in Nat /\ l \in Nat
        /\ named = 0 => Lengths[named] = 0
    <3>1. Lengths[n] = Lengths[n - 1] + l + (IF n > 1 THEN 1 ELSE 0) /\ l \in Nat
      BY <1>2, <2>4, LengthsGrow
    <3>2. Lengths[named] \in Nat /\ Lengths[0] = 0
      BY <1>2, <2>4, LengthsGrow
    <3> QED
      BY <2>4, <3>1, <3>2
  <2>6. LongNameRead' <=> LongNameRead \/ l > 1
    <3>1. LongNameRead' <=> \E m \in 1..n : LongName(m)
      BY <1>1, <2>1 DEF LongNameRead, LongName
    <3>2. \A m : m \in 1..n <=> m \in 1..named \/ m = n
      BY <1>2
    <3>3. LongName(n) <=> l > 1
      BY DEF LongName
    <3> HIDE DEF n, l
    <3> QED
      BY <3>1, <3>2, <3>3 DEF LongNameRead
  <2> DEFINE x == Lengths[named]
             y == Lengths[n]
             before == IF LongNameRead THEN 0 ELSE 1
             after == IF LongNameRead' THEN 0 ELSE 1
  <2>7. 2 * c <= x + before /\ before \in 0..1
    BY DEF RoomForDecoders
  <2>8. /\ after \in 0..1 /\ after <= before
        /\ l > 1 => after = 0
        /\ ~(l > 1) => after = before
    BY <2>6
  <2>9. /\ y = x + l + (IF n > 1 THEN 1 ELSE 0) /\ x \in Nat /\ l \in Nat
        /\ named = 0 => x = 0
    BY <2>5
  <2>10. c \in Nat /\ d \in Nat
    BY <1>2, <2>2, <2>3, <1>5
  <2>11. n > 1 \/ named = 0
    BY <1>2
  <2>12. (l = 0 /\ d = c) \/ (l > 0 /\ d = c + 1)
    BY <1>5, <2>1, <2>2, <2>3
  <2> HIDE DEF x, y, before, after, c, d, l
  <2>13. 2 * d <= y + after
    <3>1. CASE named = 0
      <4>1. ~(n > 1) /\ x = 0
        BY <2>9, <3>1 DEF n
      <4>2. y = l
        BY <2>9, <4>1
      <4>3. before = 1
        BY <3>1 DEF LongNameRead, before
      <4> HIDE DEF n
      <4> QED
        BY <2>7, <2>8, <2>9, <2>10, <2>12, <4>1, <4>2, <4>3
    <3>2. CASE named # 0
      <4>1. n > 1
        BY <2>11, <3>2
      <4>2. y = x + l + 1
        BY <2>9, <4>1
      <4> HIDE DEF n
      <4> QED
        BY <2>7, <2>8, <2>9, <2>10, <2>12, <4>2
    <3> QED
      BY <3>1, <3>2
  <2>14. 2 * Len(callbacks') <= Lengths[n] + (IF LongNameRead' THEN 0 ELSE 1)
    BY <2>13 DEF d, y, after
  <2> QED
    BY <1>1, <1>3, <2>1, <2>4, <2>14 DEF RoomForDecoders
<1>6. CASE ParseTypes
  BY <1>4, <1>5, <1>6 DEF ParseTypes, NamesTooLong, UnknownName, NamesDone
<1> QED
  BY <1>4, <1>6, TypesKept

LEMMA RoomSuffices == IInv /\ RoomForDecoders => CallbacksFit
<1> SUFFICES ASSUME IInv, RoomForDecoders,
                    NEW m \in 1..Len(input.types), input.types[m].length > 1
             PROVE  Len(callbacks) <= CallbackSlots
  BY DEF CallbacksFit
<1> DEFINE c == Len(callbacks)
           x == Lengths[named]
           t == TypesLength
           N == Len(input.types)
<1>1. /\ input \in Input /\ named \in Nat /\ callbacks \in Seq(Kinds) /\ c \in Nat
  BY DEF IInv, TypeOK
<1>2. /\ N \in Nat /\ named \in 0..N /\ x \in Nat /\ t \in Nat /\ x <= t
  <2>1. N \in Nat /\ named \in 0..N /\ N \in 0..N
    BY <1>1, LengthsGrow DEF RoomForDecoders
  <2>2. /\ \A i \in 0..N : Lengths[i] \in Nat
        /\ \A i \in 0..N : \A j \in 0..i : Lengths[j] <= Lengths[i]
        /\ Lengths[N] = t
    BY <1>1, LengthsGrow
  <2> HIDE DEF N
  <2> QED
    BY <2>1, <2>2
<1>3. TypesMax \in Nat
  BY LimitsAssumption
<1>4. c > 0 => t <= TypesMax
  BY DEF RoomForDecoders
<1>5. 2 * c <= t
  <2>1. CASE LongNameRead
    <3>1. 2 * c <= x + 0
      BY <2>1 DEF RoomForDecoders
    <3> HIDE DEF c, x, t, N
    <3> QED
      BY <1>1, <1>2, <3>1 DEF c
  <2>2. CASE ~LongNameRead
    <3>1. 2 * c <= x + 1
      BY <2>2 DEF RoomForDecoders
    <3>2. m - 1 \in 0..N /\ m \in 0..N /\ named \in 0..(m - 1)
      <4>1. ~(m \in 1..named)
        BY <2>2 DEF LongNameRead, LongName
      <4> QED
        BY <1>2, <4>1
    <3>3. /\ \A i \in 0..N : Lengths[i] \in Nat
          /\ \A i \in 0..N : \A j \in 0..i : Lengths[j] <= Lengths[i]
          /\ Lengths[N] = t
          /\ input.types[m].length \in Nat
          /\ Lengths[m] = Lengths[m - 1] + input.types[m].length
                            + (IF m > 1 THEN 1 ELSE 0)
      BY <1>1, LengthsGrow
    <3> DEFINE l == input.types[m].length
               p == Lengths[m - 1]
               q == Lengths[m]
    <3>4. /\ x <= p /\ p \in Nat /\ q \in Nat /\ q <= t
      <4>1. N \in 0..N /\ m \in 0..N
        BY <1>2, <3>2
      <4> HIDE DEF N
      <4> QED
        BY <3>2, <3>3, <4>1
    <3>5. l > 1 /\ l \in Nat /\ q >= p + l
      BY <3>3, <3>4
    <3> HIDE DEF c, x, t, N, l, p, q
    <3> QED
      BY <1>1, <1>2, <3>1, <3>4, <3>5 DEF c
  <2> QED
    BY <2>1, <2>2
<1> HIDE DEF c, x, t, N
<1>6. 2 * c <= TypesMax
  BY <1>1, <1>2, <1>3, <1>4, <1>5
<1>7. c <= TypesMax \div 2
  BY <1>1, <1>3, <1>6
<1> QED
  BY <1>7 DEF CallbackSlots, c

(* The array of decoders is never too short for a list of types that has a *)
(* name of more than one character, however many names it has.             *)
THEOREM ArrayHoldsDecoders == Spec => []CallbacksFit
<1>1. Init => RoomForDecoders
  <2> SUFFICES ASSUME Init PROVE RoomForDecoders
    OBVIOUS
  <2>1. input \in Input /\ named = 0 /\ callbacks = <<>>
    BY InputsAssumption DEF Init
  <2>2. Lengths[0] = 0 /\ Len(input.types) \in Nat
    BY <2>1, LengthsGrow
  <2>3. ~LongNameRead /\ Len(callbacks) = 0
    BY <2>1 DEF LongNameRead
  <2> QED
    BY <2>1, <2>2, <2>3 DEF RoomForDecoders
<1>2. IInv /\ RoomForDecoders /\ [Next]_vars => RoomForDecoders'
  BY NextRoom
<1>3. IInv /\ RoomForDecoders => CallbacksFit
  BY RoomSuffices
<1> QED
  BY <1>1, <1>2, <1>3, Invariance, PTL DEF Spec

-----------------------------------------------------------------------------
(* Columns of fixed size: the decoders pass as many bytes as the server    *)
(* writes for them, no more than the unsigned word holds.                  *)

(* The word is wider than what the decoders can span, 23 bytes beyond the  *)
(* longest value being more than any padding or other value, and t_hoff.   *)
(* In the program 1024 * 87 + 255 is below 2^32.                           *)
WordHolds ==
  \A i \in Inputs : \A n \in 1..Len(i.tuples) :
    TypesMax * (NameLen + 23) + i.tuples[n].hoff < WordRange

FixedTypes ==
  AllNamesKnown /\ \A n \in 1..Len(Given) : Given[n] \in FixedKinds
Ends == [n \in 0..Len(Given) |-> FixedUpTo(Current, n)]

(* What has been passed is what the columns so far take.                   *)
AtFixed ==
  /\ pc # "string"
  /\ col \in 1..(Len(Given) + 1)
  /\ pc # "column" => col <= Len(Given)
  /\ pos = Ends[IF pc = "column" THEN col - 1 ELSE col]
  /\ pos + size = Wrap(Current.len - Current.hoff)

LengthDue == [n \in 1..Len(input.tuples) |-> FixedLength(input.tuples[n])]
RefusedAt(n) ==
  input.tuples[n].len - input.tuples[n].hoff # LengthDue[n]
    => reports[n].kind = "error"

FixedInv ==
  FixedTypes =>
    /\ pc \in Working => AtFixed
    /\ \A n \in 1..Len(reports) : RefusedAt(n)

LEMMA Multiples ==
  ASSUME NEW a \in Nat, NEW b \in Nat, NEW m \in Nat, a <= b
  PROVE  a * m \in Nat /\ a * m <= b * m
<1> DEFINE d == b - a
<1>1. d \in Nat /\ b = a + d
  OBVIOUS
<1> HIDE DEF d
<1>2. (a + d) * m = a * m + d * m
  BY <1>1
<1>3. a * m \in Nat /\ d * m \in Nat
  BY <1>1
<1> QED
  BY <1>1, <1>2, <1>3

(* No value and its padding take more than 23 bytes beyond a name.         *)
LEMMA LayoutBound ==
  ASSUME NEW kind \in FixedKinds, NEW a \in Nat
  PROVE  Padding(a, LayoutOf(kind).align) + LayoutOf(kind).size <= NameLen + 23
<1>1. \A l \in Layouts : l.size <= NameLen + 16
  BY LimitsAssumption
     DEF Layouts, IntegerLayouts, TimeLayouts, FloatLayouts, OctetLayouts,
         CharLayouts, Layout
<1>2. \E l \in Layouts : l.kind = kind
  BY DEF FixedKinds
<1>3. LayoutOf(kind).size <= NameLen + 16
  <2>1. LayoutOf(kind) \in Layouts
    BY <1>2 DEF LayoutOf
  <2> QED
    BY <1>1, <2>1
<1>4. LayoutOf(kind).size \in Nat /\ LayoutOf(kind).align \in {1, 2, 4, 8}
  BY LayoutType
<1>5. Padding(a, LayoutOf(kind).align) \in 0..7
  BY <1>4 DEF Padding
<1> QED
  BY <1>3, <1>4, <1>5, LimitsAssumption

(* The decoders and where the columns end, while a tuple is decoded.       *)
LEMMA FixedHere ==
  ASSUME IInv, RInv, FixedTypes, pc \in Working
  PROVE  /\ callbacks = Given /\ Len(Given) \in Nat
         /\ Current.at \in Nat /\ Current.hoff \in Nat /\ Current.len \in Nat
         /\ Ends[0] = 0 /\ Ends[Len(Given)] = FixedLength(Current)
         /\ \A n \in 0..Len(Given) : Ends[n] \in Nat
         /\ \A n \in 1..Len(Given) :
              Ends[n] =
                IF n \in Current.nulls THEN Ends[n - 1]
                ELSE Ends[n - 1]
                       + Padding(Current.at + Ends[n - 1], LayoutOf(Given[n]).align)
                       + LayoutOf(Given[n]).size
<1>1. input \in Input /\ AllNamesKnown /\ Len(input.types) \in Nat
  BY DEF IInv, TypeOK, FixedTypes, Input
<1>2. Len(Given) \in Nat
  BY <1>1, ShownType
<1>3. callbacks = Given
  <2>1. named = Len(input.types) /\ callbacks = Asked[named]
    BY <1>1 DEF RInv, TypesRead, DecodersGiven
  <2> QED
    BY <1>1, <2>1 DEF Asked, Given
<1>4. Current.at \in Nat /\ Current.hoff \in Nat /\ Current.len \in Nat
  BY CurrentType DEF IInv, TupleAtHand
<1>5. /\ FixedUpTo(Current, 0) = 0
      /\ \A n \in 1..Len(Given) :
           FixedUpTo(Current, n) =
             IF n \in Current.nulls THEN FixedUpTo(Current, n - 1)
             ELSE FixedUpTo(Current, n - 1)
                    + Padding(Current.at + FixedUpTo(Current, n - 1),
                              LayoutOf(Given[n]).align)
                    + LayoutOf(Given[n]).size
      /\ \A n \in 0..Len(Given) : FixedUpTo(Current, n) \in Nat
  <2> DEFINE t == Current
  <2>1. t.at \in Nat
    BY <1>4
  <2> HIDE DEF t
  <2>2. /\ FixedUpTo(t, 0) = 0
        /\ \A n \in 1..Len(Given) :
             FixedUpTo(t, n) =
               IF n \in t.nulls THEN FixedUpTo(t, n - 1)
               ELSE FixedUpTo(t, n - 1)
                      + Padding(t.at + FixedUpTo(t, n - 1), LayoutOf(Given[n]).align)
                      + LayoutOf(Given[n]).size
        /\ \A n \in 0..Len(Given) : FixedUpTo(t, n) \in Nat
    BY <1>1, <2>1, FixedSteps DEF FixedTypes
  <2> QED
    BY <2>2 DEF t
<1>6. /\ \A n \in 0..Len(Given) : Ends[n] = FixedUpTo(Current, n)
      /\ \A n \in 1..Len(Given) : n \in 0..Len(Given) /\ n - 1 \in 0..Len(Given)
      /\ 0 \in 0..Len(Given) /\ Len(Given) \in 0..Len(Given)
  BY <1>2 DEF Ends
<1>7. FixedLength(Current) = FixedUpTo(Current, Len(Given))
  BY DEF FixedLength
<1>8. ASSUME NEW n \in 1..Len(Given)
      PROVE  Ends[n] =
               IF n \in Current.nulls THEN Ends[n - 1]
               ELSE Ends[n - 1]
                      + Padding(Current.at + Ends[n - 1], LayoutOf(Given[n]).align)
                      + LayoutOf(Given[n]).size
  <2>1. Ends[n] = FixedUpTo(Current, n) /\ Ends[n - 1] = FixedUpTo(Current, n - 1)
    BY <1>6
  <2> QED
    BY <1>5, <2>1, Zenon
<1>9. \A n \in 0..Len(Given) : Ends[n] \in Nat
  BY <1>5, <1>6
<1>10. Ends[0] = 0 /\ Ends[Len(Given)] = FixedLength(Current)
  BY <1>5, <1>6, <1>7
<1> QED
  BY <1>2, <1>3, <1>4, <1>8, <1>9, <1>10

(* The columns take no more than the list of types allows.                 *)
LEMMA FixedBound ==
  ASSUME IInv, RInv, RoomForDecoders, FixedTypes, pc \in Working
  PROVE  FixedLength(Current) <= TypesMax * (NameLen + 23)
<1> DEFINE M == NameLen + 23
           N == Len(Given)
           E == Ends
           S == {n \in 0..N : E[n] <= n * M}
           Take(n) == Padding(Current.at + E[n - 1], LayoutOf(Given[n]).align)
                       + LayoutOf(Given[n]).size
<1>1. /\ N \in Nat /\ callbacks = Given
      /\ E[0] = 0 /\ E[N] = FixedLength(Current)
      /\ \A n \in 0..N : E[n] \in Nat
      /\ \A n \in 1..N :
           E[n] = IF n \in Current.nulls THEN E[n - 1]
                  ELSE E[n - 1]
                         + Padding(Current.at + E[n - 1], LayoutOf(Given[n]).align)
                         + LayoutOf(Given[n]).size
      /\ Current.at \in Nat
  BY FixedHere
<1>2. M \in Nat /\ TypesMax \in Nat
  BY LimitsAssumption
<1>3. N <= TypesMax
  <2> DEFINE x == Lengths[named]
             y == TypesLength
  <2>1. /\ N > 0 => y <= TypesMax
        /\ 2 * N <= x + (IF LongNameRead THEN 0 ELSE 1)
    BY <1>1 DEF RoomForDecoders
  <2>2. x \in Nat /\ y \in Nat /\ x <= y
    <3>1. named \in 0..Len(input.types) /\ input \in Input
      BY DEF RoomForDecoders, IInv, TypeOK, Input
    <3>2. /\ \A i \in 0..Len(input.types) : Lengths[i] \in Nat
          /\ \A i \in 0..Len(input.types) : \A j \in 0..i : Lengths[j] <= Lengths[i]
          /\ Lengths[Len(input.types)] = y
          /\ Len(input.types) \in 0..Len(input.types)
      BY <3>1, LengthsGrow
    <3> QED
      BY <3>1, <3>2
  <2>3. 2 * N <= x + 1
    <3> HIDE DEF N, x, y
    <3> QED
      BY <1>1, <2>1, <2>2
  <2> HIDE DEF N, x, y
  <2> QED
    BY <1>1, <1>2, <2>1, <2>2, <2>3
<1>4. \A n \in 1..N : Take(n) \in Nat /\ Take(n) <= M
  <2> SUFFICES ASSUME NEW n \in 1..N PROVE Take(n) \in Nat /\ Take(n) <= M
    OBVIOUS
  <2>1. Current.at + E[n - 1] \in Nat
    BY <1>1
  <2>2. Given[n] \in FixedKinds
    BY DEF FixedTypes
  <2>3. LayoutOf(Given[n]).size \in Nat /\ LayoutOf(Given[n]).align \in {1, 2, 4, 8}
    BY <2>2, LayoutType
  <2>4. Padding(Current.at + E[n - 1], LayoutOf(Given[n]).align) \in Nat
    BY <2>1, <2>3, PaddingType
  <2>5. Padding(Current.at + E[n - 1], LayoutOf(Given[n]).align)
          + LayoutOf(Given[n]).size <= NameLen + 23
    BY <2>1, <2>2, LayoutBound
  <2> QED
    BY <2>3, <2>4, <2>5
<1>5. \A n \in 1..N : E[n] = E[n - 1] \/ E[n] = E[n - 1] + Take(n)
  <2> SUFFICES ASSUME NEW n \in 1..N
               PROVE  E[n] = E[n - 1] \/ E[n] = E[n - 1] + Take(n)
    OBVIOUS
  <2>1. Current.at + E[n - 1] \in Nat /\ E[n - 1] \in Nat
    BY <1>1
  <2>2. Given[n] \in FixedKinds
    BY DEF FixedTypes
  <2>3. LayoutOf(Given[n]).size \in Nat /\ LayoutOf(Given[n]).align \in {1, 2, 4, 8}
    BY <2>2, LayoutType
  <2>4. Padding(Current.at + E[n - 1], LayoutOf(Given[n]).align) \in Nat
    BY <2>1, <2>3, PaddingType
  <2> QED
    BY <1>1, <2>1, <2>3, <2>4
<1> HIDE DEF M, E, Take
<1>6. 0 \in S
  <2>1. 0 * M = 0
    BY <1>2
  <2> HIDE DEF N
  <2> QED
    BY <1>1, <2>1
<1>7. \A n \in 0..(N - 1) : n \in S => n + 1 \in S
  <2> SUFFICES ASSUME NEW n \in 0..(N - 1), n \in S PROVE n + 1 \in S
    OBVIOUS
  <2>1. n \in Nat /\ n + 1 \in 1..N /\ n + 1 \in 0..N /\ (n + 1) - 1 = n /\ n \in 0..N
    <3> HIDE DEF N
    <3> QED
      BY <1>1
  <2>2. (n + 1) * M = n * M + M /\ n * M \in Nat
    BY <1>2, <2>1
  <2>3. E[n] <= n * M /\ E[n] \in Nat
    BY <1>1, <2>1
  <2>4. E[n + 1] = E[n] \/ E[n + 1] = E[n] + Take(n + 1)
    BY <1>5, <2>1
  <2>5. Take(n + 1) \in Nat /\ Take(n + 1) <= M
    BY <1>4, <2>1
  <2>6. E[n + 1] <= n * M + M
    BY <1>2, <2>2, <2>3, <2>4, <2>5
  <2> QED
    BY <2>1, <2>2, <2>6
<1>8. N \in S
  <2> HIDE DEF S
  <2>1. \A n \in 0..N : n \in S
    <3> HIDE DEF N
    <3> QED
      BY <1>1, <1>6, <1>7, InductionUpTo
  <2> HIDE DEF N
  <2> QED
    BY <1>1, <2>1
<1>9. N * M \in Nat /\ N * M <= TypesMax * M
  BY <1>1, <1>2, <1>3, Multiples
<1>10. E[N] <= N * M /\ E[N] \in Nat
  BY <1>1, <1>8
<1>11. TypesMax * M \in Nat
  BY <1>2
<1> QED
  BY <1>1, <1>9, <1>10, <1>11 DEF M

(* A column is passed as the server laid it out.                           *)
LEMMA FixedColumn ==
  ASSUME IInv, RInv, FixedTypes, AtFixed, DecodeColumn, k' = k
  PROVE  AtFixed'
<1>1. /\ pc = "column" /\ pc \in Working /\ col <= Len(callbacks)
      /\ UNCHANGED <<input, callbacks>>
      /\ col \in Nat \ {0} /\ k \in Nat /\ pos \in Nat
      /\ size \in Nat /\ size < WordRange /\ WordRange \in Nat
  <2>1. pc = "column" /\ col <= Len(callbacks) /\ UNCHANGED <<input, callbacks>>
    BY DEF DecodeColumn, NullColumn, OutOfBytes, DecodeFixed, DecodeChars,
       DecodeShort, DecodeIgnore, DecodeString, Decoding, AtColumn
  <2>2. /\ col \in Nat \ {0} /\ k \in Nat /\ pos \in Nat
        /\ size \in Nat /\ size < WordRange /\ WordRange \in Nat
    BY LimitsAssumption DEF IInv, TypeOK
  <2> QED
    BY <2>1, <2>2 DEF Working
<1>2. /\ callbacks = Given /\ Len(Given) \in Nat /\ Current.at \in Nat
      /\ \A n \in 0..Len(Given) : Ends[n] \in Nat
      /\ \A n \in 1..Len(Given) :
           Ends[n] =
             IF n \in Current.nulls THEN Ends[n - 1]
             ELSE Ends[n - 1]
                    + Padding(Current.at + Ends[n - 1], LayoutOf(Given[n]).align)
                    + LayoutOf(Given[n]).size
  BY <1>1, FixedHere
<1>3. /\ col \in 1..Len(Given) /\ callbacks[col] \in FixedKinds
      /\ col <= Len(Given) /\ col \in 1..(Len(Given) + 1)
  <2>1. col \in 1..Len(Given) /\ col \in 1..(Len(Given) + 1)
    BY <1>1, <1>2
  <2> QED
    BY <1>2, <2>1 DEF FixedTypes
<1>4. pos = Ends[col - 1] /\ pos + size = Wrap(Current.len - Current.hoff)
  BY <1>1 DEF AtFixed
<1>5. /\ Current' = Current /\ Given' = Given /\ Ends' = Ends
      /\ Wrap(Current.len - Current.hoff)' = Wrap(Current.len - Current.hoff)
  <2>1. Current' = Current /\ Given' = Given
    BY <1>1, SameTuple, SameTypes
  <2> QED
    BY <2>1 DEF Ends, FixedUpTo, Wrap
<1>6. CASE NullColumn
  <2>1. /\ col' = col /\ pos' = pos /\ size' = size /\ pc' = "tab"
        /\ col \in Current.nulls
    BY <1>6 DEF NullColumn, AppendText
  <2>2. pos = Ends[col]
    BY <1>2, <1>3, <1>4, <2>1
  <2> QED
    BY <1>3, <1>4, <1>5, <2>1, <2>2 DEF AtFixed
<1>7. CASE DecodeFixed \/ DecodeChars
  <2>1. /\ col' = col /\ pc' \in {"tab", "encode"} /\ col \notin Current.nulls
        /\ ValueEnd - pos <= size
        /\ pos' = ValueEnd /\ size' = Wrap(size - (ValueEnd - pos))
    BY <1>7 DEF DecodeFixed, DecodeChars, Decoding, AppendText, EncodeText, Advance,
       ValueFits
  <2>2. ValueEnd = Ends[col] /\ ValueEnd \in Nat /\ ValueEnd >= pos
    <3> DEFINE p == Padding(Current.at + pos, LayoutOf(Given[col]).align)
               s == LayoutOf(Given[col]).size
    <3>1. s \in Nat /\ LayoutOf(Given[col]).align \in {1, 2, 4, 8}
      BY <1>2, <1>3, LayoutType
    <3>2. p \in Nat
      <4>1. Current.at + pos \in Nat
        BY <1>1, <1>2
      <4> QED
        BY <3>1, <4>1, PaddingType
    <3>3. ValueEnd = pos + p + s
      BY <1>2 DEF ValueEnd, ValueStart
    <3>4. Ends[col] = pos + p + s
      BY <1>2, <1>3, <1>4, <2>1
    <3> HIDE DEF p, s
    <3> QED
      BY <1>1, <3>1, <3>2, <3>3, <3>4
  <2>3. size' = size - (ValueEnd - pos)
    <3>1. size - (ValueEnd - pos) \in Nat /\ size - (ValueEnd - pos) < WordRange
      BY <1>1, <2>1, <2>2
    <3> QED
      BY <2>1, <3>1, WrapExact
  <2>4. pos' + size' = pos + size
    BY <1>1, <2>1, <2>2, <2>3
  <2> QED
    BY <1>3, <1>4, <1>5, <2>1, <2>2, <2>4 DEF AtFixed
<1>8. ~OutOfBytes /\ ~DecodeShort
  <2>1. k + 1 # k
    BY <1>1
  <2> QED
    BY <2>1 DEF OutOfBytes, DecodeShort, ReportAs
<1>9. ~DecodeIgnore /\ ~DecodeString
  BY <1>3, KindsDiffer DEF DecodeIgnore, DecodeString, Decoding
<1> QED
  BY <1>6, <1>7, <1>8, <1>9 DEF DecodeColumn

(* Copying a text passes nothing.                                          *)
LEMMA FixedCopied ==
  ASSUME IInv, RInv, FixedTypes, AtFixed, CopyText, pc' \in Working
  PROVE  AtFixed'
<1>1. /\ resume \in {"tab", "append"} /\ col \in Nat
      /\ UNCHANGED <<input, k, pos, size>>
  <2>1. resume \in {"tab", "append"} /\ col \in Nat
    BY DEF IInv, TypeOK
  <2> QED
    BY <2>1 DEF CopyText, EncodeChar, EncodeTooLarge, EncodeDone, NoTab,
       AppendTooLarge, AppendFits, Enlarge, Double, Enlarged
<1>2. /\ pc \in {"encode", "tab", "append", "enlarge"}
      /\ \/ col' = col /\ pc' \in {"encode", "tab", "append", "enlarge"}
         \/ col' = col + 1 /\ pc' = "column"
  BY <1>1 DEF CopyText, EncodeChar, EncodeTooLarge, EncodeDone, NoTab,
       AppendTooLarge, AppendFits, Enlarge, Double, Enlarged, Appending, buffers,
       Working
<1>3. /\ Given' = Given /\ Ends' = Ends
      /\ Wrap(Current.len - Current.hoff)' = Wrap(Current.len - Current.hoff)
  <2>1. Current' = Current /\ Given' = Given
    BY <1>1, SameTuple, SameTypes
  <2> QED
    BY <2>1 DEF Ends, FixedUpTo, Wrap
<1>4. Len(Given) \in Nat /\ col \in 1..Len(Given) /\ pos = Ends[col]
  <2>1. Len(Given) \in Nat
    BY ShownType DEF IInv, TypeOK, FixedTypes
  <2> QED
    BY <1>2, <2>1 DEF AtFixed
<1>5. (col + 1) - 1 = col /\ col + 1 \in 1..(Len(Given) + 1)
      /\ col \in 1..(Len(Given) + 1) /\ col <= Len(Given)
  BY <1>4
<1>6. CASE col' = col /\ pc' \in {"encode", "tab", "append", "enlarge"}
  BY <1>1, <1>3, <1>4, <1>5, <1>6 DEF AtFixed
<1>7. CASE col' = col + 1 /\ pc' = "column"
  BY <1>1, <1>3, <1>4, <1>5, <1>7 DEF AtFixed
<1> QED
  BY <1>2, <1>6, <1>7

(* A row is only printed of a tuple of the right length.                   *)
LEMMA FixedReported ==
  ASSUME IInv, RInv, RoomForDecoders, WordHolds, FixedTypes, AtFixed,
         CopyFlush
  PROVE  Current.len - Current.hoff = FixedLength(Current)
<1>1. pc = "column" /\ pc \in Working /\ col > Len(callbacks) /\ size = 0
  BY DEF CopyFlush, AtEnd, Working
<1>2. /\ callbacks = Given /\ Len(Given) \in Nat
      /\ Current.hoff \in Nat /\ Current.len \in Nat
      /\ Ends[Len(Given)] = FixedLength(Current)
      /\ \A n \in 0..Len(Given) : Ends[n] \in Nat
  BY <1>1, FixedHere
<1>3. FixedLength(Current) = Wrap(Current.len - Current.hoff)
  <2>1. col - 1 = Len(Given) /\ col \in Nat
    BY <1>1, <1>2 DEF AtFixed
  <2>2. pos = FixedLength(Current) /\ pos \in Nat
    BY <1>1, <1>2, <2>1 DEF AtFixed, IInv, TypeOK
  <2> QED
    BY <1>1, <2>2 DEF AtFixed
<1>4. FixedLength(Current) + Current.hoff < WordRange
  <2>1. k \in 1..Len(input.tuples) /\ input \in Inputs
    BY <1>1 DEF IInv, TypeOK, TupleAtHand, Input
  <2>2. TypesMax * (NameLen + 23) + Current.hoff < WordRange
    BY <2>1 DEF WordHolds, Current
  <2>3. FixedLength(Current) <= TypesMax * (NameLen + 23)
    BY <1>1, FixedBound
  <2>4. FixedLength(Current) \in Nat
    BY <1>2
  <2> DEFINE b == TypesMax * (NameLen + 23)
  <2>5. b \in Nat /\ WordRange \in Nat
    BY LimitsAssumption
  <2> HIDE DEF b
  <2> QED
    BY <1>2, <2>2, <2>3, <2>4, <2>5 DEF b
<1>5. Current.len < WordRange /\ Current.hoff < WordRange /\ WordRange \in Nat \ {0}
  BY <1>1, CurrentType, LimitsAssumption DEF IInv, TupleAtHand
<1>6. Current.hoff <= Current.len
  <2> SUFFICES ASSUME Current.hoff > Current.len PROVE FALSE
    BY <1>2
  <2> DEFINE n == Current.len - Current.hoff
  <2>1. n \in Int /\ n < 0 /\ -WordRange < n
    BY <1>2, <1>5
  <2>2. Wrap(n) = n + WordRange
    <3> HIDE DEF n
    <3>1. n + WordRange \in 0..(WordRange - 1)
      BY <1>5, <2>1
    <3>2. n % WordRange = n + WordRange
      BY <1>5, <2>1, <3>1
    <3> QED
      BY <3>2 DEF Wrap
  <2>3. FixedLength(Current) = Current.len - Current.hoff + WordRange
    BY <1>3, <2>2
  <2> QED
    BY <1>2, <1>4, <1>5, <2>3
<1>7. Wrap(Current.len - Current.hoff) = Current.len - Current.hoff
  <2>1. /\ Current.len - Current.hoff \in Nat
        /\ Current.len - Current.hoff < WordRange
    BY <1>2, <1>5, <1>6
  <2> QED
    BY <2>1, WrapExact
<1> QED
  BY <1>3, <1>7

LEMMA FixedQuiet ==
  ASSUME IInv, RInv, FixedTypes, pc \in Working => AtFixed, [Next]_vars, k' = k,
         pc' \in Working
  PROVE  AtFixed'
<1>1. k + 1 # k
  BY DEF IInv, TypeOK
<1>2. CASE DecodeColumn
  <2>1. pc \in Working
    BY <1>2 DEF DecodeColumn, NullColumn, OutOfBytes, DecodeFixed, DecodeChars,
       DecodeShort, DecodeIgnore, DecodeString, Decoding, AtColumn, Working
  <2> QED
    BY <1>2, <2>1, FixedColumn
<1>3. CASE CopyText
  <2>1. pc \in Working
    BY <1>3 DEF CopyText, EncodeChar, EncodeTooLarge, EncodeDone, NoTab,
       AppendTooLarge, AppendFits, Enlarge, Double, Enlarged, Appending, Working
  <2> QED
    BY <1>3, <2>1, FixedCopied
<1>4. CASE DecodeText
  <2>1. pc = "string"
    BY <1>4 DEF DecodeText, SkipPadding, OnlyPadding, External, Fetch, FetchFails,
       FetchEnds, Short, Long, Compressed, BadText, AtPadding, AtText, AtPointer
  <2> QED
    BY <2>1 DEF AtFixed, Working
<1>5. CASE FormatDecode
  <2>1. /\ k <= Len(input.tuples) /\ pos' = 0 /\ col' = 1 /\ pc' = "column"
        /\ size' = Wrap(Current.len - Current.hoff) /\ UNCHANGED input
    BY <1>5 DEF FormatDecode
  <2>2. Current' = Current /\ Given' = Given
    BY <2>1, SameTuple, SameTypes
  <2>3. Ends' = Ends /\ Wrap(Current.len - Current.hoff)' = size'
    BY <2>1, <2>2 DEF Ends, FixedUpTo, Wrap
  <2>4. Current.at \in Nat /\ Current.len \in Nat /\ Current.hoff \in Nat
    BY <2>1, CurrentType DEF IInv
  <2>5. Len(Given) \in Nat
    BY ShownType DEF IInv, TypeOK, FixedTypes
  <2>6. Ends[0] = 0
    <3> DEFINE t == Current
    <3>1. t.at \in Nat
      BY <2>4
    <3> HIDE DEF t
    <3>2. FixedUpTo(t, 0) = 0
      BY <3>1, FixedSteps DEF IInv, TypeOK, FixedTypes
    <3>3. 0 \in 0..Len(Given)
      BY <2>5
    <3> QED
      BY <3>2, <3>3 DEF Ends, t
  <2>7. size' \in Nat
    <3>1. Current.len - Current.hoff \in Int
      BY <2>4
    <3>2. Wrap(Current.len - Current.hoff) \in 0..(WordRange - 1)
      BY <3>1, WrapType
    <3> QED
      BY <2>1, <3>2, LimitsAssumption
  <2>8. 1 \in 1..(Len(Given) + 1) /\ 1 - 1 = 0 /\ 0 + size' = size'
    <3>1. 1 \in 1..(Len(Given) + 1)
      BY <2>5
    <3>2. 1 - 1 = 0 /\ \A x \in Nat : 0 + x = x
      OBVIOUS
    <3> QED
      BY <2>7, <3>1, <3>2, Zenon
  <2> QED
    BY <2>1, <2>2, <2>3, <2>6, <2>8 DEF AtFixed
<1>6. CASE PastBlock \/ TuplesDone
  BY <1>6 DEF PastBlock, TuplesDone, Working
<1>7. CASE ParseTypes
  BY <1>7, TypesGiven DEF Working
<1>8. CASE BytesLeft \/ CopyFlush
  BY <1>1, <1>8 DEF BytesLeft, CopyFlush, ReportAs
<1>9. CASE UNCHANGED vars \/ Ended
  <2>1. UNCHANGED <<input, k, col, pos, size, pc>>
    BY <1>9 DEF vars, Ended
  <2>2. Current' = Current /\ Given' = Given
    BY <2>1, SameTuple, SameTypes
  <2>3. /\ Ends' = Ends
        /\ Wrap(Current.len - Current.hoff)' = Wrap(Current.len - Current.hoff)
    BY <2>2 DEF Ends, FixedUpTo, Wrap
  <2> QED
    BY <2>1, <2>2, <2>3 DEF AtFixed
<1> QED
  BY <1>2, <1>3, <1>4, <1>5, <1>6, <1>7, <1>8, <1>9 DEF Next

(* Every report but that of CopyFlush is an error.                         *)
LEMMA OtherReports ==
  ASSUME IInv, [Next]_vars, k' # k, ~CopyFlush
  PROVE  ReportAs("error")
<1>1. CASE BytesLeft
  BY <1>1 DEF BytesLeft
<1>2. CASE DecodeColumn
  BY <1>2 DEF DecodeColumn, NullColumn, OutOfBytes, DecodeFixed, DecodeChars,
     DecodeShort, DecodeIgnore, DecodeString
<1>3. CASE DecodeText
  BY <1>3 DEF DecodeText, SkipPadding, OnlyPadding, External, Fetch, FetchFails,
     FetchEnds, Short, Long, Compressed, BadText
<1>4. CASE CopyText
  BY <1>4 DEF CopyText, EncodeChar, EncodeTooLarge, EncodeDone, NoTab,
     AppendTooLarge, AppendFits, Enlarge, Double, Enlarged
<1>5. CASE ParseTypes \/ FormatDecode \/ PastBlock \/ TuplesDone \/ Ended
             \/ UNCHANGED vars
  BY <1>5 DEF ParseTypes, NamesTooLong, EmptyName, AddTypeCallback, UnknownName,
     NamesDone, FormatDecode, PastBlock, TuplesDone, Ended, vars
<1> QED
  BY <1>1, <1>2, <1>3, <1>4, <1>5 DEF Next

LEMMA NextFixed ==
  IInv /\ RInv /\ RoomForDecoders /\ WordHolds /\ FixedInv /\ [Next]_vars
    => FixedInv'
<1> SUFFICES ASSUME IInv, RInv, RoomForDecoders, WordHolds, FixedInv, [Next]_vars,
                    FixedTypes'
             PROVE  /\ pc' \in Working => AtFixed'
                    /\ \A n \in 1..Len(reports') : RefusedAt(n)'
  BY DEF FixedInv
<1>1. input' = input
  BY TypesKept
<1>2. Given' = Given /\ FixedTypes
  BY <1>1, SameTypes DEF FixedTypes
<1>3. /\ pc \in Working => AtFixed
      /\ \A n \in 1..Len(reports) : RefusedAt(n)
  BY <1>2 DEF FixedInv
<1>4. LengthDue' = LengthDue
  BY <1>1, <1>2 DEF LengthDue, FixedLength, FixedUpTo
<1>5. CASE k' = k
  <2>1. reports' = reports
    BY <1>5, QuietStep
  <2>2. \A n \in 1..Len(reports') : RefusedAt(n)'
    BY <1>1, <1>3, <1>4, <2>1 DEF RefusedAt
  <2>3. pc' \in Working => AtFixed'
    BY <1>2, <1>3, <1>5, FixedQuiet
  <2> QED
    BY <2>2, <2>3
<1>6. CASE k' # k
  <2>1. /\ k \in 1..Len(input.tuples) /\ pc \in Working /\ pc' = "tuple"
        /\ Len(reports) = k - 1 /\ Len(reports') = k
    BY <1>6, KnownReported
  <2>2. PICK kind : reports' = Append(reports, [kind |-> kind, line |-> line])
    BY <1>6, KnownReported
  <2>3. reports \in Seq([kind : {"row", "error"}, line : Seq(Symbol)]) /\ k \in Nat
    BY DEF IInv, TypeOK
  <2>4. \A n \in 1..Len(reports') :
          n = k \/ (n \in 1..Len(reports) /\ reports'[n] = reports[n])
    BY <2>1, <2>2, <2>3
  <2>5. reports'[k].kind = kind
    <3>1. reports'[k] = [kind |-> kind, line |-> line]
      BY <2>1, <2>2, <2>3
    <3> QED
      BY <3>1
  <2>6. Current.len - Current.hoff # FixedLength(Current) => kind = "error"
    <3> SUFFICES ASSUME Current.len - Current.hoff # FixedLength(Current)
                 PROVE  kind = "error"
      OBVIOUS
    <3>1. ~CopyFlush
      BY <1>2, <1>3, <2>1, FixedReported
    <3>2. reports' = Append(reports, [kind |-> "error", line |-> line])
      BY <1>6, <3>1, OtherReports DEF ReportAs
    <3>3. reports'[k] = [kind |-> "error", line |-> line]
      BY <2>1, <2>3, <3>2
    <3> QED
      BY <2>5, <3>3
  <2>7. \A n \in 1..Len(reports') : n = k => RefusedAt(n)'
    <3>1. input.tuples[k] = Current /\ LengthDue[k] = FixedLength(Current)
      BY <2>1 DEF Current, LengthDue
    <3> QED
      BY <1>1, <1>4, <2>5, <2>6, <3>1 DEF RefusedAt
  <2>8. \A n \in 1..Len(reports') : RefusedAt(n)'
    <3>1. \A n \in 1..Len(reports) : reports'[n] = reports[n] => RefusedAt(n)'
      BY <1>1, <1>3, <1>4 DEF RefusedAt
    <3> QED
      BY <2>4, <2>7, <3>1
  <2> QED
    BY <2>1, <2>8 DEF Working
<1> QED
  BY <1>5, <1>6

LEMMA InitRoom == Init => RoomForDecoders
<1> SUFFICES ASSUME Init PROVE RoomForDecoders
  OBVIOUS
<1>1. input \in Input /\ named = 0 /\ callbacks = <<>>
  BY InputsAssumption DEF Init
<1>2. Lengths[0] = 0 /\ Len(input.types) \in Nat
  BY <1>1, LengthsGrow
<1>3. ~LongNameRead /\ Len(callbacks) = 0
  BY <1>1 DEF LongNameRead
<1> QED
  BY <1>1, <1>2, <1>3 DEF RoomForDecoders

(* A tuple of fixed-size columns that is too short or too long, if only by *)
(* one byte, is refused and never shown as a row, one whose header claims  *)
(* to be longer than the item included: the size that then wraps is more   *)
(* than all the columns could take.                                        *)
THEOREM LengthCounts == ASSUME WordHolds PROVE Spec => []WrongLengthRefused
<1>1. Init => FixedInv
  <2> SUFFICES ASSUME Init PROVE FixedInv
    OBVIOUS
  <2>1. pc \notin Working /\ reports = <<>>
    BY DEF Init, Working
  <2>2. \A n \in 1..Len(reports) : FALSE
    BY <2>1
  <2> QED
    BY <2>1, <2>2 DEF FixedInv
<1>2. IInv /\ RInv /\ RoomForDecoders /\ FixedInv /\ [Next]_vars => FixedInv'
  BY WordHolds, NextFixed
<1>3. IInv /\ RInv /\ FixedInv => WrongLengthRefused
  <2> SUFFICES ASSUME IInv, RInv, FixedInv, FixedTypes,
                      NEW n \in 1..Len(reports)
               PROVE  LET t == input.tuples[n]
                      IN t.len - t.hoff # FixedLength(t) => reports[n].kind = "error"
    BY DEF WrongLengthRefused, FixedTypes
  <2>1. n \in 1..Len(input.tuples)
    <3>1. Len(reports) = k - 1 /\ k <= Len(input.tuples) + 1 /\ k \in Nat
          /\ Len(input.tuples) \in Nat
      BY DEF RInv, Counted, IInv, TypeOK, Input
    <3> QED
      BY <3>1
  <2>2. RefusedAt(n)
    BY DEF FixedInv
  <2> QED
    BY <2>1, <2>2 DEF RefusedAt, LengthDue
<1>4. IInv /\ RInv /\ [Next]_vars => RInv'
  BY NextRows
<1>5. IInv /\ RoomForDecoders /\ [Next]_vars => RoomForDecoders'
  BY NextRoom
<1> QED
  BY <1>1, <1>2, <1>3, <1>4, <1>5, InitRows, InitRoom, Invariance, PTL DEF Spec

-----------------------------------------------------------------------------
(* How a tuple is decoded without -t depends on nothing but the tuple and  *)
(* the decoders: what is left of the tuples before it is never looked at.  *)
(* The steps are repeated here as a function of what the program can still *)
(* see: the place it is at, the column, the offset, the bytes left, the    *)
(* line and, where they are in use, the text and the encoding buffer.      *)

ReadByte(t, p) == IF p < Len(t.bytes) THEN t.bytes[p + 1] ELSE t.beyond
ReadBytes(t, p, m) == [i \in 1..m |-> ReadByte(t, p + i - 1)]

Sight(at, c, p, s, l, so, b, te) ==
  [at |-> at, col |-> c, pos |-> p, size |-> s, line |-> l, source |-> so,
   buf |-> b, text |-> te]
Done(kind, l) == [at |-> "done", report |-> [kind |-> kind, line |-> l]]

(* A value up to offset e has been read: its bytes are encoded, or its     *)
(* text is appended.                                                       *)
Encodes(c, p, s, l, e, b) ==
  Sight("encode", c, e, Wrap(s - (e - p)), l, b, <<>>, <<>>)
Appends(c, p, s, l, e, te) ==
  Sight("tab", c, e, Wrap(s - (e - p)), l, <<>>, <<>>, te)

FixedAfter(t, c, p, s, l) ==
  LET start == p + Padding(t.at + p, LayoutOf(callbacks[c]).align)
      end == start + LayoutOf(callbacks[c]).size
      b == ReadBytes(t, start, end - start)
  IN IF end - p <= s
       THEN IF callbacks[c] \in {"char", "name"}
              THEN Encodes(c, p, s, l, end, IF callbacks[c] = "name" THEN UpToNul(b) ELSE b)
              ELSE Appends(c, p, s, l, end, Printed(callbacks[c], b))
       ELSE Done("error", l)

ColumnAfter(t, c, p, s, l) ==
  IF c > Len(callbacks) THEN Done(IF s = 0 THEN "row" ELSE "error", l)
  ELSE IF c \in t.nulls THEN Sight("tab", c, p, s, l, <<>>, <<>>, NullMark)
  ELSE IF s = 0 THEN Done("error", l)
  ELSE IF callbacks[c] = "ignore"
    THEN Sight("column", c + 1, p + s, Wrap(s - ((p + s) - p)), l, <<>>, <<>>, <<>>)
  ELSE IF callbacks[c] = "string" THEN Sight("string", c, p, s, l, <<>>, <<>>, <<>>)
  ELSE FixedAfter(t, c, p, s, l)

LongWord(t, p) ==
  ReadByte(t, p) \div 4 + 64 * ReadByte(t, p + 1) + 16384 * ReadByte(t, p + 2)
    + 256 * 16384 * ReadByte(t, p + 3)
PointerSize(t, p) ==
  2 + (IF ReadByte(t, p + 1) = OnDisk THEN 16
       ELSE IF ReadByte(t, p + 1) \in {OnDisk, Indirect} \cup Expanded THEN 8
       ELSE 1)

TextAfter(t, c, p, s, l) ==
  LET b == ReadByte(t, p)
      short == b \div 2
      long == LongWord(t, p)
      raw == ReadByte(t, p + 4) + 256 * ReadByte(t, p + 5) + 65536 * ReadByte(t, p + 6)
               + 256 * 65536 * ReadByte(t, p + 7)
  IN IF b = Nul
       THEN IF s = 0 THEN Done("error", l)
            ELSE Sight("string", c, p + 1, Wrap(s - ((p + 1) - p)), l, <<>>, <<>>, <<>>)
     ELSE IF b = 1
       THEN IF PointerSize(t, p) <= s
              THEN Appends(c, p, s, l, p + PointerSize(t, p), Marker("toasted"))
              ELSE Done("error", l)
     ELSE IF b % 2 = 1
       THEN IF short <= s
              THEN Encodes(c, p, s, l, p + short, ReadBytes(t, p + 1, short - 1))
              ELSE Done("error", l)
     ELSE IF b % 4 = 0 /\ s >= 4
       THEN IF long <= s
              THEN Encodes(c, p, s, l, p + long, ReadBytes(t, p + 4, long - 4))
              ELSE Done("error", l)
     ELSE IF b % 4 = 2 /\ s >= 8 /\ input.inflates
       THEN IF long <= s
              THEN IF raw <= InflateSize /\ Len(t.inflated) = raw
                     THEN Encodes(c, p, s, l, p + long, t.inflated)
                     ELSE Appends(c, p, s, l, p + long, Marker("compressed"))
              ELSE Done("error", l)
     ELSE Done("error", l)

EncodeAfter(c, p, s, l, so, b) ==
  IF so = <<>> THEN Sight("tab", c, p, s, l, <<>>, <<>>, b)
  ELSE Sight("encode", c, p, s, l, Tail(so), b \o Escape(Head(so)), <<>>)

TabAfter(c, p, s, l, te) ==
  Sight("append", c, p, s, IF l = <<>> THEN l ELSE l \o <<Char(Tab)>>, <<>>, <<>>, te)

AppendAfter(c, p, s, l, te) ==
  Sight("column", c + 1, p, s, l \o te, <<>>, <<>>, <<>>)

After(t, v) ==
  IF v.at = "column" THEN ColumnAfter(t, v.col, v.pos, v.size, v.line)
  ELSE IF v.at = "string" THEN TextAfter(t, v.col, v.pos, v.size, v.line)
  ELSE IF v.at = "encode"
    THEN EncodeAfter(v.col, v.pos, v.size, v.line, v.source, v.buf)
  ELSE IF v.at = "tab" THEN TabAfter(v.col, v.pos, v.size, v.line, v.text)
  ELSE IF v.at = "append" THEN AppendAfter(v.col, v.pos, v.size, v.line, v.text)
  ELSE v

Begin(t) == Sight("column", 1, 0, Wrap(t.len - t.hoff), <<>>, <<>>, <<>>, <<>>)

(* What the program sees now; growing the line's buffer does not show.     *)
Seen ==
  Sight(IF pc = "enlarge" THEN resume ELSE pc, col, pos, size, line,
        IF pc = "encode" THEN source ELSE <<>>,
        IF pc = "encode" THEN tmpBuff ELSE <<>>,
        IF pc \in {"tab", "append", "enlarge"} THEN text ELSE <<>>)

(* The first j steps from the beginning of a tuple.                        *)
IsChain(t, j, chain) ==
  chain[0] = Begin(t) /\ \A i \in 1..j : chain[i] = After(t, chain[i - 1])
Reaches(t, v) == \E j \in Nat : \E chain : IsChain(t, j, chain) /\ chain[j] = v

ReportReached(m) ==
  Reaches(input.tuples[m], [at |-> "done", report |-> reports[m]])
SameInv ==
  ~input.toast =>
    /\ pc \in Working => Reaches(Current, Seen)
    /\ \A m \in 1..Len(reports) : ReportReached(m)

(* One step more.                                                          *)
LEMMA OneStepMore ==
  ASSUME NEW t, NEW v, Reaches(t, v)
  PROVE  Reaches(t, After(t, v))
<1>1. PICK j \in Nat : \E chain : IsChain(t, j, chain) /\ chain[j] = v
  BY DEF Reaches
<1>2. PICK chain : IsChain(t, j, chain) /\ chain[j] = v
  BY <1>1
<1> DEFINE longer == [i \in 0..(j + 1) |-> IF i <= j THEN chain[i] ELSE After(t, v)]
<1>3. longer[0] = chain[0] /\ longer[j + 1] = After(t, v) /\ j + 1 \in Nat
  BY <1>1
<1>4. ASSUME NEW i \in 1..(j + 1) PROVE longer[i] = After(t, longer[i - 1])
  <2>1. CASE i <= j
    <3>1. i \in 1..j /\ longer[i] = chain[i] /\ longer[i - 1] = chain[i - 1]
      BY <2>1
    <3> QED
      BY <1>2, <3>1 DEF IsChain
  <2>2. CASE i = j + 1
    <3>1. longer[i - 1] = chain[j] /\ longer[i] = After(t, v)
      BY <2>2
    <3> QED
      BY <1>2, <3>1
  <2> QED
    BY <2>1, <2>2
<1> HIDE DEF longer
<1>5. IsChain(t, j + 1, longer)
  BY <1>2, <1>3, <1>4 DEF IsChain
<1> QED
  BY <1>3, <1>5 DEF Reaches

(* Two ways to a report are one, so the reports are the same.              *)
LEMMA OneReport ==
  ASSUME NEW t, NEW r, NEW q,
         Reaches(t, [at |-> "done", report |-> r]),
         Reaches(t, [at |-> "done", report |-> q])
  PROVE  r = q
<1> DEFINE D(a) == [at |-> "done", report |-> a]
<1>1. ASSUME NEW a, NEW b, NEW i \in Nat, NEW j \in Nat, i <= j,
             NEW f, IsChain(t, i, f), f[i] = D(a),
             NEW g, IsChain(t, j, g), g[j] = D(b)
      PROVE  a = b
  <2> HIDE DEF D
  <2>1. \A m \in 0..i : g[m] = f[m]
    <3> DEFINE S == {m \in 0..i : g[m] = f[m]}
    <3>1. 0 \in S
      BY <1>1 DEF IsChain
    <3>2. ASSUME NEW m \in 0..(i - 1), m \in S PROVE m + 1 \in S
      <4>1. m + 1 \in 1..i /\ m + 1 \in 1..j /\ (m + 1) - 1 = m
        BY <1>1
      <4>2. f[m + 1] = After(t, f[m]) /\ g[m + 1] = After(t, g[m])
        BY <1>1, <4>1 DEF IsChain
      <4> QED
        BY <3>2, <4>1, <4>2
    <3>3. \A m \in 0..i : m \in S
      <4> HIDE DEF S
      <4> QED
        BY <3>1, <3>2, InductionUpTo
    <3> QED
      BY <3>3
  <2>2. After(t, D(a)) = D(a)
    BY DEF After, D
  <2>3. \A m \in 0..j : m >= i => g[m] = D(a)
    <3> DEFINE S == {m \in 0..j : m >= i => g[m] = D(a)}
    <3>1. 0 \in S
      BY <1>1, <2>1
    <3>2. ASSUME NEW m \in 0..(j - 1), m \in S PROVE m + 1 \in S
      <4>1. m + 1 \in 1..j /\ (m + 1) - 1 = m /\ m + 1 \in 0..j
        BY <1>1
      <4>2. CASE m >= i
        <5>1. g[m + 1] = After(t, g[m])
          BY <1>1, <4>1 DEF IsChain
        <5> QED
          BY <2>2, <3>2, <4>1, <4>2, <5>1
      <4>3. CASE m < i
        <5>1. m + 1 >= i => m + 1 = i
          BY <1>1, <4>3
        <5>2. i \in 0..i
          BY <1>1
        <5> QED
          BY <1>1, <2>1, <4>1, <5>1, <5>2
      <4> QED
        BY <1>1, <4>2, <4>3
    <3>3. \A m \in 0..j : m \in S
      <4> HIDE DEF S
      <4> QED
        BY <3>1, <3>2, InductionUpTo
    <3> QED
      BY <3>3
  <2>4. g[j] = D(a)
    BY <1>1, <2>3
  <2>5. D(a).report = D(b).report
    BY <1>1, <2>4
  <2> QED
    BY <2>5 DEF D
<1>2. PICK i \in Nat : \E f : IsChain(t, i, f) /\ f[i] = D(r)
  BY DEF Reaches
<1>3. PICK f : IsChain(t, i, f) /\ f[i] = D(r)
  BY <1>2
<1>4. PICK j \in Nat : \E g : IsChain(t, j, g) /\ g[j] = D(q)
  BY DEF Reaches
<1>5. PICK g : IsChain(t, j, g) /\ g[j] = D(q)
  BY <1>4
<1> HIDE DEF D
<1>6. CASE i <= j
  BY <1>1, <1>3, <1>5, <1>6
<1>7. CASE j <= i
  BY <1>1, <1>3, <1>5, <1>7
<1> QED
  BY <1>6, <1>7


(* What follows from each place.                                           *)
LEMMA AfterSight ==
  ASSUME NEW t, NEW c, NEW p, NEW s, NEW l, NEW so, NEW b, NEW te
  PROVE  /\ After(t, Sight("column", c, p, s, l, so, b, te)) = ColumnAfter(t, c, p, s, l)
         /\ After(t, Sight("string", c, p, s, l, so, b, te)) = TextAfter(t, c, p, s, l)
         /\ After(t, Sight("encode", c, p, s, l, so, b, te))
              = EncodeAfter(c, p, s, l, so, b)
         /\ After(t, Sight("tab", c, p, s, l, so, b, te)) = TabAfter(c, p, s, l, te)
         /\ After(t, Sight("append", c, p, s, l, so, b, te))
              = AppendAfter(c, p, s, l, te)
<1> DEFINE S(at) == Sight(at, c, p, s, l, so, b, te)
<1>1. \A at : /\ S(at).at = at /\ S(at).col = c /\ S(at).pos = p /\ S(at).size = s
              /\ S(at).line = l /\ S(at).source = so /\ S(at).buf = b
              /\ S(at).text = te
  BY DEF Sight
<1> HIDE DEF S
<1>2. /\ After(t, S("column")) = ColumnAfter(t, c, p, s, l)
      /\ After(t, S("string")) = TextAfter(t, c, p, s, l)
      /\ After(t, S("encode")) = EncodeAfter(c, p, s, l, so, b)
      /\ After(t, S("tab")) = TabAfter(c, p, s, l, te)
      /\ After(t, S("append")) = AppendAfter(c, p, s, l, te)
  BY <1>1 DEF After
<1> QED
  BY <1>2 DEF S

(* What is seen at each place.                                             *)
LEMMA SeenAt ==
  /\ pc = "column" => Seen = Sight("column", col, pos, size, line, <<>>, <<>>, <<>>)
  /\ pc = "string" => Seen = Sight("string", col, pos, size, line, <<>>, <<>>, <<>>)
  /\ pc = "encode" => Seen = Sight("encode", col, pos, size, line, source, tmpBuff, <<>>)
  /\ pc = "tab" => Seen = Sight("tab", col, pos, size, line, <<>>, <<>>, text)
  /\ pc = "append" => Seen = Sight("append", col, pos, size, line, <<>>, <<>>, text)
  /\ pc = "enlarge" => Seen = Sight(resume, col, pos, size, line, <<>>, <<>>, text)
  BY DEF Seen

LEMMA SeenNext ==
  /\ pc' = "column" =>
       Seen' = Sight("column", col', pos', size', line', <<>>, <<>>, <<>>)
  /\ pc' = "string" =>
       Seen' = Sight("string", col', pos', size', line', <<>>, <<>>, <<>>)
  /\ pc' = "encode" =>
       Seen' = Sight("encode", col', pos', size', line', source', tmpBuff', <<>>)
  /\ pc' = "tab" => Seen' = Sight("tab", col', pos', size', line', <<>>, <<>>, text')
  /\ pc' = "append" =>
       Seen' = Sight("append", col', pos', size', line', <<>>, <<>>, text')
  /\ pc' = "enlarge" =>
       Seen' = Sight(resume', col', pos', size', line', <<>>, <<>>, text')
  BY DEF Seen, Sight

(* The steps only depend on the decoders, the options and the build.       *)
LEMMA SameAfter ==
  ASSUME callbacks' = callbacks, input' = input
  PROVE  /\ \A t, v : Reaches(t, v)' <=> Reaches(t, v)
         /\ \A t : Begin(t)' = Begin(t)
<1>1. \A t, v : After(t, v)' = After(t, v)
  <2> SUFFICES ASSUME NEW t, NEW v PROVE After(t, v)' = After(t, v)
    OBVIOUS
  <2>1. \A c, p, s, l : FixedAfter(t, c, p, s, l)' = FixedAfter(t, c, p, s, l)
    BY DEF FixedAfter
  <2>2. \A c, p, s, l : ColumnAfter(t, c, p, s, l)' = ColumnAfter(t, c, p, s, l)
    BY <2>1 DEF ColumnAfter
  <2>3. \A c, p, s, l : TextAfter(t, c, p, s, l)' = TextAfter(t, c, p, s, l)
    <3>1. Expanded' = Expanded
      BY DEF Expanded
    <3>2. \A p : PointerSize(t, p)' = PointerSize(t, p)
      BY <3>1 DEF PointerSize
    <3> QED
      BY <3>2 DEF TextAfter
  <2> QED
    BY <2>2, <2>3, Zenon DEF After, EncodeAfter, TabAfter, AppendAfter
<1>2. \A t, j, chain : IsChain(t, j, chain)' <=> IsChain(t, j, chain)
  BY <1>1 DEF IsChain, Begin
<1> QED
  BY <1>2 DEF Reaches, Begin

(* What is read of the tuple at hand.                                      *)
LEMMA ReadsCurrent ==
  /\ \A p : ByteAt(p) = ReadByte(Current, p)
  /\ \A p, m : BytesAt(p, m) = ReadBytes(Current, p, m)
<1>1. \A p : ByteAt(p) = ReadByte(Current, p)
  BY DEF ByteAt, ReadByte
<1>2. \A p, m : BytesAt(p, m) = ReadBytes(Current, p, m)
  BY <1>1 DEF BytesAt, ReadBytes
<1> QED
  BY <1>1, <1>2

(* The columns.                                                            *)
LEMMA ColumnSeen ==
  ASSUME IInv, DecodeColumn, pc' \in Working
  PROVE  Seen' = After(Current, Seen)
<1>1. /\ pc = "column" /\ col <= Len(callbacks)
      /\ UNCHANGED <<input, callbacks, k, line>>
      /\ After(Current, Seen) = ColumnAfter(Current, col, pos, size, line)
      /\ ~(col > Len(callbacks))
  <2>1. pc = "column" /\ col <= Len(callbacks)
    BY DEF DecodeColumn, NullColumn, OutOfBytes, DecodeFixed, DecodeChars, DecodeShort,
           DecodeIgnore, DecodeString, Decoding, AtColumn
  <2>2. ~OutOfBytes /\ ~DecodeShort
    BY DEF OutOfBytes, DecodeShort, ReportAs, Working
  <2>3. UNCHANGED <<input, callbacks, k, line>>
    BY <2>2 DEF DecodeColumn, NullColumn, DecodeFixed, DecodeChars, DecodeIgnore,
                DecodeString, buffers
  <2>4. After(Current, Seen) = ColumnAfter(Current, col, pos, size, line)
    BY <2>1, SeenAt, AfterSight
  <2>5. col \in Nat /\ Len(callbacks) \in Nat
    BY DEF IInv, TypeOK
  <2> QED
    BY <2>1, <2>3, <2>4, <2>5
<1>2. CASE NullColumn
  <2>1. /\ pc' = "tab" /\ text' = NullMark /\ col \in Current.nulls
        /\ UNCHANGED <<col, pos, size>>
    BY <1>2 DEF NullColumn, AppendText
  <2> QED
    BY <1>1, <2>1, SeenNext DEF ColumnAfter
<1>3. CASE DecodeIgnore
  <2>1. /\ pc' = "column" /\ col' = col + 1 /\ pos' = pos + size
        /\ size' = Wrap(size - ((pos + size) - pos))
        /\ col \notin Current.nulls /\ size # 0 /\ callbacks[col] = "ignore"
    <3>1. size > 0 /\ size \in Int
      BY <1>3 DEF DecodeIgnore, Decoding, IInv, TypeOK
    <3>2. pc' = pc
      BY <1>3 DEF DecodeIgnore
    <3> QED
      BY <1>1, <1>3, <3>1, <3>2 DEF DecodeIgnore, Decoding, Advance
  <2> QED
    BY <1>1, <2>1, SeenNext DEF ColumnAfter
<1>4. CASE DecodeString
  <2>1. /\ pc' = "string" /\ UNCHANGED <<col, pos, size>>
        /\ col \notin Current.nulls /\ size # 0 /\ callbacks[col] = "string"
    <3>1. size > 0 /\ size \in Int
      BY <1>4 DEF DecodeString, Decoding, IInv, TypeOK
    <3> QED
      BY <1>4, <3>1 DEF DecodeString, Decoding
  <2> QED
    BY <1>1, <2>1, SeenNext DEF ColumnAfter
<1>5. CASE DecodeFixed \/ DecodeChars
  <2> DEFINE b == ReadBytes(Current, ValueStart, ValueEnd - ValueStart)
  <2>1. /\ col \notin Current.nulls /\ size # 0
        /\ callbacks[col] \in FixedKinds
        /\ pos' = ValueEnd /\ size' = Wrap(size - (ValueEnd - pos))
        /\ ValueEnd - pos <= size /\ col' = col
    <3>1. size > 0 /\ size \in Int
      BY <1>5 DEF DecodeFixed, DecodeChars, Decoding, IInv, TypeOK
    <3>2. {"char", "name"} \subseteq FixedKinds
      BY KindsDiffer
    <3> QED
      BY <1>5, <3>1, <3>2 DEF DecodeFixed, DecodeChars, Decoding, Advance, ValueFits
  <2>2. callbacks[col] # "ignore" /\ callbacks[col] # "string"
    BY <2>1, KindsDiffer
  <2>3. BytesAt(ValueStart, ValueEnd - ValueStart) = b
    BY ReadsCurrent
  <2>4. ColumnAfter(Current, col, pos, size, line)
          = FixedAfter(Current, col, pos, size, line)
    BY <1>1, <2>1, <2>2 DEF ColumnAfter
  <2>5. CASE DecodeFixed
    <3>1. /\ pc' = "tab" /\ text' = Printed(callbacks[col], b)
          /\ callbacks[col] \notin {"char", "name"}
      BY <2>3, <2>5 DEF DecodeFixed, AppendText, Decoding
    <3>2. FixedAfter(Current, col, pos, size, line)
            = Appends(col, pos, size, line, ValueEnd, Printed(callbacks[col], b))
      BY <2>1, <3>1 DEF FixedAfter, ValueStart, ValueEnd
    <3> HIDE DEF b
    <3> QED
      BY <1>1, <2>1, <2>4, <3>1, <3>2, SeenNext DEF Appends
  <2>6. CASE DecodeChars
    <3> DEFINE s == IF callbacks[col] = "name" THEN UpToNul(b) ELSE b
    <3>1. /\ pc' = "encode" /\ source' = s /\ tmpBuff' = <<>>
          /\ callbacks[col] \in {"char", "name"}
      BY <2>3, <2>6 DEF DecodeChars, EncodeText, Decoding
    <3>2. FixedAfter(Current, col, pos, size, line)
            = Encodes(col, pos, size, line, ValueEnd, s)
      BY <2>1, <3>1 DEF FixedAfter, ValueStart, ValueEnd
    <3> HIDE DEF b, s
    <3> QED
      BY <1>1, <2>1, <2>4, <3>1, <3>2, SeenNext DEF Encodes
  <2> QED
    BY <1>5, <2>5, <2>6
<1>6. ~OutOfBytes /\ ~DecodeShort
  BY DEF OutOfBytes, DecodeShort, ReportAs, Working
<1> QED
  BY <1>2, <1>3, <1>4, <1>5, <1>6 DEF DecodeColumn


(* The length byte is a byte.                                              *)
LEMMA LengthByteType ==
  ASSUME IInv, pc = "string"
  PROVE  LengthByte \in 0..255 /\ \A p \in Nat : ByteAt(p) \in 0..255
<1>1. k <= Len(input.tuples) /\ pos \in Nat
  BY DEF IInv, TupleAtHand, Working, TypeOK
<1>2. Current.bytes \in Seq(Byte) /\ Current.beyond \in Byte
  BY <1>1, CurrentType DEF IInv
<1>3. \A p \in Nat : ByteAt(p) \in Byte
  BY <1>2, ByteAtType
<1> QED
  BY <1>1, <1>3 DEF LengthByte, Byte

(* A byte of a long text is even.                                          *)
LEMMA EvenByte ==
  ASSUME NEW b \in 0..255, b % 4 \in {0, 2}
  PROVE  b % 2 # 1 /\ b # 1
<1>1. b \div 4 \in Nat /\ b = (4 * (b \div 4)) + (b % 4)
  OBVIOUS
<1>2. PICK q \in Nat : b = (4 * q) + (b % 4)
  BY <1>1
<1>3. PICK m \in Nat : b = 2 * m
  <2>1. CASE b % 4 = 0
    <3>1. 2 * q \in Nat /\ b = 2 * (2 * q)
      BY <1>2, <2>1
    <3> QED
      BY <3>1
  <2>2. CASE b % 4 = 2
    <3>1. (2 * q) + 1 \in Nat /\ b = 2 * ((2 * q) + 1)
      BY <1>2, <2>2
    <3> QED
      BY <3>1
  <2> QED
    BY <2>1, <2>2
<1> QED
  BY <1>3


(* The texts.  Without -t no value is fetched.                             *)
LEMMA TextSeen ==
  ASSUME IInv, ~input.toast, DecodeText, pc' \in Working
  PROVE  Seen' = After(Current, Seen)
<1> DEFINE b == ReadByte(Current, pos)
<1>1. ~OnlyPadding /\ ~BadText /\ ~FetchEnds /\ ~AtPointer /\ ~Fetch /\ ~FetchFails
  BY DEF OnlyPadding, BadText, FetchEnds, AtPointer, Fetch, FetchFails, ReportAs,
         Working
<1>2. /\ pc = "string" /\ LengthByte = b
      /\ UNCHANGED <<input, callbacks, k, line, col>>
      /\ After(Current, Seen) = TextAfter(Current, col, pos, size, line)
  <2>1. pc = "string" /\ UNCHANGED <<input, callbacks, k, line, col>>
    BY <1>1 DEF DecodeText, SkipPadding, External, Short, Long, Compressed,
                AtPadding, AtText, buffers
  <2>2. LengthByte = b
    BY ReadsCurrent DEF LengthByte
  <2> QED
    BY <2>1, <2>2, SeenAt, AfterSight
<1>3. CASE SkipPadding
  <2>1. /\ pc' = "string" /\ b = Nul /\ size # 0
        /\ pos' = pos + 1 /\ size' = Wrap(size - ((pos + 1) - pos))
    <3>1. size > 0 /\ size \in Int /\ ByteAt(pos) = b
      BY <1>3, ReadsCurrent DEF SkipPadding, IInv, TypeOK
    <3> QED
      BY <1>2, <1>3, <3>1 DEF SkipPadding, AtPadding, Advance
  <2> HIDE DEF b
  <2>2. TextAfter(Current, col, pos, size, line)
          = Sight("string", col, pos + 1, Wrap(size - ((pos + 1) - pos)), line,
                  <<>>, <<>>, <<>>)
    BY <2>1 DEF TextAfter, b
  <2> QED
    BY <1>2, <2>1, <2>2, SeenNext
<1>4. ASSUME ~SkipPadding PROVE b # Nul
  BY <1>1, <1>2, <1>4 DEF DecodeText, External, Short, Long, Compressed, AtText
<1>5. CASE External
  <2> DEFINE e == pos + PointerSize(Current, pos)
  <2>1. ExternalSize = PointerSize(Current, pos)
    BY ReadsCurrent DEF ExternalSize, KnownTag, ExternalTag, PointerSize
  <2>2. /\ pc' = "tab" /\ text' = Marker("toasted") /\ b = 1
        /\ PointerSize(Current, pos) <= size
        /\ pos' = e /\ size' = Wrap(size - (e - pos))
    BY <1>2, <1>5, <2>1 DEF External, IsExternal, AppendText, Advance
  <2>3. TextAfter(Current, col, pos, size, line)
          = Appends(col, pos, size, line, e, Marker("toasted"))
    BY <2>2 DEF TextAfter, Nul
  <2> HIDE DEF b, e
  <2> QED
    BY <1>2, <2>2, <2>3, SeenNext DEF Appends
<1>6. CASE Short
  <2> DEFINE e == pos + b \div 2
             t == ReadBytes(Current, pos + 1, b \div 2 - 1)
  <2>1. /\ ShortSize = b \div 2
        /\ BytesAt(pos + 1, ShortSize - 1) = t
    BY <1>2, ReadsCurrent DEF ShortSize
  <2>2. /\ pc' = "encode" /\ source' = t /\ tmpBuff' = <<>>
        /\ b % 2 = 1 /\ b # 1 /\ b # Nul /\ b \div 2 <= size
        /\ pos' = e /\ size' = Wrap(size - (e - pos))
    BY <1>2, <1>6, <2>1 DEF Short, AtText, IsShort, IsExternal, EncodeText, Advance
  <2>3. TextAfter(Current, col, pos, size, line)
          = Encodes(col, pos, size, line, e, t)
    BY <2>2 DEF TextAfter
  <2> HIDE DEF b, e, t
  <2> QED
    BY <1>2, <2>2, <2>3, SeenNext DEF Encodes
<1>7. LongSize = LongWord(Current, pos)
  BY <1>2, ReadsCurrent DEF LongSize, LongWord
<1>8. CASE Long
  <2> DEFINE e == pos + LongWord(Current, pos)
             t == ReadBytes(Current, pos + 4, LongWord(Current, pos) - 4)
  <2>1. BytesAt(pos + 4, LongSize - 4) = t
    BY <1>7, ReadsCurrent
  <2>2. /\ pc' = "encode" /\ source' = t /\ tmpBuff' = <<>>
        /\ b % 4 = 0 /\ b # Nul /\ size >= 4 /\ LongWord(Current, pos) <= size
        /\ pos' = e /\ size' = Wrap(size - (e - pos))
    BY <1>2, <1>7, <1>8, <2>1 DEF Long, AtText, IsLong, EncodeText, Advance
  <2>3. b # 1 /\ b % 2 # 1
    <3>1. b \in 0..255
      BY <1>2, LengthByteType
    <3> HIDE DEF b
    <3> QED
      BY <2>2, <3>1, EvenByte
  <2>4. TextAfter(Current, col, pos, size, line)
          = Encodes(col, pos, size, line, e, t)
    BY <2>2, <2>3 DEF TextAfter
  <2> HIDE DEF b, e, t
  <2> QED
    BY <1>2, <2>2, <2>4, SeenNext DEF Encodes
<1>9. CASE Compressed
  <2> DEFINE e == pos + LongWord(Current, pos)
             raw == ReadByte(Current, pos + 4) + 256 * ReadByte(Current, pos + 5)
                      + 65536 * ReadByte(Current, pos + 6)
                      + 256 * 65536 * ReadByte(Current, pos + 7)
             fits == raw <= InflateSize /\ Len(Current.inflated) = raw
  <2>1. RawSize = raw
    BY ReadsCurrent DEF RawSize
  <2>2. /\ b % 4 = 2 /\ b # Nul /\ size >= 8 /\ input.inflates
        /\ LongWord(Current, pos) <= size
        /\ pos' = e /\ size' = Wrap(size - (e - pos))
    BY <1>2, <1>7, <1>9 DEF Compressed, AtText, IsCompressed, Advance
  <2>3. b # 1 /\ b % 2 # 1 /\ ~(b % 4 = 0)
    <3>1. b \in 0..255
      BY <1>2, LengthByteType
    <3> HIDE DEF b
    <3>2. b % 4 = 2
      BY <2>2
    <3> QED
      BY <3>1, <3>2, EvenByte
  <2>4. /\ fits => pc' = "encode" /\ source' = Current.inflated /\ tmpBuff' = <<>>
        /\ ~fits => pc' = "tab" /\ text' = Marker("compressed")
    BY <1>9, <2>1 DEF Compressed, Inflated, EncodeText, AppendText
  <2>5. TextAfter(Current, col, pos, size, line)
          = IF fits THEN Encodes(col, pos, size, line, e, Current.inflated)
            ELSE Appends(col, pos, size, line, e, Marker("compressed"))
    BY <2>2, <2>3 DEF TextAfter
  <2> HIDE DEF b, e, fits
  <2> QED
    BY <1>2, <2>2, <2>4, <2>5, SeenNext DEF Encodes, Appends
<1> QED
  BY <1>1, <1>3, <1>5, <1>6, <1>8, <1>9 DEF DecodeText

(* The encoding buffer and the line.  Growing the line does not show, and  *)
(* an empty line gets no tab.                                              *)
LEMMA CopySeen ==
  ASSUME IInv, CopyText, pc' \in Working
  PROVE  /\ Seen' = Seen \/ Seen' = After(Current, Seen)
         /\ UNCHANGED <<input, callbacks, k, reports>>
<1>1. resume \in {"tab", "append"}
  BY DEF IInv, TypeOK
<1>2. ~EncodeTooLarge /\ ~AppendTooLarge
  BY DEF EncodeTooLarge, AppendTooLarge, Working
<1>3. UNCHANGED <<input, callbacks, k, reports, col, pos, size>> \/ AppendFits
  BY <1>2 DEF CopyText, EncodeChar, EncodeDone, NoTab, Enlarge, Double, Enlarged
<1>4. CASE EncodeChar
  <2>1. /\ pc = "encode" /\ pc' = "encode" /\ source # <<>>
        /\ tmpBuff' = tmpBuff \o Escape(Head(source)) /\ source' = Tail(source)
        /\ UNCHANGED <<input, callbacks, k, reports, col, pos, size, line>>
    BY <1>4 DEF EncodeChar, buffers
  <2>2. After(Current, Seen) = EncodeAfter(col, pos, size, line, source, tmpBuff)
    BY <2>1, SeenAt, AfterSight
  <2> QED
    BY <2>1, <2>2, SeenNext DEF EncodeAfter
<1>5. CASE EncodeDone
  <2>1. /\ pc = "encode" /\ pc' = "tab" /\ source = <<>> /\ text' = tmpBuff
        /\ UNCHANGED <<input, callbacks, k, reports, col, pos, size, line>>
    BY <1>5 DEF EncodeDone, buffers
  <2>2. After(Current, Seen) = EncodeAfter(col, pos, size, line, source, tmpBuff)
    BY <2>1, SeenAt, AfterSight
  <2> QED
    BY <2>1, <2>2, SeenNext DEF EncodeAfter
<1>6. CASE NoTab
  <2>1. /\ pc = "tab" /\ pc' = "append" /\ line = <<>>
        /\ UNCHANGED <<input, callbacks, k, reports, col, pos, size, line, text>>
    BY <1>6 DEF NoTab, buffers
  <2>2. After(Current, Seen) = TabAfter(col, pos, size, line, text)
    BY <2>1, SeenAt, AfterSight
  <2> QED
    BY <2>1, <2>2, SeenNext DEF TabAfter
<1>7. CASE AppendFits
  <2>1. /\ line' = line \o Addition
        /\ IF pc = "tab" THEN pc' = "append" /\ col' = col
           ELSE pc' = "column" /\ col' = col + 1
        /\ pc = "append" \/ (pc = "tab" /\ line # <<>>)
        /\ UNCHANGED <<input, callbacks, k, reports, pos, size, text>>
    BY <1>7 DEF AppendFits, Appending
  <2>2. CASE pc = "tab"
    <3>1. After(Current, Seen) = TabAfter(col, pos, size, line, text)
      BY <2>2, SeenAt, AfterSight
    <3> QED
      BY <2>1, <2>2, <3>1, SeenNext DEF TabAfter, Addition
  <2>3. CASE pc = "append"
    <3>1. After(Current, Seen) = AppendAfter(col, pos, size, line, text)
      BY <2>3, SeenAt, AfterSight
    <3> QED
      BY <2>1, <2>3, <3>1, SeenNext DEF AppendAfter, Addition
  <2> QED
    BY <2>1, <2>2, <2>3
<1>8. CASE Enlarge \/ Double \/ Enlarged
  <2>1. /\ UNCHANGED <<input, callbacks, k, reports, col, pos, size, line, text>>
        /\ \/ pc \in {"tab", "append"} /\ resume' = pc /\ pc' = "enlarge"
           \/ pc = "enlarge" /\ pc' = "enlarge" /\ resume' = resume
           \/ pc = "enlarge" /\ pc' = resume
    BY <1>8 DEF Enlarge, Double, Enlarged, Appending
  <2>2. CASE pc \in {"tab", "append"} /\ resume' = pc /\ pc' = "enlarge"
    BY <2>1, <2>2, SeenAt, SeenNext
  <2>3. CASE pc = "enlarge" /\ pc' = "enlarge" /\ resume' = resume
    BY <2>1, <2>3, SeenAt, SeenNext
  <2>4. CASE pc = "enlarge" /\ pc' = resume
    BY <1>1, <2>1, <2>4, SeenAt, SeenNext
  <2> QED
    BY <2>1, <2>2, <2>3, <2>4
<1> QED
  BY <1>2, <1>4, <1>5, <1>6, <1>7, <1>8 DEF CopyText


(* What a report shows is what follows from what was seen before it.       *)
LEMMA ReportSeen ==
  ASSUME IInv, RInv, ~input.toast, [Next]_vars, k' # k
  PROVE  /\ UNCHANGED <<input, callbacks>> /\ pc \in Working /\ pc' = "tuple"
         /\ \E r : /\ reports' = Append(reports, r)
                   /\ After(Current, Seen) = [at |-> "done", report |-> r]
<1>1. pc \in Working /\ pc' = "tuple" /\ UNCHANGED input
  BY KnownReported
<1>2. OutOfBytes \/ DecodeShort \/ OnlyPadding \/ BadText \/ BytesLeft \/ CopyFlush
  <2>1. ~FetchFails
    BY DEF FetchFails, AtPointer
  <2> QED
    BY <2>1 DEF Next, ParseTypes, DecodeColumn, DecodeText, CopyText, NamesTooLong,
       EmptyName, AddTypeCallback, UnknownName, NamesDone, FormatDecode,
       NullColumn, DecodeFixed, DecodeChars, DecodeIgnore, DecodeString,
       SkipPadding, External, Fetch, FetchEnds, Short, Long, Compressed,
       EncodeChar, EncodeTooLarge, EncodeDone, NoTab, AppendTooLarge, AppendFits,
       Enlarge, Double, Enlarged, PastBlock, TuplesDone, Ended, vars
<1>3. /\ size \in Nat /\ col \in Nat /\ Len(callbacks) \in Nat /\ pos \in Nat
  BY DEF IInv, TypeOK
<1>4. UNCHANGED callbacks /\ (pc = "column" \/ pc = "string")
  BY <1>2 DEF OutOfBytes, DecodeShort, OnlyPadding, BadText, BytesLeft, CopyFlush,
              AtColumn, Decoding, AtPadding, AtText, AtEnd
<1>5. /\ pc = "column" => After(Current, Seen) = ColumnAfter(Current, col, pos, size, line)
      /\ pc = "string" => After(Current, Seen) = TextAfter(Current, col, pos, size, line)
  BY SeenAt, AfterSight
<1>6. ASSUME NEW kind, ReportAs(kind), After(Current, Seen) = Done(kind, line)
      PROVE  \E r : /\ reports' = Append(reports, r)
                    /\ After(Current, Seen) = [at |-> "done", report |-> r]
  BY <1>6 DEF ReportAs, Done
<1>7. CASE OutOfBytes
  <2>1. /\ pc = "column" /\ col <= Len(callbacks) /\ col \notin Current.nulls
        /\ size = 0 /\ ReportAs("error")
    BY <1>7 DEF OutOfBytes, AtColumn
  <2>2. ColumnAfter(Current, col, pos, size, line) = Done("error", line)
    BY <1>3, <2>1 DEF ColumnAfter
  <2> QED
    BY <1>1, <1>4, <1>5, <1>6, <2>1, <2>2
<1>8. CASE DecodeShort
  <2>1. /\ pc = "column" /\ col <= Len(callbacks) /\ col \notin Current.nulls
        /\ size # 0 /\ ReportAs("error") /\ callbacks[col] \in FixedKinds
        /\ ~(ValueEnd - pos <= size)
    BY <1>3, <1>8 DEF DecodeShort, AtColumn, Decoding, ValueFits
  <2>2. callbacks[col] # "ignore" /\ callbacks[col] # "string"
    BY <2>1, KindsDiffer
  <2>3. ColumnAfter(Current, col, pos, size, line)
          = FixedAfter(Current, col, pos, size, line)
    BY <1>3, <2>1, <2>2 DEF ColumnAfter
  <2>4. FixedAfter(Current, col, pos, size, line) = Done("error", line)
    BY <2>1 DEF FixedAfter, ValueStart, ValueEnd
  <2> QED
    BY <1>1, <1>4, <1>5, <1>6, <2>1, <2>3, <2>4
<1>9. CASE OnlyPadding
  <2>1. pc = "string" /\ ReadByte(Current, pos) = Nul /\ size = 0 /\ ReportAs("error")
    BY <1>9, ReadsCurrent DEF OnlyPadding, AtPadding
  <2>2. TextAfter(Current, col, pos, size, line) = Done("error", line)
    BY <2>1 DEF TextAfter
  <2> QED
    BY <1>1, <1>4, <1>5, <1>6, <2>1, <2>2
<1>10. CASE BadText
  <2> DEFINE b == ReadByte(Current, pos)
  <2>1. pc = "string" /\ b # Nul /\ ReportAs("error")
    BY <1>10, ReadsCurrent DEF BadText, AtText, LengthByte
  <2>2. /\ ExternalSize = PointerSize(Current, pos) /\ LengthByte = b
        /\ ShortSize = b \div 2 /\ LongSize = LongWord(Current, pos)
    BY ReadsCurrent DEF ExternalSize, KnownTag, ExternalTag, PointerSize, LengthByte, ShortSize,
       LongSize, LongWord
  <2>3. ExternalSize \in Nat /\ ShortSize \in Nat /\ LongSize \in Nat
    BY <2>1, TextSizes
  <2>4. \/ b = 1 /\ ~(PointerSize(Current, pos) <= size)
        \/ b # 1 /\ b % 2 = 1 /\ ~(b \div 2 <= size)
        \/ b # 1 /\ b % 2 # 1 /\ b % 4 = 0 /\ size >= 4
             /\ ~(LongWord(Current, pos) <= size)
        \/ /\ b # 1 /\ b % 2 # 1 /\ ~(b % 4 = 0 /\ size >= 4)
           /\ b % 4 = 2 /\ size >= 8 /\ input.inflates
           /\ ~(LongWord(Current, pos) <= size)
        \/ /\ b # 1 /\ b % 2 # 1 /\ ~(b % 4 = 0 /\ size >= 4)
           /\ ~(b % 4 = 2 /\ size >= 8 /\ input.inflates)
    <3> HIDE DEF b
    <3>1. IsExternal <=> b = 1
      BY <2>2 DEF IsExternal
    <3>2. IsShort <=> b % 2 = 1 /\ b # 1
      BY <2>2, <3>1 DEF IsShort
    <3>3. IsLong <=> b % 4 = 0 /\ size >= 4
      BY <2>2 DEF IsLong
    <3>4. IsCompressed <=> b % 4 = 2 /\ size >= 8 /\ input.inflates
      BY <2>2 DEF IsCompressed
    <3>0. /\ IsLong => ~IsExternal /\ ~IsShort /\ ~IsCompressed
          /\ IsCompressed => ~IsExternal /\ ~IsShort
          /\ IsShort => ~IsExternal
      <4>1. b \in 0..255
        BY <2>1, <2>2, LengthByteType
      <4> QED
        BY <3>1, <3>2, <3>3, <3>4, <4>1, EvenByte
    <3>5. CASE IsExternal
      <4>1. ExternalSize > size
        BY <1>10, <3>0, <3>5 DEF BadText
      <4> QED
        BY <1>3, <2>2, <2>3, <3>1, <3>5, <4>1
    <3>6. CASE ~IsExternal /\ IsShort
      <4>1. ShortSize > size
        BY <1>10, <3>0, <3>6 DEF BadText
      <4> QED
        BY <1>3, <2>2, <2>3, <3>2, <3>6, <4>1
    <3>7. ASSUME LongSize > size PROVE ~(LongWord(Current, pos) <= size)
      BY <1>3, <2>2, <2>3, <3>7
    <3>8. CASE ~IsExternal /\ ~IsShort /\ IsLong
      <4>1. LongSize > size
        BY <1>10, <3>0, <3>8 DEF BadText
      <4> QED
        BY <3>1, <3>2, <3>3, <3>7, <3>8, <4>1
    <3>9. CASE ~IsExternal /\ ~IsShort /\ ~IsLong /\ IsCompressed
      <4>1. LongSize > size
        BY <1>10, <3>0, <3>9 DEF BadText
      <4> QED
        BY <3>1, <3>2, <3>3, <3>4, <3>7, <3>9, <4>1
    <3>10. CASE ~IsExternal /\ ~IsShort /\ ~IsLong /\ ~IsCompressed
      BY <3>1, <3>2, <3>3, <3>4, <3>10
    <3> QED
      BY <3>5, <3>6, <3>8, <3>9, <3>10
  <2>5. TextAfter(Current, col, pos, size, line) = Done("error", line)
    BY <2>1, <2>4 DEF TextAfter
  <2> QED
    BY <1>1, <1>4, <1>5, <1>6, <2>1, <2>5
<1>11. CASE BytesLeft
  <2>1. pc = "column" /\ col > Len(callbacks) /\ size # 0 /\ ReportAs("error")
    BY <1>11 DEF BytesLeft, AtEnd
  <2>2. ColumnAfter(Current, col, pos, size, line) = Done("error", line)
    BY <2>1 DEF ColumnAfter
  <2> QED
    BY <1>1, <1>4, <1>5, <1>6, <2>1, <2>2
<1>12. CASE CopyFlush
  <2>1. pc = "column" /\ col > Len(callbacks) /\ size = 0 /\ ReportAs("row")
    BY <1>12 DEF CopyFlush, AtEnd
  <2>2. ColumnAfter(Current, col, pos, size, line) = Done("row", line)
    BY <2>1 DEF ColumnAfter
  <2> QED
    BY <1>1, <1>4, <1>5, <1>6, <2>1, <2>2
<1> QED
  BY <1>2, <1>7, <1>8, <1>9, <1>10, <1>11, <1>12

(* The invariant: everything seen, and every report, is reached from the   *)
(* beginning of its own tuple.                                             *)
LEMMA SeenKept ==
  ASSUME IInv, SameInv, ~input.toast, pc \in Working,
         UNCHANGED <<input, callbacks, k, reports>>,
         pc' \in Working => Seen' = Seen \/ Seen' = After(Current, Seen)
  PROVE  SameInv'
<1>1. Current' = Current
  BY DEF Current
<1>2. /\ Reaches(Current, Seen)
      /\ \A m \in 1..Len(reports) : ReportReached(m)
  BY DEF SameInv
<1>3. \A t, v : Reaches(t, v)' <=> Reaches(t, v)
  BY SameAfter
<1>4. pc' \in Working => Reaches(Current, Seen')
  BY <1>2, OneStepMore
<1>5. pc' \in Working => Reaches(Current, Seen)'
  BY <1>1, <1>3, <1>4
<1>6. \A m \in 1..Len(reports) : ReportReached(m)'
  BY <1>2, <1>3 DEF ReportReached
<1> QED
  BY <1>5, <1>6 DEF SameInv


LEMMA SameStep == IInv /\ RInv /\ SameInv /\ [Next]_vars => SameInv'
<1> SUFFICES ASSUME IInv, RInv, SameInv, [Next]_vars PROVE SameInv'
  OBVIOUS
<1>1. input' = input
  BY QuietStep, KnownReported
<1> SUFFICES ASSUME ~input.toast PROVE SameInv'
  BY <1>1 DEF SameInv
<1>2. /\ pc \in Working => Reaches(Current, Seen)
      /\ \A m \in 1..Len(reports) : ReportReached(m)
      /\ Len(reports) = k - 1 /\ k \in Nat \ {0}
      /\ reports \in Seq([kind : {"row", "error"}, line : Seq(Symbol)])
  BY DEF SameInv, RInv, Counted, IInv, TypeOK
<1>3. CASE k' # k
  <2>1. /\ UNCHANGED <<input, callbacks>> /\ pc \in Working /\ pc' \notin Working
        /\ Len(reports') = k
    BY <1>3, ReportSeen, KnownReported DEF Working
  <2>2. PICK r : /\ reports' = Append(reports, r)
                 /\ After(Current, Seen) = [at |-> "done", report |-> r]
    BY <1>3, ReportSeen
  <2>3. Reaches(Current, [at |-> "done", report |-> r])
    BY <1>2, <2>1, <2>2, OneStepMore
  <2>4. \A t, v : Reaches(t, v)' <=> Reaches(t, v)
    BY <2>1, SameAfter
  <2>5. ASSUME NEW m \in 1..Len(reports') PROVE ReportReached(m)'
    <3>1. CASE m = k
      <4>1. reports'[m] = r /\ input.tuples[m] = Current
        BY <1>2, <2>2, <3>1 DEF Current
      <4>2. Reaches(input.tuples[m], [at |-> "done", report |-> reports'[m]])
        BY <2>3, <4>1
      <4> QED
        BY <1>1, <2>4, <4>2 DEF ReportReached
    <3>2. CASE m # k
      <4>1. m \in 1..Len(reports) /\ reports'[m] = reports[m]
        BY <1>2, <2>1, <2>2, <2>5, <3>2
      <4>2. ReportReached(m)
        BY <1>2, <4>1
      <4>3. Reaches(input.tuples[m], [at |-> "done", report |-> reports'[m]])
        BY <4>1, <4>2 DEF ReportReached
      <4> QED
        BY <1>1, <2>4, <4>3 DEF ReportReached
    <3> QED
      BY <3>1, <3>2
  <2> QED
    BY <2>1, <2>5 DEF SameInv
<1>4. ASSUME k' = k, pc \in Working, UNCHANGED <<input, callbacks, reports>>,
             pc' \in Working => Seen' = Seen \/ Seen' = After(Current, Seen)
      PROVE  SameInv'
  BY <1>4, SeenKept
<1>5. CASE k' = k /\ DecodeColumn
  <2>1. pc \in Working /\ UNCHANGED <<input, callbacks, reports>>
    <3>1. k + 1 # k
      BY <1>2
    <3> QED
      BY <1>5, <3>1 DEF DecodeColumn, NullColumn, OutOfBytes, DecodeFixed, DecodeChars,
         DecodeShort, DecodeIgnore, DecodeString, Decoding, AtColumn, ReportAs, Working
  <2> QED
    BY <1>4, <1>5, <2>1, ColumnSeen
<1>6. CASE k' = k /\ DecodeText
  <2>1. pc \in Working /\ UNCHANGED <<input, callbacks, reports>>
    <3>1. k + 1 # k
      BY <1>2
    <3> QED
      BY <1>6, <3>1 DEF DecodeText, SkipPadding, OnlyPadding, External, Fetch,
         FetchFails, FetchEnds, Short, Long, Compressed, BadText, AtPadding,
         AtText, AtPointer, ReportAs, Working
  <2> QED
    BY <1>4, <1>6, <2>1, TextSeen
<1>7. CASE k' = k /\ CopyText
  <2>1. pc \in Working /\ UNCHANGED <<input, callbacks, reports>>
    BY <1>7 DEF CopyText, EncodeChar, EncodeTooLarge, EncodeDone, NoTab,
       AppendTooLarge, AppendFits, Enlarge, Double, Enlarged, Appending, Working
  <2> QED
    BY <1>4, <1>7, <2>1, CopySeen
<1>8. CASE PastBlock
  <2>1. /\ k' = k /\ pc \in Working /\ pc' \notin Working
        /\ UNCHANGED <<input, callbacks, reports>>
    BY <1>8 DEF PastBlock, Decoding, AtColumn, Working
  <2> QED
    BY <1>4, <2>1
<1>9. CASE UNCHANGED vars \/ Ended
  <2>1. /\ UNCHANGED <<input, callbacks, k, reports, pc, col, pos, size, line,
                       source, tmpBuff, text, resume>>
    BY <1>9 DEF Ended, vars, buffers
  <2>2. Seen' = Seen
    BY <2>1 DEF Seen, Sight
  <2>3. CASE pc \in Working
    BY <1>4, <2>1, <2>2, <2>3
  <2>4. CASE pc \notin Working
    <3>1. \A m \in 1..Len(reports) : ReportReached(m)'
      BY <1>2, <2>1, SameAfter DEF ReportReached
    <3> QED
      BY <2>1, <2>4, <3>1 DEF SameInv
  <2> QED
    BY <2>3, <2>4
<1>10. CASE ParseTypes
  <2>1. pc = "types" /\ pc' \notin Working /\ UNCHANGED <<reports, k>>
    BY <1>10 DEF ParseTypes, NamesTooLong, EmptyName, AddTypeCallback, UnknownName,
       NamesDone, AtName, Working
  <2>2. k = 1
    BY <2>1 DEF RInv, Counted
  <2>3. Len(reports') = 0
    BY <1>2, <2>1, <2>2
  <2> QED
    BY <2>1, <2>3 DEF SameInv
<1>11. CASE FormatDecode
  <2>1. /\ pc' = "column" /\ col' = 1 /\ pos' = 0 /\ line' = <<>>
        /\ size' = Wrap(Current.len - Current.hoff)
        /\ UNCHANGED <<input, callbacks, k, reports>>
    BY <1>11 DEF FormatDecode
  <2>2. Seen' = Begin(Current) /\ Current' = Current
    BY <2>1, SeenNext DEF Begin, Current
  <2>3. Reaches(Current, Begin(Current))
    <3>1. IsChain(Current, 0, [i \in {0} |-> Begin(Current)])
      BY DEF IsChain
    <3> QED
      BY <3>1 DEF Reaches
  <2>4. \A t, v : Reaches(t, v)' <=> Reaches(t, v)
    BY <2>1, SameAfter
  <2>5. Reaches(Current, Seen)'
    BY <2>2, <2>3, <2>4
  <2>6. \A m \in 1..Len(reports) : ReportReached(m)'
    BY <1>2, <2>1, <2>4 DEF ReportReached
  <2> QED
    BY <2>1, <2>5, <2>6 DEF SameInv
<1>12. CASE TuplesDone
  <2>1. pc' \notin Working /\ UNCHANGED <<input, callbacks, k, reports>>
    BY <1>12 DEF TuplesDone, Working
  <2>2. \A m \in 1..Len(reports) : ReportReached(m)'
    BY <1>2, <2>1, SameAfter DEF ReportReached
  <2> QED
    BY <2>1, <2>2 DEF SameInv
<1>13. CASE BytesLeft \/ CopyFlush
  <2>1. k' = k + 1
    BY <1>13 DEF BytesLeft, CopyFlush, ReportAs
  <2> QED
    BY <1>2, <1>3, <2>1
<1> QED
  BY <1>3, <1>5, <1>6, <1>7, <1>8, <1>9, <1>10, <1>11, <1>12, <1>13 DEF Next

(* SameTupleSameReport for every list of types, all tuples and all sizes   *)
(* of the buffers: without -t nothing that came before a tuple, decoded or *)
(* not, shows in its report, although the line, the encoding buffer and    *)
(* the decoders are kept from tuple to tuple.                              *)
THEOREM EarlierTuplesDoNotShow == Spec => []SameTupleSameReport
<1>1. Init => SameInv
  <2> SUFFICES ASSUME Init PROVE SameInv
    OBVIOUS
  <2>1. pc \notin Working /\ reports = <<>>
    BY DEF Init, Working
  <2>2. Len(reports) = 0
    BY <2>1
  <2> QED
    BY <2>1, <2>2 DEF SameInv
<1>2. IInv /\ RInv /\ SameInv /\ [Next]_vars => SameInv'
  BY SameStep
<1>3. SameInv => SameTupleSameReport
  <2> SUFFICES ASSUME SameInv, NEW m \in 1..Len(reports), NEW n \in 1..Len(reports),
                      input.tuples[m] = input.tuples[n], ~input.toast
               PROVE  reports[m] = reports[n]
    BY DEF SameTupleSameReport
  <2>1. ReportReached(m) /\ ReportReached(n)
    BY DEF SameInv
  <2> QED
    BY <2>1, OneReport DEF ReportReached
<1>4. IInv /\ RInv /\ [Next]_vars => RInv'
  BY NextRows
<1> QED
  BY <1>1, <1>2, <1>3, <1>4, InitRows, Invariance, PTL DEF Spec
=============================================================================
