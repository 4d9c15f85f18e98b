----------------------------- MODULE TupleDecode -----------------------------
(***************************************************************************)
(* Decoding tuples with -D (src/decode.c): the list of types is parsed     *)
(* into decoders, each tuple is handed to them column by column, and the   *)
(* texts they produce are encoded and appended to the COPY line, whose     *)
(* buffer is that of src/stringinfo.c.  The line, the encoding buffer and  *)
(* the decoders are file scope and live from tuple to tuple.               *)
(*                                                                         *)
(* Bytes are numbers below 256.  The line is a sequence of characters;     *)
(* those of the text printed for a fixed-size value are told apart only by *)
(* the value they are of, and counted.  The sizes of the buffers and the   *)
(* lengths of these texts are scaled down.                                 *)
(***************************************************************************)
EXTENDS Integers, Sequences

CONSTANTS
  Inputs,          \* the runs considered: types, tuples and build
  NameLen,         \* NAMEDATALEN
  TypesMax,        \* ATTRTYPES_STR_MAX_LEN
  EncodeSize,      \* size of tmp_buff
  InitialSize,     \* "initial default buffer size" of a StringInfo
  AllocLimit,      \* MaxAllocSize
  InflateSize,     \* size of decompress_tmp_buff
  PrintMax,        \* longest text the 512 bytes of CopyAppendFmt hold
  PrintLengths,    \* lengths of the texts of values; of others it is PrintMax
  WordRange        \* 2^32: the unsigned size wraps here

Byte == 0..255
Nul == 0
Tab == 9
Newline == 10
Return == 13
Digit0 == 48
LetterN == 78
Backslash == 92
Lowern == 110
Lowerr == 114

(* The decode functions that expect a value of one size and alignment.     *)
Layout(k, s, a) == [kind |-> k, size |-> s, align |-> a]
IntegerLayouts ==
  {Layout("smallint", 2, 2), Layout("int", 4, 4), Layout("bigint", 8, 8)}
TimeLayouts ==
  {Layout("time", 8, 8), Layout("timetz", 12, 8), Layout("date", 4, 4),
   Layout("timestamp", 8, 8)}
FloatLayouts == {Layout("float4", 4, 4), Layout("float8", 8, 8)}
OctetLayouts ==
  {Layout("uuid", 16, 1), Layout("macaddr", 6, 4), Layout("bool", 1, 1)}
CharLayouts == {Layout("char", 1, 1), Layout("name", NameLen, 4)}
Layouts == IntegerLayouts \cup TimeLayouts \cup FloatLayouts
             \cup OctetLayouts \cup CharLayouts

FixedKinds == {l.kind : l \in Layouts}
Kinds == FixedKinds \cup {"string", "ignore"}
LayoutOf(kind) == CHOOSE l \in Layouts : l.kind = kind

(* callback_table: the names of types and the decoder of each.             *)
CallbackTable ==
  ({"smallserial", "smallint"} \X {"smallint"})
    \cup ({"int", "oid", "xid", "serial"} \X {"int"})
    \cup ({"bigint", "bigserial"} \X {"bigint"})
    \cup ({"real", "float4"} \X {"float4"})
    \cup ({"float8", "float"} \X {"float8"})
    \cup {<<n, n>> : n \in {"time", "timetz", "date", "timestamp", "bool",
                            "uuid", "macaddr", "name", "char"}}
    \cup ({"~"} \X {"ignore"})
    \cup ({"charn", "varchar", "varcharn", "text", "json", "xml"} \X {"string"})

(* One name of the -D argument and its length.                             *)
TypeName == [name : STRING, length : Nat]

(* What -D gets to see of a tuple, "bytes" being those from t_hoff to the  *)
(* end of the block, "len" the item's length, "nulls" the columns whose    *)
(* bit says null; a read past the block finds "beyond".  The columns it    *)
(* was made of, if known, are in "columns"; "inflated" is what             *)
(* decompressing a value in it yields.                                     *)
Column == [kind : Kinds, null : BOOLEAN, long : BOOLEAN, bytes : Seq(Byte)]
Tuple == [hoff : Nat, len : Nat, at : Nat, nulls : SUBSET Nat,
          bytes : Seq(Byte), beyond : Byte, columns : Seq(Column),
          inflated : Seq(Byte)]

Input == [types : Seq(TypeName), tuples : Seq(Tuple),
          toast : BOOLEAN, inflates : BOOLEAN, asserts : BOOLEAN]

ASSUME InputsAssumption == Inputs \subseteq Input
ASSUME HeaderAssumption ==
  \A i \in Inputs : \A n \in 1..Len(i.tuples) :
    /\ i.tuples[n].hoff < WordRange
    /\ i.tuples[n].len < WordRange
ASSUME LimitsAssumption ==
  /\ NameLen \in Nat \ {0} /\ TypesMax \in Nat
  /\ EncodeSize \in Nat /\ EncodeSize >= 4
  /\ InitialSize \in Nat \ {0} /\ AllocLimit \in Nat
  /\ InitialSize <= AllocLimit
  /\ InflateSize \in Nat /\ WordRange \in Nat \ {0}
ASSUME PrintAssumption ==
  /\ PrintMax \in Nat \ {0, 1}
  /\ \A value \in DOMAIN PrintLengths : PrintLengths[value] \in 1..PrintMax

VARIABLES
  input,           \* types, tuples, option -t and build
  named,           \* names of the list parsed so far
  callbacks,       \* file scope: the decoders, one per column
  k,               \* number of the tuple decoded
  col,             \* "curr_attr", from 1
  pos,             \* how far "data" has advanced into the tuple
  size,            \* "unsigned int size": bytes left
  source,          \* characters CopyAppendEncode has yet to encode
  tmpBuff,         \* its static buffer
  text,            \* what CopyAppend appends
  line,            \* file scope: copyString.data
  maxlen,          \* copyString.maxlen
  newlen,          \* local of enlargeStringInfo
  resume,          \* who called it
  pc,
  reports          \* printed so far: COPY rows and errors

buffers == <<line, maxlen, newlen, resume>>
vars == <<input, named, callbacks, k, col, pos, size, source, tmpBuff, text,
          buffers, pc, reports>>

\* Variant: the size is a signed int.
WrapNot(n) == n

Wrap(n) == n % WordRange

Char(b) == [what |-> "char", of |-> <<b>>]
(* The text of a value is as long as the value makes it and never empty:   *)
(* an int of 4 bytes prints as 1 to 11 characters, a float8 as over 300.   *)
PrintLength(what, bytes) ==
  IF <<what, bytes>> \in DOMAIN PrintLengths THEN PrintLengths[<<what, bytes>>]
  ELSE PrintMax
Printed(what, bytes) ==
  [i \in 1..PrintLength(what, bytes) |-> [what |-> what, of |-> bytes]]
Marker(what) == Printed(what, <<>>)
NullMark == <<Char(Backslash), Char(LetterN)>>

Symbol == [what : Kinds \cup {"char", "fetched", "toasted", "inMemory",
                              "compressed"},
           of : Seq(Byte)]

Init ==
  /\ input \in Inputs
  /\ named = 0
  /\ callbacks = <<>>
  /\ k = 1 /\ col = 1
  /\ pos = 0 /\ size = 0
  /\ source = <<>> /\ tmpBuff = <<>> /\ text = <<>>
  /\ line = <<>>
  /\ maxlen = InitialSize
  /\ newlen = 0
  /\ resume = "append"
  /\ pc = "types"
  /\ reports = <<>>

-----------------------------------------------------------------------------
(* ParseAttributeTypesString, called once when the options are read.       *)

(* strlen of the whole list: the names and the commas between them.        *)
LengthUpTo(n) ==
  LET upTo[m \in 0..Len(input.types)] ==
        IF m = 0 THEN 0
        ELSE upTo[m - 1] + input.types[m].length + (IF m > 1 THEN 1 ELSE 0)
  IN upTo[n]
TypesLength == LengthUpTo(Len(input.types))

NamesTooLong ==
  /\ pc = "types" /\ named = 0
  /\ TypesLength > TypesMax
  /\ pc' = "refused"
  /\ UNCHANGED <<input, named, callbacks, k, col, pos, size, source, tmpBuff,
                 text, buffers, reports>>

NextName == input.types[named + 1]
DecodersOf(name) == {c[2] : c \in {c \in CallbackTable : c[1] = name}}

AtName ==
  /\ pc = "types" /\ named < Len(input.types)
  /\ TypesLength <= TypesMax

\* Variant: an empty name stands for the column before it.
EmptyNameKept ==
  /\ AtName
  /\ NextName.length = 0
  /\ named' = named + 1
  /\ callbacks' = Append(callbacks, "ignore")
  /\ UNCHANGED <<input, k, col, pos, size, source, tmpBuff, text, buffers, pc,
                 reports>>

EmptyName ==
  /\ AtName
  /\ NextName.length = 0
  /\ named' = named + 1
  /\ UNCHANGED <<input, callbacks, k, col, pos, size, source, tmpBuff, text,
                 buffers, pc, reports>>

(* AddTypeCallback stores the decoder without looking at the array's size: *)
(* past its end the program may go on or die.                              *)
CallbackSlots == TypesMax \div 2

AddTypeCallback ==
  /\ AtName
  /\ NextName.length > 0
  /\ \E decoder \in DecodersOf(NextName.name) :
       callbacks' = Append(callbacks, decoder)
  /\ named' = named + 1
  /\ \/ UNCHANGED pc
     \/ Len(callbacks) >= CallbackSlots /\ pc' = "crash"
  /\ UNCHANGED <<input, k, col, pos, size, source, tmpBuff, text, buffers,
                 reports>>

UnknownName ==
  /\ AtName
  /\ NextName.length > 0
  /\ DecodersOf(NextName.name) = {}
  /\ pc' = "refused"
  /\ UNCHANGED <<input, named, callbacks, k, col, pos, size, source, tmpBuff,
                 text, buffers, reports>>

NamesDone ==
  /\ pc = "types" /\ named = Len(input.types)
  /\ TypesLength <= TypesMax
  /\ pc' = "tuple"
  /\ UNCHANGED <<input, named, callbacks, k, col, pos, size, source, tmpBuff,
                 text, buffers, reports>>

-----------------------------------------------------------------------------
(* FormatDecode.                                                           *)

Current == input.tuples[k]

(* A byte at an offset from t_hoff, and n of them.                         *)
ByteAt(p) ==
  IF p < Len(Current.bytes) THEN Current.bytes[p + 1] ELSE Current.beyond
BytesAt(p, n) == [i \in 1..n |-> ByteAt(p + i - 1)]

\* Variant: the line keeps what a tuple that could not be decoded left.
FormatDecodeNoClear ==
  /\ pc = "tuple" /\ k <= Len(input.tuples)
  /\ size' = Wrap(Current.len - Current.hoff)
  /\ pos' = 0
  /\ col' = 1
  /\ pc' = "column"
  /\ UNCHANGED <<input, named, callbacks, k, source, tmpBuff, text, buffers,
                 reports>>

FormatDecode ==
  /\ pc = "tuple" /\ k <= Len(input.tuples)
  /\ size' = Wrap(Current.len - Current.hoff)
  /\ pos' = 0
  /\ line' = <<>>
  /\ col' = 1
  /\ pc' = "column"
  /\ UNCHANGED <<input, named, callbacks, k, source, tmpBuff, text, maxlen,
                 newlen, resume, reports>>

AtColumn == pc = "column" /\ col <= Len(callbacks)

(* Report the tuple and go on to the next; an error shows "Partial data".  *)
ReportAs(kind) ==
  /\ reports' = Append(reports, [kind |-> kind, line |-> line])
  /\ k' = k + 1
  /\ pc' = "tuple"

(* The value takes the bytes up to p; the next column starts there.        *)
Advance(p) ==
  /\ pos' = p
  /\ size' = Wrap(size - (p - pos))

AppendText(t) ==
  /\ text' = t
  /\ pc' = "tab"
  /\ UNCHANGED <<source, tmpBuff>>

\* Variant: the buffer keeps the value encoded before.
EncodeTextAfterLast(bytes) ==
  /\ source' = bytes
  /\ pc' = "encode"
  /\ UNCHANGED <<tmpBuff, text>>

EncodeText(bytes) ==
  /\ source' = bytes
  /\ tmpBuff' = <<>>
  /\ pc' = "encode"
  /\ UNCHANGED text

NullColumn ==
  /\ AtColumn
  /\ col \in Current.nulls
  /\ AppendText(NullMark)
  /\ UNCHANGED <<input, named, callbacks, k, col, pos, size, buffers, reports>>

Decoding(kinds) ==
  /\ AtColumn
  /\ col \notin Current.nulls
  /\ size > 0
  /\ callbacks[col] \in kinds

OutOfBytes ==
  /\ AtColumn
  /\ col \notin Current.nulls
  /\ size = 0
  /\ ReportAs("error")
  /\ UNCHANGED <<input, named, callbacks, col, pos, size, source, tmpBuff, text,
                 buffers>>

(* TYPEALIGN of the address the value is at.                               *)
Padding(address, align) == (align - (address % align)) % align

ValueStart == pos + Padding(Current.at + pos, LayoutOf(callbacks[col]).align)
ValueEnd == ValueStart + LayoutOf(callbacks[col]).size

ValueFits == ValueEnd - pos <= size

DecodeFixed ==
  /\ Decoding(FixedKinds \ {"char", "name"})
  /\ ValueFits
  /\ AppendText(Printed(callbacks[col],
                        BytesAt(ValueStart, ValueEnd - ValueStart)))
  /\ Advance(ValueEnd)
  /\ UNCHANGED <<input, named, callbacks, k, col, buffers, reports>>

(* strnlen: a name ends at its first zero byte.                            *)
UpToNul(s) ==
  IF \E i \in 1..Len(s) : s[i] = Nul
    THEN LET e == CHOOSE i \in 1..Len(s) :
                    s[i] = Nul /\ \A j \in 1..(i - 1) : s[j] # Nul
         IN SubSeq(s, 1, e - 1)
    ELSE s

DecodeChars ==
  /\ Decoding({"char", "name"})
  /\ ValueFits
  /\ LET s == BytesAt(ValueStart, ValueEnd - ValueStart)
     IN EncodeText(IF callbacks[col] = "name" THEN UpToNul(s) ELSE s)
  /\ Advance(ValueEnd)
  /\ UNCHANGED <<input, named, callbacks, k, col, buffers, reports>>

DecodeShort ==
  /\ Decoding(FixedKinds)
  /\ ~ValueFits
  /\ ReportAs("error")
  /\ UNCHANGED <<input, named, callbacks, col, pos, size, source, tmpBuff, text,
                 buffers>>

DecodeIgnore ==
  /\ Decoding({"ignore"})
  /\ Advance(pos + size)
  /\ col' = col + 1
  /\ UNCHANGED <<input, named, callbacks, k, source, tmpBuff, text, buffers, pc,
                 reports>>

-----------------------------------------------------------------------------
(* decode_string.                                                          *)

DecodeString ==
  /\ Decoding({"string"})
  /\ pc' = "string"
  /\ UNCHANGED <<input, named, callbacks, k, col, pos, size, source, tmpBuff,
                 text, buffers, reports>>

(* "Skip padding bytes": any zero byte is one.  A byte is read before the  *)
(* size is looked at.                                                      *)
AtPadding == pc = "string" /\ ByteAt(pos) = Nul

\* Variant: the size is not looked at.
SkipPaddingUnchecked ==
  /\ AtPadding
  /\ Advance(pos + 1)
  /\ UNCHANGED <<input, named, callbacks, k, col, source, tmpBuff, text, buffers,
                 pc, reports>>

SkipPadding ==
  /\ AtPadding
  /\ size > 0
  /\ Advance(pos + 1)
  /\ UNCHANGED <<input, named, callbacks, k, col, source, tmpBuff, text, buffers,
                 pc, reports>>

OnlyPadding ==
  /\ AtPadding
  /\ size = 0
  /\ ReportAs("error")
  /\ UNCHANGED <<input, named, callbacks, col, pos, size, source, tmpBuff, text,
                 buffers>>

(* The length word: VARATT_IS_1B_E, VARATT_IS_1B, VARATT_IS_4B_U and       *)
(* VARATT_IS_4B_C on a little-endian machine, in the order they are tried. *)
LengthByte == ByteAt(pos)
AtText == pc = "string" /\ LengthByte # Nul
IsExternal   == LengthByte = 1
IsShort      == LengthByte % 2 = 1 /\ ~IsExternal
IsLong       == LengthByte % 4 = 0 /\ size >= 4
IsCompressed == LengthByte % 4 = 2 /\ size >= 8 /\ input.inflates

(* VARSIZE_EXTERNAL: a pointer on disk, one in memory (those to expanded   *)
(* values came with Greenplum 7, as decompression did), or an unknown tag, *)
(* which an assertion may catch and whose size is otherwise 1.             *)
ExternalTag == ByteAt(pos + 1)
OnDisk == 18
Indirect == 1
Expanded == IF input.inflates THEN {2, 3} ELSE {}
KnownTag == ExternalTag \in {OnDisk, Indirect} \cup Expanded
ExternalSize ==
  2 + (IF ExternalTag = OnDisk THEN 16 ELSE IF KnownTag THEN 8 ELSE 1)

\* Variant: the whole length word is taken for the length.
ShortSizeUnshifted == LengthByte

ShortSize == LengthByte \div 2

LongSize ==
  LengthByte \div 4 + 64 * ByteAt(pos + 1) + 16384 * ByteAt(pos + 2)
    + 256 * 16384 * ByteAt(pos + 3)
RawSize ==
  ByteAt(pos + 4) + 256 * ByteAt(pos + 5) + 65536 * ByteAt(pos + 6)
    + 256 * 65536 * ByteAt(pos + 7)

(* Without -t an external value is only marked.                            *)
External ==
  /\ AtText /\ IsExternal
  /\ KnownTag \/ ~input.asserts
  /\ ExternalSize <= size
  /\ ~input.toast \/ ExternalTag # OnDisk
  /\ AppendText(Marker(IF input.toast THEN "inMemory" ELSE "toasted"))
  /\ Advance(pos + ExternalSize)
  /\ UNCHANGED <<input, named, callbacks, k, col, buffers, reports>>

(* With -t the value is fetched from the TOAST file (RelationDump!Detour). *)
(* Whole or not what was found is encoded and appended; a compressed one   *)
(* may add nothing and yet count as decoded; a missing file ends the row   *)
(* or, when its stream is closed, the program; so does a value too long to *)
(* encode.                                                                 *)
AtPointer ==
  /\ AtText /\ IsExternal
  /\ ExternalSize <= size
  /\ input.toast /\ ExternalTag = OnDisk

Fetch ==
  /\ AtPointer
  /\ \/ /\ \E n \in 0..(EncodeSize - 1) :
             AppendText([i \in 1..n |-> [what |-> "fetched", of |-> <<>>]])
        /\ UNCHANGED col
     \/ pc' = "column" /\ col' = col + 1 /\ UNCHANGED <<source, tmpBuff, text>>
  /\ Advance(pos + ExternalSize)
  /\ UNCHANGED <<input, named, callbacks, k, buffers, reports>>

FetchFails ==
  /\ AtPointer
  /\ ReportAs("error")
  /\ UNCHANGED <<input, named, callbacks, col, pos, size, source, tmpBuff, text,
                 buffers>>

FetchEnds ==
  /\ \/ AtPointer
     \/ /\ AtText /\ IsExternal
        /\ ~KnownTag /\ input.asserts
  /\ pc' = "exit"
  /\ UNCHANGED <<input, named, callbacks, k, col, pos, size, source, tmpBuff,
                 text, buffers, reports>>

Short ==
  /\ AtText /\ IsShort
  /\ ShortSize <= size
  /\ EncodeText(BytesAt(pos + 1, ShortSize - 1))
  /\ Advance(pos + ShortSize)
  /\ UNCHANGED <<input, named, callbacks, k, col, buffers, reports>>

(* A length below 4 makes the length of the text negative: nothing is      *)
(* encoded.                                                                *)
Long ==
  /\ AtText /\ IsLong
  /\ LongSize <= size
  /\ EncodeText(BytesAt(pos + 4, LongSize - 4))
  /\ Advance(pos + LongSize)
  /\ UNCHANGED <<input, named, callbacks, k, col, buffers, reports>>

Inflated == Len(Current.inflated) = RawSize

Compressed ==
  /\ AtText /\ IsCompressed
  /\ LongSize <= size
  /\ IF RawSize <= InflateSize /\ Inflated
       THEN EncodeText(Current.inflated)
       ELSE AppendText(Marker("compressed"))
  /\ Advance(pos + LongSize)
  /\ UNCHANGED <<input, named, callbacks, k, col, buffers, reports>>

BadText ==
  /\ AtText
  /\ CASE IsExternal -> /\ ExternalSize > size
                        /\ KnownTag \/ ~input.asserts
       [] IsShort -> ShortSize > size
       [] IsLong -> LongSize > size
       [] IsCompressed -> LongSize > size
       [] OTHER -> TRUE
  /\ ReportAs("error")
  /\ UNCHANGED <<input, named, callbacks, col, pos, size, source, tmpBuff, text,
                 buffers>>

(* What lies past the block is not the program's: reading it may end it.   *)
PastBlock ==
  /\ \/ Decoding(FixedKinds) /\ ValueFits /\ ValueEnd > Len(Current.bytes)
     \/ /\ pc = "string"
        /\ \/ pos + size > Len(Current.bytes)
           \/ pos + (IF IsExternal THEN 2 ELSE 1) > Len(Current.bytes)
  /\ pc' = "crash"
  /\ UNCHANGED <<input, named, callbacks, k, col, pos, size, source, tmpBuff,
                 text, buffers, reports>>

-----------------------------------------------------------------------------
(* CopyAppendEncode: one character at a time.                              *)

Escape(b) ==
  IF b = Nul THEN <<Char(Backslash), Char(Digit0)>>
  ELSE IF b \in {Return, Tab} THEN <<Char(Backslash), Char(Lowerr)>>
  ELSE IF b = Newline THEN <<Char(Backslash), Char(Lowern)>>
  ELSE IF b = Backslash THEN <<Char(Backslash), Char(Backslash)>>
  ELSE <<Char(b)>>

(* "at least one special symbol and a trailing zero"                       *)
EncodeFull == Len(tmpBuff) > EncodeSize - 2 - 2

EncodeChar ==
  /\ pc = "encode" /\ source # <<>>
  /\ ~EncodeFull
  /\ tmpBuff' = tmpBuff \o Escape(Head(source))
  /\ source' = Tail(source)
  /\ UNCHANGED <<input, named, callbacks, k, col, pos, size, text, buffers, pc,
                 reports>>

EncodeTooLarge ==
  /\ pc = "encode" /\ source # <<>>
  /\ EncodeFull
  /\ pc' = "exit"
  /\ UNCHANGED <<input, named, callbacks, k, col, pos, size, source, tmpBuff,
                 text, buffers, reports>>

EncodeDone ==
  /\ pc = "encode" /\ source = <<>>
  /\ text' = tmpBuff
  /\ pc' = "tab"
  /\ UNCHANGED <<input, named, callbacks, k, col, pos, size, source, tmpBuff,
                 buffers, reports>>

-----------------------------------------------------------------------------
(* CopyAppend: a tab unless the line is empty, then the text, each through *)
(* appendBinaryStringInfo.                                                 *)

NoTab ==
  /\ pc = "tab" /\ line = <<>>
  /\ pc' = "append"
  /\ UNCHANGED <<input, named, callbacks, k, col, pos, size, source, tmpBuff,
                 text, buffers, reports>>

Addition == IF pc = "tab" THEN <<Char(Tab)>> ELSE text
Appending == pc = "append" \/ (pc = "tab" /\ line # <<>>)

AppendTooLarge ==
  /\ Appending
  /\ Len(Addition) >= AllocLimit - Len(line)
  /\ pc' = "exit"
  /\ UNCHANGED <<input, named, callbacks, k, col, pos, size, source, tmpBuff,
                 text, buffers, reports>>

Room == Len(line) + Len(Addition) + 1 <= maxlen

AppendFits ==
  /\ Appending
  /\ Len(Addition) < AllocLimit - Len(line)
  /\ Room
  /\ line' = line \o Addition
  /\ IF pc = "tab" THEN pc' = "append" /\ UNCHANGED col
     ELSE pc' = "column" /\ col' = col + 1
  /\ UNCHANGED <<input, named, callbacks, k, pos, size, source, tmpBuff, text,
                 maxlen, newlen, resume, reports>>

Enlarge ==
  /\ Appending
  /\ Len(Addition) < AllocLimit - Len(line)
  /\ ~Room
  /\ newlen' = 2 * maxlen
  /\ resume' = pc
  /\ pc' = "enlarge"
  /\ UNCHANGED <<input, named, callbacks, k, col, pos, size, source, tmpBuff,
                 text, line, maxlen, reports>>

Needed == Len(line) + (IF resume = "tab" THEN 1 ELSE Len(text)) + 1

Double ==
  /\ pc = "enlarge" /\ Needed > newlen
  /\ newlen' = 2 * newlen
  /\ UNCHANGED <<input, named, callbacks, k, col, pos, size, source, tmpBuff,
                 text, line, maxlen, resume, pc, reports>>

\* Variant: the new size is not clamped to the limit.
ClampedNot == newlen

Clamped == IF newlen > AllocLimit THEN AllocLimit ELSE newlen

Enlarged ==
  /\ pc = "enlarge" /\ Needed <= newlen
  /\ maxlen' = Clamped
  /\ pc' = resume
  /\ UNCHANGED <<input, named, callbacks, k, col, pos, size, source, tmpBuff,
                 text, line, newlen, resume, reports>>

-----------------------------------------------------------------------------
(* The end of FormatDecode: every byte has to be accounted for.            *)

AtEnd == pc = "column" /\ col > Len(callbacks)

BytesLeft ==
  /\ AtEnd
  /\ size # 0
  /\ ReportAs("error")
  /\ UNCHANGED <<input, named, callbacks, col, pos, size, source, tmpBuff, text,
                 buffers>>

\* Variant: a row is printed although bytes are left.
CopyFlushAlways ==
  /\ AtEnd
  /\ ReportAs("row")
  /\ line' = <<>>
  /\ UNCHANGED <<input, named, callbacks, col, pos, size, source, tmpBuff, text,
                 maxlen, newlen, resume>>

CopyFlush ==
  /\ AtEnd
  /\ size = 0
  /\ ReportAs("row")
  /\ line' = <<>>
  /\ UNCHANGED <<input, named, callbacks, col, pos, size, source, tmpBuff, text,
                 maxlen, newlen, resume>>

TuplesDone ==
  /\ pc = "tuple" /\ k > Len(input.tuples)
  /\ pc' = "finished"
  /\ UNCHANGED <<input, named, callbacks, k, col, pos, size, source, tmpBuff,
                 text, buffers, reports>>

Halted == {"finished", "refused", "exit", "crash"}
Ended ==
  /\ pc \in Halted
  /\ UNCHANGED vars

ParseTypes ==
  \/ NamesTooLong \/ EmptyName \/ AddTypeCallback \/ UnknownName \/ NamesDone
DecodeColumn ==
  \/ NullColumn \/ OutOfBytes \/ DecodeFixed \/ DecodeChars \/ DecodeShort
  \/ DecodeIgnore \/ DecodeString
DecodeText ==
  \/ SkipPadding \/ OnlyPadding \/ External \/ Fetch \/ FetchFails \/ FetchEnds
  \/ Short \/ Long \/ Compressed \/ BadText
CopyText ==
  \/ EncodeChar \/ EncodeTooLarge \/ EncodeDone
  \/ NoTab \/ AppendTooLarge \/ AppendFits \/ Enlarge \/ Double \/ Enlarged

Next ==
  \/ ParseTypes
  \/ FormatDecode \/ DecodeColumn \/ DecodeText \/ PastBlock \/ CopyText
  \/ BytesLeft \/ CopyFlush \/ TuplesDone \/ Ended

Spec == Init /\ [][Next]_vars

(***************************************************************************)
(* Properties                                                              *)
(***************************************************************************)

Working == {"column", "string", "encode", "tab", "append", "enlarge"}

(* Every variable keeps its type: the size stays an unsigned int and every *)
(* column has a decoder.                                                   *)
TypeOK ==
  /\ input \in Input
  /\ named \in Nat
  /\ callbacks \in Seq(Kinds)
  /\ k \in Nat \ {0} /\ col \in Nat \ {0}
  /\ pos \in Nat
  /\ size \in 0..(WordRange - 1)
  /\ source \in Seq(Byte)
  /\ tmpBuff \in Seq(Symbol) /\ text \in Seq(Symbol) /\ line \in Seq(Symbol)
  /\ maxlen \in Nat /\ newlen \in Nat
  /\ resume \in {"tab", "append"}
  /\ pc \in Working \cup {"types", "tuple"} \cup Halted
  /\ reports \in Seq([kind : {"row", "error"}, line : Seq(Symbol)])

(* The decoders never leave the tuple: what they have passed and what is   *)
(* left make up the tuple, so the unsigned size does not wrap, unless the  *)
(* header already said it was longer than the item.                        *)
InsideTuple ==
  pc \in Working /\ Current.hoff <= Current.len
    => pos + size = Current.len - Current.hoff

(* "We must always have maxlen > len" (stringinfo.c:26), within the limit  *)
(* of an allocation, and the encoding buffer always has room for its zero. *)
LineFits ==
  /\ Len(line) < maxlen /\ maxlen <= AllocLimit
  /\ Len(tmpBuff) < EncodeSize

(* The array of decoders is half as long as the list of types may be: it   *)
(* is long enough unless every name in the list is "~".                    *)
CallbacksFit ==
  (\E n \in 1..Len(input.types) : input.types[n].length > 1)
    => Len(callbacks) <= CallbackSlots

(* A tuple is reported as it would be anywhere else: nothing that came     *)
(* before it, decoded or not, shows in its row.                            *)
SameTupleSameReport ==
  \A m, n \in 1..Len(reports) :
    input.tuples[m] = input.tuples[n] /\ ~input.toast => reports[m] = reports[n]

(* The decoders the list of types asks for, empty names left out.          *)
DecoderOf(name) == CHOOSE d \in Kinds : <<name, d>> \in CallbackTable

GivenUpTo(n) ==
  LET given[m \in 0..Len(input.types)] ==
        IF m = 0 THEN <<>>
        ELSE IF input.types[m].length = 0 THEN given[m - 1]
        ELSE Append(given[m - 1], DecoderOf(input.types[m].name))
  IN given[n]
Given == GivenUpTo(Len(input.types))

AllNamesKnown ==
  \A n \in 1..Len(input.types) :
    input.types[n].length > 0 =>
      \E d \in Kinds : <<input.types[n].name, d>> \in CallbackTable

(* How the server lays out a tuple's columns: heap_fill_tuple.             *)
ServerAlign(c) ==
  IF c.kind = "name" THEN 1
  ELSE IF c.kind = "string" THEN (IF c.long THEN 4 ELSE 1)
  ELSE LayoutOf(c.kind).align

(* The values it can be given: of the size of their type, texts of up to   *)
(* 1 GB, those with a short length word of up to 126 bytes.                *)
Storable(c) ==
  CASE c.kind \in FixedKinds -> Len(c.bytes) = LayoutOf(c.kind).size
    [] c.kind = "string" ->
         IF c.long THEN Len(c.bytes) + 4 < 64 * 256 * 256 * 256
         ELSE Len(c.bytes) <= 126
    [] OTHER -> FALSE

LengthWord(n) ==
  <<(4 * n) % 256, (n \div 64) % 256, (n \div 16384) % 256,
    (n \div (256 * 16384)) % 256>>

StoredForm(c) ==
  IF c.kind # "string" THEN c.bytes
  ELSE IF c.long THEN LengthWord(Len(c.bytes) + 4) \o c.bytes
  ELSE <<2 * (Len(c.bytes) + 1) + 1>> \o c.bytes

(* The data of the first n columns, and of all.                            *)
FilledUpTo(columns, n) ==
  LET fill[m \in 0..Len(columns)] ==
        IF m = 0 THEN <<>>
        ELSE IF columns[m].null THEN fill[m - 1]
        ELSE fill[m - 1]
               \o [i \in 1..Padding(Len(fill[m - 1]), ServerAlign(columns[m]))
                     |-> Nul]
               \o StoredForm(columns[m])
  IN fill[n]
Filled(columns) == FilledUpTo(columns, Len(columns))

(* The tuple is what the server makes of its columns.                      *)
IsFilled(t) ==
  /\ t.columns # <<>>
  /\ \A n \in 1..Len(t.columns) : t.columns[n].null \/ Storable(t.columns[n])
  /\ t.hoff <= t.len /\ t.at % 8 = 0
  /\ t.len - t.hoff <= Len(t.bytes)
  /\ Len(Filled(t.columns)) = t.len - t.hoff
  /\ SubSeq(t.bytes, 1, t.len - t.hoff) = Filled(t.columns)
  /\ t.nulls = {n \in 1..Len(t.columns) : t.columns[n].null}

(* The columns before "~" and their decoders are those of the tuple.       *)
ShownCount ==
  IF Given # <<>> /\ Given[Len(Given)] = "ignore" THEN Len(Given) - 1
  ELSE Len(Given)

Describes(t) ==
  /\ AllNamesKnown /\ Given # <<>> /\ ShownCount <= Len(t.columns)
  /\ \A n \in 1..ShownCount : Given[n] = t.columns[n].kind
  /\ Given[Len(Given)] # "ignore" => Len(t.columns) = ShownCount

(* The text format of COPY.                                                *)
EscapeLetter ==
  [b \in {Nul, Tab, Newline, Return, Backslash} |->
     CASE b = Nul -> Digit0 [] b = Tab -> 116 [] b = Newline -> Lowern
       [] b = Return -> Lowerr [] b = Backslash -> Backslash]

CopyFormUpTo(s, n) ==
  LET form[m \in 0..Len(s)] ==
        IF m = 0 THEN <<>>
        ELSE form[m - 1] \o (IF s[m] \in DOMAIN EscapeLetter
                               THEN <<Char(Backslash), Char(EscapeLetter[s[m]])>>
                               ELSE <<Char(s[m])>>)
  IN form[n]
CopyForm(s) == CopyFormUpTo(s, Len(s))

Field(c) ==
  IF c.null THEN NullMark
  ELSE IF c.kind \in {"string", "char"} THEN CopyForm(c.bytes)
  ELSE IF c.kind = "name" THEN CopyForm(UpToNul(c.bytes))
  ELSE Printed(c.kind, c.bytes)

(* The fields of the first n columns, and of all that are shown.           *)
LineUpTo(t, n) ==
  LET row[m \in 0..ShownCount] ==
        IF m = 0 THEN <<>>
        ELSE row[m - 1] \o (IF m > 1 THEN <<Char(Tab)>> ELSE <<>>)
               \o Field(t.columns[m])
  IN row[n]
RowOf(t) == [kind |-> "row", line |-> LineUpTo(t, ShownCount)]

(* What the decoders are not up to.  A tab is written like a carriage      *)
(* return; a first field that is empty loses its tab; a name is looked for *)
(* at a multiple of 4; the low byte of a length word may be zero; "~" must *)
(* find a value.                                                           *)
NoTabs(t) ==
  \A n \in 1..ShownCount : Tab \notin {t.columns[n].bytes[i] :
                                         i \in 1..Len(t.columns[n].bytes)}
FirstShown(t) == ShownCount > 0 => Field(t.columns[1]) # <<>>
NamesAligned(t) ==
  \A n \in 1..ShownCount :
    t.columns[n].kind = "name" => Len(FilledUpTo(t.columns, n - 1)) % 4 = 0
LowByteKept(t) ==
  \A n \in 1..ShownCount :
    t.columns[n].kind = "string" /\ t.columns[n].long
      => (Len(t.columns[n].bytes) + 4) % 64 # 0
ValueToIgnore(t) ==
  ShownCount < Len(Given) =>
    /\ ShownCount < Len(t.columns)
    /\ ~t.columns[ShownCount + 1].null

Ordinary(t) ==
  NoTabs(t) /\ FirstShown(t) /\ NamesAligned(t) /\ LowByteKept(t) /\ ValueToIgnore(t)

Due ==
  [n \in 1..Len(input.tuples) |->
     LET t == input.tuples[n]
     IN [known |-> IsFilled(t) /\ Describes(t) /\ Ordinary(t),
         report |-> IF IsFilled(t) /\ Describes(t) THEN RowOf(t) ELSE <<>>]]
Status ==
  IF pc = "finished" THEN "complete"
  ELSE IF pc \in Halted THEN "failed" ELSE "decoding"

Rows == INSTANCE RowReport WITH due <- Due, status <- Status

(* Each tuple is reported once and in order, one that the server wrote, is *)
(* described by the types and has none of these oddities as the COPY row   *)
(* of its values.                                                          *)
RowSpec == Rows!Spec

(* The length a tuple of fixed-size columns must have.                     *)
FixedUpTo(t, n) ==
  LET end[m \in 0..Len(Given)] ==
        IF m = 0 THEN 0
        ELSE IF m \in t.nulls THEN end[m - 1]
        ELSE end[m - 1]
               + Padding(t.at + end[m - 1], LayoutOf(Given[m]).align)
               + LayoutOf(Given[m]).size
  IN end[n]
FixedLength(t) == FixedUpTo(t, Len(Given))

(* A tuple of fixed-size columns that is too short or too long, if only by *)
(* one byte, is refused and never shown as a row.                          *)
WrongLengthRefused ==
  AllNamesKnown /\ (\A n \in 1..Len(Given) : Given[n] \in FixedKinds) =>
    \A n \in 1..Len(reports) :
      LET t == input.tuples[n]
      IN t.len - t.hoff # FixedLength(t) => reports[n].kind = "error"

(* Only a tuple too large for a buffer ends the program in the middle: at  *)
(* two characters for a byte of text, and for any other value a text of    *)
(* the longest kind, each with its tab.                                    *)
SmallTuplesNeverEnd ==
  pc = "exit" /\ ~input.toast /\ ~input.inflates /\ Current.hoff <= Current.len =>
    LET n == Current.len - Current.hoff
    IN \/ input.asserts
       \/ 2 * n > EncodeSize - 4
       \/ 2 * n + (PrintMax + 1) * Len(callbacks) > AllocLimit

(* "xxxxxx00 4-byte length word, aligned, uncompressed data (up to 1G)"    *)
(* (decode.c:894): texts of every length are restored.                     *)
LongTextRestored ==
  \A n \in 1..Len(reports) :
    LET t == input.tuples[n]
    IN IsFilled(t) /\ Describes(t) /\ NoTabs(t) /\ FirstShown(t)
         /\ NamesAligned(t) /\ ValueToIgnore(t)
         => reports[n] = RowOf(t)

(* "~ -- ignores all attributes left in a tuple" (README.pg_filedump:102). *)
RestIgnored ==
  \A n \in 1..Len(reports) :
    LET t == input.tuples[n]
    IN IsFilled(t) /\ Describes(t) /\ NoTabs(t) /\ FirstShown(t)
         /\ NamesAligned(t) /\ LowByteKept(t)
         => reports[n] = RowOf(t)
=============================================================================
