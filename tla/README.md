# Verification of filedump (pg_filedump for Greenplum)

`pg_filedump` reads one file of a PostgreSQL or Greenplum data directory and
prints it: a heap or index segment file block by block, an append-only segment
file storage block by storage block, or the control file.  It is one process
with one thread and no state on disk of its own.  What makes it hard is not
concurrency in the usual sense but

- **untrusted input**: every length and offset comes from the file, which may be
  damaged, cut short, or not be what the options say;
- **relative movement** through a stream whose reads are short at the end;
- **file-scope variables** shared by two activations of the same function, when
  the dump of a block starts the dump of another file in the middle of it;
- **error paths** that set a result, a return code and an exit code by hand;
- an **option parser** that goes on after some errors and not after others;
- **layout arithmetic**: alignment, length words, special sections that share a
  size, and a calendar, where one wrong comparison shows on one input in a
  thousand.

The modules here are translated from `gpdb.c`, `pg_filedump.c`, `decode.c` and
`stringinfo.c`.
TLC checks them on small instances; TLAPS proves every safety property of the
passing runs and the refinements, for all files, option sets and sizes, each
under the hypotheses section 4 names.

## 1. Inventory

| component | code | state it keeps | operations | modelled by |
|---|---|---|---|---|
| append-only dumper | `gpdb.c` `DumpAppendOnlyFileContents` and the two `Dump_AppendOnlyStorage_*` functions | stream position, buffer size, bytes read, `blkHdr`, `largeContentFragments`, `blocksRemaining`, displayed length and position, block number | read ahead, decode header, grow and re-read, check and describe content, count fragments, close a logical block, seek | `AppendOnlyDump` (implements `StorageScan`) |
| relation dumper | `pg_filedump.c` `GetBlockSize`, `DumpFileContents`, `FormatBlock`, `FormatHeader`, `FormatItemBlock`, `FormatSpecial` | per activation: stream, current block, buffer, item; file scope: `bytesToFormat`, `pageOffset`, `specialType`, `exitCode` | seek to range, read block, header, items, special section, next block | `RelationDump` (implements `RangeDump`) |
| TOAST detour | `decode.c` `decode_string`, `ReadStringFromToast`, `ToastChunkDecode` | bytes collected, the value's buffer | open the TOAST file, dump it looking for chunks, append the value | `RelationDump`, level `"toast"` |
| command line and dispatch | `pg_filedump.c` `ConsumeOptions`, `main`; `SET_OPTION` in `pg_filedump.h`, `GPDB_SET_OPTION` in `gpdb.h` | option words, range, sizes, packed append-only fields, return code, exit code | one per kind of option, masking, dispatch | `CommandLine` |
| attribute decoders | `decode.c` `ParseAttributeTypesString`, `FormatDecode`, `decode_*` | list of decoders; data pointer, remaining size | parse the list, one decoder per SQL type | `TupleDecode` (implements `RowReport`) |
| COPY line | `decode.c` `CopyAppend`, `CopyAppendEncode`, `CopyClear`, `CopyFlush`; `stringinfo.c` | the line, its buffer's size, the encoding buffer | append, encode, flush, enlarge | `TupleDecode` |
| special section classification | `pg_filedump.c` `GetSpecialSectionType`, `IsBtreeMetaPage` | `specialType` | a decision table over sizes and page ids | `PageFormat`; boundary conditions also in `RelationDump!SpecialOf` |
| item details | `pg_filedump.c` `FormatItem` | `exitCode` | interpret an item as heap, index or SP-GiST tuple, walk its nodes | `PageFormat` |
| calendar arithmetic | `decode.c` `j2date`, `decode_date`, `decode_timestamp`, `decode_time`, `decode_timetz` | none | number of days or microseconds to fields | `CalendarDate` |
| hex dump | `pg_filedump.c` `FormatBinary` | none | rows of 16 bytes with addresses | `PageFormat`: which ranges, not their layout |
| control file | `pg_filedump.c` `FormatControl` | none | one read, one CRC, many prints | read and dispatch only |
| server stubs | `mock.c` | none | empty bodies so that server sources link | not modelled |
| build and tests | `Makefile*`, `concourse/`, `sql/`, `expected/`, `test/` | | | not modelled: not program logic |

**How they interact.**  `main` calls `ConsumeOptions`, sizes a buffer and calls
one dump function.  `DumpFileContents` calls `FormatBlock`, which with `-D`
calls `FormatDecode` for a tuple; with `-t` a decoder that meets an external
value calls `ReadStringFromToast`, which calls `DumpFileContents` again on the
TOAST file lying beside the main one.  The two activations have their own
locals and share the file-scope variables: this call cycle is the only
re-entrance in the program and the source of most of its surprises.  The
append-only dumper is self-contained; it calls the server's
`AppendOnlyStorageFormat_*` and the decompression libraries.

**What would make each component correct.**

- Append-only dumper: it never loses the block boundaries, whatever the mixture
  of short reads, re-reads and seeks; visits each block once; prints true
  positions and numbers, a large content with its fragments counting once;
  decompresses only blocks it holds; returns 0 only after the whole file; ends.
- Relation dumper: the block shown under a number is that block; the range is
  dumped exactly; of a healthy file no error is printed but that the range asked
  for begins past its end; errors show in the exit status; it ends.
- TOAST detour: the outer block is gone through to its end and every item that
  lies beyond it is reported, whatever was fetched in between; sound items are
  not judged by what the nested dump left; the value comes back whole.
- Command line: every line the usage text and the comments describe is accepted,
  and no other; the values in force are those given; no dump function starts
  without a file.
- Attribute decoders: they stay inside the tuple; a tuple as the server writes
  it comes out as the COPY row of its values, one that is too long or too short
  by a byte does not come out; no tuple shows in the row of another.
- COPY line: neither buffer is written past its end, whatever is appended; only
  a tuple too large for a buffer ends the program.
- Special sections and items: a page is taken for what it is; a sound page
  raises no error and is interpreted in full; an exit code of 0 means that the
  page was sound; nothing is dumped that was not read; the nodes of an inner
  tuple, sound or damaged, are printed as long as the pointer is sane.
- Calendar: what is printed is what was stored.

The list `hazards` in `PROJECT.json` goes through the code line by line; each
entry names the properties that watch it, or says why none does.

## 2. Modules

| module | what it is |
|---|---|
| `StorageScan` | abstract: blocks visited front to back, each once, until the end or until the scan gives up |
| `AppendOnlyDump` | the loop of `DumpAppendOnlyFileContents`, one action per step of its body |
| `MCAppendOnlyDump` | small segment files for TLC |
| `AppendOnlyDump_proofs` | its theorems |
| `RangeDump` | abstract: the blocks of a range, each under its number, once, in order |
| `RelationDump` | `DumpFileContents` on two levels with shared file-scope variables |
| `MCRelationDump` | small heap, index and TOAST files |
| `RelationDump_proofs` | its theorems: types, safety of one scan, the detour, `RangeDump` implemented, values brought back, no false alarm |
| `CommandLine` | `ConsumeOptions` and `main` |
| `MCCommandLine` | vocabularies of arguments |
| `CommandLine_proofs` | its theorems |
| `RowReport` | abstract: each tuple reported once, in order, known ones by their rows |
| `TupleDecode` | `-D`: the list of types, the decoders, the encoding buffer, the COPY line |
| `MCTupleDecode` | lists of types with tuples as the server makes them, and damaged ones |
| `TupleDecode_proofs` | its theorems on types, the tuple's bounds and the buffers |
| `Recursion` | lemmas: induction up to a number, functions defined by recursion on a number |
| `TupleRows_proofs` | what decoding is for: `RowReport` implemented, room for the decoders, wrong lengths refused, equal tuples reported alike |
| `PageFormat` | `FormatBlock` on one page: kind, header, items, special section |
| `MCPageFormat` | pages of every access method, sound and damaged |
| `PageFormat_proofs` | its theorems |
| `CalendarDate` | `j2date` and the decoders of dates and times |
| `MCCalendarDate` | days over centuries, ticks of a short clock |
| `CalendarDate_proofs` | its theorems |

`RelationDump` is the frame of the heap and index side: its `FormatHeader`,
item loop and `FormatSpecial` keep what is shared between blocks and between
activations.  `PageFormat` is what these functions do with one page, `TupleDecode`
what `FormatDecode` does with one item after another, `CalendarDate` what four of
its decoders print.  They meet in the code at a call: `RelationDump!MainItem` is a
whole `FormatDecode`, `TupleDecode!Fetch` a whole detour, and
`TupleDecode!DecodeFixed` prints a text of some length for the fields of
`CalendarDate`.

### AppendOnlyDump

One iteration of the code's loop is the sequence of `pc` values `read`,
`header`, `grow`, `content`, `close`, `seek`.  Variables keep the code's names
(`blockSize`, `bytesRead`, `blkHdr`, `currentBlock`) or shorten them:
`fragments` is `largeContentFragments`, `remaining` is `blocksRemaining`,
`display` is `overallBlockLenDisplay`, `position` is
`totaloverallBlockPosition`.  `start` is a history variable: the offset the
buffer's first byte came from.  `ioFault` records that some `fread` or `fseek`
failed, which the code does not distinguish from the end of the file.

| action | code |
|---|---|
| `Enter` | the refusal of QuickLZ levels (gpdb.c:661-674) |
| `ReadAhead`, `ReadNothing` | `fread` at the loop head (681-693); nothing read leaves the loop with `success` still set |
| `DumpHeader` | `Dump_AppendOnlyStorage_ContentHeaderInfo` and its early exit (695-701) |
| `GrowBuffer`, `GrowFails`, `BufferSuffices` | the second read of a long compressed block (718-741) |
| `Content` | block checksum and content description (743-766); `success` is set again |
| `Fragment`, `LargeContent` | the accounting of large contents (767-780) |
| `Close` | displayed length, block number, position (782-790) |
| `SeekNext`, `SeekFails` | the relative seek (798-817) |

A file is its length and the storage header at each offset where one starts.
What the server's library decodes from those bytes is the record `Header`: kind,
lengths, whether it is compressed and whether its checks succeed.  A header the
file cuts short is completed with whatever the buffer held: any header of
`StaleHeaders` at least as long as what was read (the length fields come first
in a storage header, so a stale length is never shorter than that).

### RelationDump

`pc`, `fpos`, `currentBlock`, `own` (bytes this activation read) and `item` have
one entry per level, `"main"` and `"toast"`; `bytesToFormat`, `pageOffset`,
`specialType` and `exitCode` are single variables, as in the code.  `active` is
the level that runs; the outer one is suspended at the item whose value the
inner one looks for.  `errors` is a history variable: what has been printed as
an error, by level and kind.  `"premature"` is the message about a file that ends
before the first block asked for (2349); it is the only one that sets no exit
code.

| action | code |
|---|---|
| `Start`, `StartFails` | block size, range seek (pg_filedump.c:2307-2337) |
| `ReadBlock`, `ReadNothing` | the read and the choice of formatter (2343-2382), the head of `FormatBlock` (1961-1962) |
| `FormatHeader` | 1073-1227 with its three error conditions |
| `ItemsDone`, `ItemBeyondBlock`, `MainItem`, `ToastItem` | one round of the item loop (1312-1421) |
| `Detour`, `DetourUnopened`, `Return` | `ReadStringFromToast` (decode.c:1046-1140) |
| `FormatSpecial` | 1747-1943: which sections are errors |
| `NextBlock` | end of range, end of a TOAST search (2384-2402) |
| `Exit` | `main` replaces `exitCode` (2461) and exits |

A tuple has at most one external value here; a row with several makes several
detours one after the other, each of which starts afresh.  Compressed values and
chunk tuples that do not decode are left out.

### CommandLine

`args[x]` is the argument looked at.  An argument is a record of what the
program can find out about it (is it `-R`, a group of switches, a word; is it a
number; does it open), so no string is ever taken apart.  Options with a value
share the actions `FlagRepeated`, `ValueMissing` and `ValueRefused`, which
differ in the code only in whether they set `exitCode`, and have an action each
for a good value.  `Switch` is one switch letter; `Check` is everything after
the loop; `Dispatch` is `main`.

`AcceptsGrammar` compares with the line as the repository describes it
(`WellFormed`): each option once (the comments at 269 to 547, and 624), a level of 1
to 4 (usage text, 206), only `-f` and `-S` beside `-c` (797).  The code accepts
more, and the property names what: `RepeatUnseen`, an option repeated whose first
use left no trace (`-v`, `-T none`, `-O row`; 458, 474, 547); `HighLevel`, up to
15 (531); `ControlWithOthers`, since only two of the option words are looked at
beside `-c` (790).  Every line of the grammar is accepted, and every line
accepted that is not of the grammar is one of these three.

### TupleDecode

A run is a list of types with the tuples met under it.  A tuple is its item
length, `t_hoff`, the columns whose null bit is set, and the bytes from `t_hoff`
to the end of the block; where it was made by the server the columns are kept
beside it, so that the row can be compared with them.  `pos` and `size` are
"data" and "size" of `FormatDecode`; `size` is unsigned and wraps at `WordRange`.
A text is kept character by character, since it is escaped; what a value of fixed
size is printed as is kept as its length (`PrintLengths`, at most `PrintMax`, the
512 bytes of `CopyAppendFmt`) and the value each character is of, and a value
fetched from a TOAST file as a text of any length the encoding buffer holds.
The tags of expanded values are known to builds that can decompress, as
Greenplum 7 does; in the others they are unknown (`Expanded`).

| action | code |
|---|---|
| `NamesTooLong`, `EmptyName`, `AddTypeCallback`, `UnknownName`, `NamesDone` | `ParseAttributeTypesString`, `AddTypeCallback` (decode.c:378-455) |
| `FormatDecode`, `NullColumn`, `OutOfBytes` | the head of a tuple and of a column (960-986) |
| `DecodeFixed`, `DecodeChars`, `DecodeShort`, `DecodeIgnore` | the decoders of values of one size (490-832), one layout each |
| `SkipPadding`, `OnlyPadding`, `External`, `Fetch`, `FetchFails`, `FetchEnds`, `Short`, `Long`, `Compressed`, `BadText` | `decode_string` (834-951), its four kinds of length word in the code's order |
| `EncodeChar`, `EncodeTooLarge`, `EncodeDone` | `CopyAppendEncode` (262-338), one character a step |
| `NoTab`, `AppendTooLarge`, `AppendFits`, `Enlarge`, `Double`, `Enlarged` | `CopyAppend` and `enlargeStringInfo` (stringinfo.c:142-251), one doubling a step |
| `BytesLeft`, `CopyFlush` | the end of a tuple (1000-1008) |
| `PastBlock` | reading past the block buffer, which may end the program |

### PageFormat

One page, read in whole or up to `bytesToFormat`, with the options `-d`, `-i`,
`-f`, `-x` and `-y`.  `page` has the fields of the header, the words of the
special section that the code compares, and its items; `dumped` collects the
ranges handed to `FormatBinary`, `shown` the interpretation of each item.
`StructSize` is `sizeof(PageHeaderData)`, which is not the offset of the item
array in older servers; the code uses both.

| action | code |
|---|---|
| `Classify`, `DumpRaw` | `GetSpecialSectionType` (pg_filedump.c:900-1014), the head of `FormatBlock` |
| `HeaderCut`, `FormatHeader`, `StatedBeyondBlock` | `FormatHeader` and `IsBtreeMetaPage` (1016-1227) |
| `ItemsDone`, `ItemBeyondBlock`, `ItemNotDetailed`, `ItemTooShort` | the item loop (1312-1422) |
| `SizedItem`, `HeapItem`, `InnerDiffers`, `InnerUnaligned`, `InnerItem`, `Node`, `NodesDone` | `FormatItem` (1428-1744) |
| `NoSpecial`, `FormatSpecial` | 1747-1943, 2011 |

### CalendarDate

A column holds a number; one action per decoder prints its fields.  `j2date` is
kept division by division, with a name for each.  The lengths of a second, a
minute, an hour and a day are constants, so that TLC can take every tick of a
short day; the calendar is the real one.  `DateRestored` compares with the
definition of the Gregorian calendar (`LeapYear`, `MonthLength`, `DayNumber`),
not with the inverse of `j2date`.  Days are those whose sum with the epoch
(decode.c:638) fits an int32, up to `LastJulian`; the two infinities are not
among them.

## 3. Runs

Every passing run explores all states.  Liveness is checked where a loop depends
on what a file holds and something could bring it back: the walk over an
append-only file, and two nested dumps.  `relation` leaves block numbers and the
end to `toast_detour`, which runs the same module with the detour in it.

| run | configuration | shows |
|---|---|---|
| `append_only` | `AppendOnlyDump.cfg` | all safety properties, `ScanSpec`, `Terminates` |
| `relation` | `RelationDump.cfg` | every block of the range once, no error about what is in a healthy file, without TOAST |
| `toast_detour` | `ToastDetour.cfg` | the nested dump: what it leaves intact, what it returns, true block numbers, no damaged item of the outer block lost (`DamageReported`), `Terminates` |
| `command_line` | `CommandLine.cfg` | every line of the grammar is accepted, no other but for three named departures, with the values it gives |
| `decode_rows` | `TupleDecode.cfg` | tuples decoded one after another: `RowSpec`, what is refused, the buffers |
| `page_format` | `PageFormat.cfg` | kinds of page, no false alarm, what silence means, what is dumped, how far damaged tuples are walked |
| `calendar` | `CalendarDate.cfg` | dates, timestamps, times and zones are printed as stored |
| `append_only_big_plain` | `AppendOnlyBigPlain.cfg` | **violation** of `HealthyQuiet` |
| `toast_clobbers_extent` | `ToastClobbersExtent.cfg` | **violation** of `ItemsJudgedFairly` |
| `exit_status_lost` | `ExitStatusLost.cfg` | **violation** of `StatusTellsErrors` |
| `text_length_word` | `TextLengthWord.cfg` | **violation** of `LongTextRestored` |
| `ignore_rest` | `IgnoreRest.cfg` | **violation** of `RestIgnored` |

**Bounds, and why they are enough.**

- `append_only`: files of up to 3 storage blocks out of 12 templates (every
  kind; shorter than, equal to and longer than the buffer; compressed or not;
  each defect), cut by 0, 1 or 3 units.  Three blocks are a large content with
  two fragments, a buffer grown in the middle and used afterwards, and a damaged
  block between good ones.  Nothing in the code looks further back than one
  block: only the counters do.
- `relation`: files of up to 2 pages out of 9 templates, cut inside the header,
  inside the items or by one unit; ranges before, across and past the end.  The
  loop carries one block number and one buffer from block to block.
- `toast_detour`: main files of up to 2 pages out of 3 (plain, with a pointer and
  a sound item behind it, with a pointer and an item beyond the block behind
  it), whole or cut, so up to two detours; TOAST files in order, shuffled, cut,
  incomplete, with an old version of a chunk, empty, or absent.  All interference
  goes through four scalar variables, so one detour and the items after it show
  it.
- `command_line`: all lists of up to 4 arguments over 17 heap and index words
  and up to 5 over 10 append-only words.  The parser looks at most two arguments
  ahead and the file is the last: 4 suffice for an option, both its values and
  the file, 5 for two options with a value and the file.
- `decode_rows`: lists of two types (and longer ones for the parser) over every
  kind of layout and length word; each row as the server makes it, between two
  copies of it cut by a byte or padded by 1 or 4, at every misalignment, with a
  header longer than the item; texts of no, one and several characters, of every
  character that is escaped, and of lengths around a multiple of 64 and around
  each buffer.  Buffers are 98, 120 and 64 bytes, so that the largest texts fill
  each of them.  Values print as 1, 3, 4, 5 or 8 characters (`PrintMax`), so rows
  of numbers differ in length too.  The word wraps at 2000: small enough that a negative size shows
  as a large one, and wider than what a list of 15 characters can span, which the
  program's own word is too (`WordHolds`: 1024 * 87 + 255 is below 2^32).  A list of
  types may have 15 characters, so 8 decoders overflow their array of 7.
- `page_format`: blocks of 128 bytes with the real sizes of headers, tuples and
  special sections; a sound page of each access method and its damaged copies
  (pointers out of order or off the page, wrong version, wrong marks, items off
  the page, too short, of another size, with misaligned prefix or nodes), read
  up to every boundary the code compares with.  No page matters to the next.
- `calendar`: the first days j2date can count from and the last ones a date can
  hold; every day over the turn from before to after Christ, and over 421 years
  up to 2004, which hold every kind of year (leap, century, 400 years); every
  tick of a day of 48 ticks in spans around 2000, 1900 and 1 BC.  `LastJulian` is
  2147483647; the last days taken are 180000 below it, since TLC's own integers
  have 32 bits and the sum with 32044, which C does unsigned, must fit them.
- The unsigned int of `relation` is too large to wrap in its run (`SeekFits`).

**Fairness.**  `FairSpec` is `Spec /\ WF_vars(Next)`: the program is one thread
that never waits for anything, so it keeps taking steps until it exits.  No
choice is assumed to be made fairly: `Terminates` holds whatever the file holds
and whichever calls fail.

**Deadlock** is checked in every run; the stuttering actions `Returned`, `Ended`
and `Exited` stand for a program that has returned or exited.

### What the violations say

1. *append_only_big_plain*: with `-M -k`, the block checksum is computed over
   `overallBlockLen` bytes although the buffer of an uncompressed block is not
   grown; the comment at gpdb.c:709 argues that headers are all that is needed,
   which verification is not covered by.
2. *toast_clobbers_extent*: the nested dump leaves `bytesToFormat` at what it
   read last, 0 at its end of file; the rest of the outer block is then said to
   extend beyond the block.  It happens when the value is not found complete.
3. *exit_status_lost*: the dump's result replaces the exit code.
4. *text_length_word*: `decode_string` skips zero bytes as padding, and the
   first byte of a length word is zero when the length is a multiple of 64.  Such
   a text is read one byte late and comes out as something else or as an error.
5. *ignore_rest*: `FormatDecode` handles a NULL before it asks the decoder of
   the column, so `~` over a NULL ignores nothing and the tuple is refused.

Also met while modelling, and not given a run: fragments of a file no server
wrote can overdraw `blocksRemaining` (gpdb.c:769 has an assertion that is
compiled to nothing); `pageOffset` is left at a TOAST block after a detour
(pg_filedump.c:1961), and so is `bytesToFormat` (2343), so an item that lies past
what was read of a partial last block passes for one that is there if a detour
before it ended in a full TOAST block (`Beyond` leaves these out); eight refusals of the option parser exit with 0 (for
instance line 465); levels up to 15 are accepted where the usage text says 1 to
4 (206 and 531), and `-M`, `-z`, `-v`, `-s`, `-n`, `-T`, `-L` and `-O` beside `-c`
where the message says that only `-S` and `-f` are (790-799); a failed `fread` counts as the end of the file; chunks of a
value are taken in physical order (1395) and an incomplete value is printed at
its full length (decode.c:1114).  TLC also found, in models of the same form:
`segmentNumber` of the main file is applied to the checksums of TOAST pages
(pg_filedump.c:1195); a TOAST file that cannot be opened is closed all the same
(decode.c:1129); `blockSize * blockStart` wraps an `unsigned int`, so another
block is shown under the number asked for (pg_filedump.c:2326); `-T none -T zlib`
and `-O row -O column` are accepted (474); `-c -z` dumps the control file as an
append-only one (2453).  A tab in a value is written like a carriage return
(decode.c:313), a row whose first value is an empty string loses a field (252), a
name is looked for at a multiple of 4 (797): `RowSpec` has each as a hypothesis
with a name of its own.  A GIN page whose right sibling is block 5911 is taken
for a sequence; meta pages other than a B-tree's are formatted as items; the
special section of a partial block is dumped from what the block before it left
in the buffer; 'infinity' overflows the addition of the epoch.

## 4. Proofs

All theorems hold for every value of the constants that satisfies the named
assumptions of the module (`ImagesAssumption`, `StaleAssumption`,
`BufferAssumption`; `FilesAssumption`, `OptionsAssumption`, `ModesAssumption`,
`SizesAssumption`; `ArgListsAssumption`, `CompressionsAssumption`;
`InputsAssumption`, `HeaderAssumption`, `LimitsAssumption`, `PrintAssumption`;
`PagesAssumption`; `ClockAssumption`, `DatesAssumption`, `TimesAssumption`): what a file, an
argument list, a tuple and a page are, which options stand together, that sizes
are positive, that a buffer holds at least one header, that a day can be counted.
TLC evaluates these assumptions in the passing runs.

- **AppendOnlyDump_proofs**: `TypeCorrect`, `WalkStaysInSync`,
  `PositionIsOffset`, `SuccessIsComplete`, `FailureIsExplained`,
  `CompressedBlocksAreHeld`, `WalkImplementsScan`, `LargeContentsAreFollowed`,
  `HealthyFilesAreQuiet`, `WalkCannotGoOn`.  `InSync` speaks of the loop
  head only and is not inductive: between two heads the stream stands anywhere.
  The invariant `IInv` adds that while a block is in hand `start` is a block
  boundary inside the file and the stream stands at the end of what was read
  from there (`Located`, `FilledFromStart`); that the header in hand leads on to
  the next boundary or past the end and is the block's own when the file holds
  all of it (`HeaderLeadsOn`, `HeaderIsOwn`); and that `position` and `display`
  point at `start` until the block is closed and at its end afterwards
  (`StartReported`).  One lemma per action preserves it.  The refinement maps
  the abstract position to `fpos` at the loop head and to `start` inside an
  iteration, so the seek is the step that visits the block.  On top of `IInv`
  stand two more invariants: a header the file holds in full is in hand as it is
  stored and was accepted (`HeaderAsStored`), and, in a finished file, what the
  walk believes of the large content and of the block number is what the file
  says (`Followed`), at the start of a block before its content is looked at, with
  the block paid off after, and with its end counted once it is closed.  That one
  more logical block lies before the next header needs that no block starts
  inside another, a part of `Coherent`.  `HealthyFilesAreQuiet` is proved under
  the hypothesis `ContentBehindHeader`, that a block with content is longer than
  its header: of an empty one the description reads what is not in the buffer.
  `WalkCannotGoOn` says that the natural number `StepsLeft`, 8 for each byte of
  the file ahead and one for each place left in the iteration, falls with every
  step: an accepted header leads on by at least one byte (`HeaderLeadsOn`).
- **RelationDump_proofs**: `TypeCorrect`, `BlockNumbersAreTrue`,
  `DumpImplementsRange`, `ValuesComeBack`, `NoAlarm`, `NoAlarmWhenFound`,
  `DamageIsReported`, `DumpCannotGoOn`, all under the hypothesis `SeekFits`, that the start
  position of every range fits the word; where it wraps, another block is shown.
  `IInv` adds for each level that at the loop head its stream stands at
  `BlockSize` times its current block or at the end of the file (`FrameOK`),
  that inside a block it holds what it read there (`HoldsBlock`), and that the
  outer level is in the middle of an item while the inner one is open
  (`Nesting`).

  *The refinement of `RangeDump`.*  A step is first sorted by what it is to the
  outer loop: everything on the TOAST level, and everything between a read and
  the end of the loop body, leaves it inside its block (`StaysInBlock`) and
  stutters.  `RInv` says that the loop never passes the last block asked for
  (`WithinRange`), that a control file is one block (`OneControlBlock`), and that
  the loop ended with the range or the file (`EndExplained`), from which the step
  to "complete" follows.

  *The value comes back.*  While the detour looks for a value whose chunks lie in
  order, what it has collected are the first `toastDataRead` units, and the
  chunks they came from are exactly those before `Here`, the item it looks at
  next (`Collecting`): an item that is no chunk of the value changes neither
  side, the next chunk both, and when no item is left the value is complete.

  *No false alarm.*  Of a healthy file two messages are not alarms: that the seek
  failed, and the premature end of a file that is shorter than where the range
  begins (`OnlyTheRange`).  In a file of whole blocks every read returns a whole
  block, so the outer level judges by a full buffer (`JudgesFairly`).  A detour
  disturbs that unless its value is found: then it ends in the middle of a
  block, which was whole, and leaves `bytesToFormat` at `BlockSize` and
  `specialType` at that of a sound TOAST page.  So `NoAlarmWhenFound` rests on
  `Collecting`, on knowing that the value looked for is one the main file points
  to (`WantedNamed`), and on `HeaderFits`: in a block without room beyond its
  header, the special section is called unknown.

  *Damage reported.*  `DInv` follows the outer loop over pages and items: what is
  behind it and lies beyond its block is in the log (`BlocksReported`,
  `BlockReported`, `ItemsReported`), the page in the buffer is the file's page of
  the current number with the bytes the file holds of it (`PageAtHand`), the
  outer level judges by those bytes until it has fetched a value (`BytesKnown`),
  and the item it left for a detour was a sound one (`FetchesFit`).  A detour
  leaves the outer level where it is; after it the count of bytes is any up to a
  block, which still shows every item that lies beyond the block.

  *The end.*  `DumpCannotGoOn`: a level has so many rounds left as bytes of its
  file unread, and in a round so many steps as its page may have items and a few
  more; each step of the outer level may cost one whole detour, whose length the
  TOAST file bounds (`StepsLeft`).  So the two loops, one inside the other and
  sharing variables, never go round forever, whatever chunks the file holds.
- **CommandLine_proofs**: `TypeCorrect`, `AcceptedLinesAreReady`,
  `GrammarAccepted`, `ValuesInForce`.  The first two rest on `Clean`: while the
  return code is still valid the loop has passed the last argument only by
  opening it, and a `-R` already marked has its range.  The last two compare the
  parser, which goes from left to right and keeps words of option bits, with a
  grammar stated on the whole line: where options start (each where the one
  before ends, `Starts`), which things are said at which places (`Places`), each
  at most once, and which go together.  `Tracks` says that a loop that has not
  failed stands at the start of an option and that everything it keeps is
  explained by the places `Passed`: an option bit is set exactly if its letter
  was passed, a letter whose bit may be set once was passed once, every passed
  value is good, and the fields hold what was given or their defaults.  `Kept`
  is the other direction: a line that can be read (`AsRead`) is never given up.
  At `Check` nothing is left to pass and the two meet.  `AsRead` is the grammar
  widened by what the code lets pass; two lemmas say that every documented line
  is one (`DocumentedIsRead`) and that one that is not documented is a named
  departure (`ReadIsDocumented`).
- **TupleDecode_proofs**: `TypeCorrect`, `DecodersStayInside`, `BuffersFit`,
  `OnlyLargeTuplesEnd`.
  The invariant adds to the three that a tuple is at hand while one is decoded
  (`TupleAtHand`) and that, while the line is enlarged, what is about to be
  written fits the limit (`RoomToWrite`): the doubled size may exceed the limit,
  and the clamped one is still enough, as the comment at stringinfo.c:233 says.
  That the size does not wrap follows from every decoder's own comparison, the
  byte-wise padding loop included.  `OnlyLargeTuplesEnd` rests on a second
  invariant, `LineBound`: the line, with what waits to be encoded or appended,
  is shorter than two characters for each byte passed and `PrintMax + 1` for each
  column, so what no longer fits a buffer tells how large the tuple was.  A column
  counts as the longest text a value can print as and a tab: 8 bytes of a float8
  alone print as over 300 characters.
- **TupleRows_proofs**: `DecodingImplementsRows`, `ArrayHoldsDecoders`,
  `LengthCounts`, `EarlierTuplesDoNotShow`.

  *The refinement of `RowReport`.*  The lists of decoders are the names read so
  far (`TypesRead`, `DecodersGiven`), reports are counted (`Counted`), and while
  a tuple is decoded that the server wrote from columns the list describes,
  `LaidOut` ties every place of the decoder to the server's layout: before column
  `n` the decoder is at the end of column `n - 1` and the line is the row of the
  columns before; in the padding every byte passed was zero; while a text is
  encoded, the buffer is the encoding of the part of it that was taken.  From a
  step it follows column by column that the row printed is the row of the values.

  *Room for the decoders.*  Each decoder costs at least two characters of the
  list, a name and a comma, except one; `RoomForDecoders` counts them.  Where all
  names are single letters one more decoder than slots is accepted, hence the
  hypothesis of `CallbacksFit`.

  *Wrong lengths.*  With columns of one size only, `FixedInv` says that the
  decoder is where the sizes and paddings of the columns so far end.  The hypothesis
  `WordHolds` is that the unsigned word is wider than what a list can span: the
  decoders may pass the end of a tuple by a padding before they notice, and in a
  narrower word that could look like the right length.

  *Equal tuples.*  That nothing of an earlier tuple shows relates two runs of the
  decoder at different times.  The steps without `-t` are therefore restated as a
  function `After` of what the program can still see (`Seen`), which holds neither the
  size of the line's buffer nor the encoding buffer outside of its use.  `SameInv`
  says that what is seen now, and every report made, is reached from the
  beginning of its tuple by repeating `After`; two ways from one beginning to a
  report are the same way.
- **PageFormat_proofs**: `TypeCorrect`, `KindFound`, `DumpsStayInside`,
  `NoAlarm`, `SilenceTrusted`, `ItemsAllShown`, `WalkIsSane`.  `Considered` says what is
  known of the page once it is classified and once its header is behind (its
  item array lies inside what was read); `TupleAtHand` that the item whose nodes
  are walked fits and is sound so far; `SoundSoFar` that with exit code 0 every
  item before the current one was sound; `ShownSoFar` that what was shown is what
  is due for the items passed, and that the walk over nodes stands at the end of
  those it has counted.  `WalkIsSane` is about damaged tuples too: during the walk
  (`Walking`) every node passed began inside the tuple, every one but the last
  was of an aligned size, and the last was not if the walk is about to stop for
  it; so where it ends no longer walk is possible (`WalkEnds`).
- **CalendarDate_proofs**: `TypeCorrect`, `DatesTrue`, `TimestampsTrue`,
  `TimesTrue`, `ZonesTrue`.  The heart is the lemma `JulianDay`: for every day
  number from `FirstJulian` on (those of a date fit an int32, by
  `DatesAssumption`), `j2date` yields a day of the Gregorian calendar whose
  day number is the one it was given.  It is shown division by division: the
  rest in 400 years, the leap days passed, the year among four, the month from
  March, so that no step looks at more than a few hundred cases.

**Induction over data.**  A layout of columns, a count of characters, the start
of options are defined by recursive functions on a number.  The module
`Recursion` states induction for a set of numbers and recursion for a step that is
itself a function (`LeastNumber`, `InductionUpTo`, `StepsStayIn`, `StepByStep`),
so that such a definition can be unfolded once (`f[n]` from `f[n - 1]`); from there
the proofs go step by step like the program does.

**What the proofs changed.**  Trying to prove `ValueRestored` showed that a TOAST
file with the meta page of an index in it would lose chunks: `StoredInOrder` now
says that it has none, as no heap does.  The proof of `RowSpec` needed of a tuple
"as the server writes it" that it begins at an aligned address, that its item
holds it and that its values are `Storable`.  `LengthCounts` asked how wide the
word must be.  The grammar of the command line was limited to short groups of
letters and is now general (`Places`, `LetterAt`).  `DamageReported` leaves out an
item of a partial block behind a detour, which the code does pass over
(section 3).

**Only model-checked**: `Terminates`, which is liveness under fairness.  What is
proved of it are the measures of `WalkCannotGoOn` and `DumpCannotGoOn`; that a
program which has not ended can take a step is checked by TLC (deadlock), and
that it takes it is the fairness assumed.

## 5. Not modelled, and why

- What is printed, apart from block numbers, positions, error messages, COPY
  rows and the fields of dates and times: names of flags, hexadecimal rows,
  layout.
- The block size of a damaged block 0: `GetBlockSize` believes any number.  The
  model has one block size for both files.
- Failing `malloc`, and failing `fread` in the relation dumper, which looks like
  the end of the file.
- `FormatControl`, which prints the fields of the control file and checks one
  CRC: no state and no decision that reaches beyond it.
- `-k`, `-o` and `-D` inside `PageFormat`: they are in `RelationDump` and
  `TupleDecode`.
- Dates and timestamps of 'infinity', where signed arithmetic overflows
  (`DatesAssumption` leaves the dates out).
- The check of the item index in `FormatItemBlock` (pg_filedump.c:1263), which
  cannot fail after `FormatHeader` has found the array inside the bytes read.
- Builds for Greenplum before 6, where special sections are told apart by other
  words, and `appendStringInfo`, which nothing calls.
- What a damaged length makes of memory outside the block: the step `PastBlock`
  or a byte of any value.
- Code under `#if 0`, the server's headers and libraries, `mock.c`.

## 6. Plan

Done: the dumpers, the detour, the command line, the decoders with the COPY line,
the page formats and the calendar, their abstract specifications, and the
theorems above; of the properties of the passing runs only liveness has no
theorem.  What is left:

1. A measure for `TupleDecode` as for the two dumpers: the decoders and the
   doubling of the line's buffer come to an end for every tuple.
2. A row of several external values in `TupleDecode`, composed with the detour.
