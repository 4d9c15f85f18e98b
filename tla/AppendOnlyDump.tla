--------------------------- MODULE AppendOnlyDump ---------------------------
(***************************************************************************)
(* DumpAppendOnlyFileContents and the two functions it calls for each      *)
(* storage block (src/gpdb.c): the loop that walks an append-only segment  *)
(* file through one read-ahead buffer, growing the buffer for compressed   *)
(* blocks and seeking to the next block after each one.                    *)
(*                                                                         *)
(* A file is a record: "size" is its length in bytes and "at" gives the    *)
(* storage header found at each offset where a storage block starts.  What *)
(* AppendOnlyStorageFormat_* (a library outside the program) decodes from  *)
(* a header is the fields of Header; a header the file cuts short is       *)
(* decoded from whatever the buffer held before.                           *)
(***************************************************************************)
EXTENDS Integers, FiniteSets

CONSTANTS
  Images,          \* the segment files considered
  OptionSets,      \* the combinations of -M, -k, -O, -T and -L considered
  StaleHeaders,    \* what a header cut short by the end of file may decode to
  InitialBuffer    \* DEFAULT_APPENDONLY_BLOCK_SIZE

Kinds == {"None", "SmallContent", "LargeContent", "NonBulkDenseContent",
          "BulkDenseContent", "Unexpected"}

(* One decoded storage header.  "hdr" is actualHeaderLen, "len" is         *)
(* overallBlockLen, "raw" is uncompressedLen; the last four say whether    *)
(* the header checksum, the header check, the block checksum and the       *)
(* content's DatumStream version (after decompression) are good.           *)
Header == [kind : Kinds, hdr : Nat \ {0}, len : Nat \ {0}, raw : Nat,
           zip : BOOLEAN, headerSumOK : BOOLEAN, checkOK : BOOLEAN,
           blockSumOK : BOOLEAN, contentOK : BOOLEAN]

(* AppendOnlyStorageReadCurrent after memset.                              *)
BlankHeader == [kind |-> "None", hdr |-> 0, len |-> 0, raw |-> 0,
                zip |-> FALSE, headerSumOK |-> FALSE, checkOK |-> FALSE,
                blockSumOK |-> FALSE, contentOK |-> FALSE]

(* -M (hasChecksum), -k (verify), -O column, and a -L that QuickLZ refuses *)
Options == [hasChecksum : BOOLEAN, verify : BOOLEAN, column : BOOLEAN,
            badLevel : BOOLEAN]

IsLarge(h) == h.kind = "LargeContent"

(* A large-content header stands alone: its block is the header itself.    *)
BlockLen(h) == IF IsLarge(h) THEN h.hdr ELSE h.len

(* The storage blocks of a file lie end to end from offset 0; the file may *)
(* be cut anywhere.                                                        *)
IsImage(f) ==
  /\ f.size \in Nat
  /\ DOMAIN f.at \subseteq Nat
  /\ \A o \in DOMAIN f.at :
       /\ f.at[o] \in Header
       /\ f.at[o].hdr <= f.at[o].len
       /\ \/ o + BlockLen(f.at[o]) \in DOMAIN f.at
          \/ o + BlockLen(f.at[o]) >= f.size
  /\ 0 \in DOMAIN f.at \/ f.size = 0

(* A file the server finished writing: "owed" is, for each storage block,  *)
(* the uncompressed bytes its large content still lacks before it (0       *)
(* outside large contents); a large header owes its uncompressed length    *)
(* and every fragment pays off its own.  No block starts inside another.   *)
OwedAfter(f, o) ==
  IF IsLarge(f.at[o]) THEN f.at[o].raw
  ELSE IF f.owed[o] = 0 THEN 0
  ELSE f.owed[o] - f.at[o].raw

Coherent(f) ==
  /\ DOMAIN f.owed = DOMAIN f.at
  /\ 0 \in DOMAIN f.at => f.owed[0] = 0
  /\ \A o \in DOMAIN f.at :
       /\ f.owed[o] \in Nat
       /\ f.owed[o] > 0 => ~IsLarge(f.at[o]) /\ f.at[o].raw <= f.owed[o]
       /\ IsLarge(f.at[o]) => f.at[o].raw > 0
       /\ o + BlockLen(f.at[o]) \in DOMAIN f.at
            => f.owed[o + BlockLen(f.at[o])] = OwedAfter(f, o)
       /\ \A p \in DOMAIN f.at : o < p => o + BlockLen(f.at[o]) <= p

ASSUME ImagesAssumption ==
  /\ Images # {}
  /\ \A f \in Images : IsImage(f)
ASSUME OptionsAssumption == OptionSets \subseteq Options
ASSUME StaleAssumption ==
  /\ StaleHeaders \subseteq Header
  /\ \A h \in StaleHeaders : h.hdr <= h.len
(* The buffer is never shorter than a storage header.                      *)
ASSUME BufferAssumption ==
  /\ InitialBuffer \in Nat \ {0}
  /\ \A f \in Images : \A o \in DOMAIN f.at : f.at[o].hdr <= InitialBuffer

VARIABLES
  img,             \* the file
  opts,            \* the options of this run
  pc,              \* where the loop body stands
  fpos,            \* the stream's file position
  blockSize,       \* size of the buffer
  bytesRead,       \* what the last fread returned
  start,           \* file offset the buffer's first byte came from
  blkHdr,          \* the header decoded in this iteration
  fragments,       \* largeContentFragments
  remaining,       \* blocksRemaining
  display,         \* overallBlockLenDisplay
  position,        \* totaloverallBlockPosition
  currentBlock,    \* logical blocks closed so far
  result,          \* the value returned, once pc = "done"
  ioFault,         \* some fread or fseek has failed
  complained       \* a checksum or content error has been printed

vars == <<img, opts, pc, fpos, blockSize, bytesRead, start, blkHdr, fragments,
          remaining, display, position, currentBlock, result, ioFault,
          complained>>

inputs == <<img, opts>>
counters == <<fragments, remaining, display, position, currentBlock>>

Lesser(a, b) == IF a < b THEN a ELSE b

(* How many bytes fread(buffer, 1, n, fp) returns at offset p.             *)
Available(p, n) == IF p < img.size THEN Lesser(n, img.size - p) ELSE 0

Init ==
  /\ img \in Images
  /\ opts \in OptionSets
  /\ pc = "enter"
  /\ fpos = 0
  /\ blockSize = InitialBuffer
  /\ bytesRead = 0
  /\ start = 0
  /\ blkHdr = BlankHeader
  /\ fragments = FALSE
  /\ remaining = 0
  /\ display = 0
  /\ position = 0
  /\ currentBlock = 0
  /\ result = 0
  /\ ioFault = FALSE
  /\ complained = FALSE

Return(r) ==
  /\ pc' = "done"
  /\ result' = r

(* With the legacy QuickLZ library only levels 1 and 3 are accepted.       *)
Enter ==
  /\ pc = "enter"
  /\ IF opts.badLevel
       THEN Return(1)
       ELSE pc' = "read" /\ UNCHANGED result
  /\ UNCHANGED <<inputs, counters, fpos, blockSize, bytesRead, start,
                 blkHdr, ioFault, complained>>

(* Variant: the displayed length is not reset for a new block.             *)
ReadAheadNoReset ==
  /\ pc = "read"
  /\ bytesRead' = Available(fpos, blockSize)
  /\ bytesRead' > 0
  /\ start' = fpos
  /\ fpos' = fpos + bytesRead'
  /\ blkHdr' = BlankHeader
  /\ pc' = "header"
  /\ UNCHANGED <<inputs, counters, blockSize, result, ioFault, complained>>

(* Loop head: read ahead; a first fragment or a plain block opens a        *)
(* logical block, whose displayed length restarts at 0.                    *)
ReadAhead ==
  /\ pc = "read"
  /\ bytesRead' = Available(fpos, blockSize)
  /\ bytesRead' > 0
  /\ start' = fpos
  /\ fpos' = fpos + bytesRead'
  /\ display' = IF fragments THEN display ELSE 0
  /\ blkHdr' = BlankHeader
  /\ pc' = "header"
  /\ UNCHANGED <<inputs, blockSize, fragments, remaining, position,
                 currentBlock, result, ioFault, complained>>

(* Variant: a short read is taken for the end of the file.                 *)
ReadNothingOnShort ==
  /\ pc = "read"
  /\ Available(fpos, blockSize) < blockSize
  /\ bytesRead' = 0
  /\ Return(0)
  /\ UNCHANGED <<inputs, counters, fpos, blockSize, start, blkHdr, ioFault,
                 complained>>

(* fread returns 0 at the end of the file, and also when it fails: the     *)
(* loop is left with success still set either way.                         *)
ReadNothing ==
  /\ pc = "read"
  /\ \/ fpos >= img.size /\ UNCHANGED ioFault
     \/ ioFault' = TRUE
  /\ bytesRead' = 0
  /\ Return(0)
  /\ UNCHANGED <<inputs, counters, fpos, blockSize, start, blkHdr,
                 complained>>

(* The header the buffer holds: the block's own when enough of it was      *)
(* read, else one completed with stale bytes.  The length is in the first  *)
(* 8 bytes, which every header exceeds, so a stale length is never shorter *)
(* than what was read.                                                     *)
Decodable ==
  IF start \in DOMAIN img.at /\ bytesRead >= img.at[start].hdr
    THEN {img.at[start]}
    ELSE {h \in StaleHeaders : BlockLen(h) >= bytesRead}

Verifying == opts.hasChecksum /\ opts.verify

(* The outcome of Dump_AppendOnlyStorage_ContentHeaderInfo.                *)
HeaderAccepted(h) ==
  /\ Verifying => h.headerSumOK
  /\ h.kind \notin {"None", "Unexpected"}
  /\ h.checkOK

(* Variant: the length of a large header is left as memset put it.         *)
DecodedAsIs(h) == [h EXCEPT !.len = IF IsLarge(h) THEN 0 ELSE h.len]

(* The large-content decoder returns no overall length: it is set here.    *)
Decoded(h) == [h EXCEPT !.len = BlockLen(h)]

DumpHeader ==
  /\ pc = "header"
  /\ \E h \in Decodable :
       IF HeaderAccepted(h)
         THEN /\ blkHdr' = Decoded(h)
              /\ pc' = "grow"
              /\ UNCHANGED result
         ELSE /\ Return(1)
              /\ UNCHANGED blkHdr
  /\ UNCHANGED <<inputs, counters, fpos, blockSize, bytesRead, start,
                 ioFault, complained>>

(* Variant: only the content is compared with the buffer.                  *)
NeedsGrowForContent ==
  /\ ~IsLarge(blkHdr) /\ ~fragments
  /\ blkHdr.zip
  /\ blockSize < blkHdr.len - blkHdr.hdr

(* A compressed block longer than the buffer is read again in full.  The   *)
(* content of fragments and of large headers is not looked at.             *)
NeedsGrow ==
  /\ ~IsLarge(blkHdr) /\ ~fragments
  /\ blkHdr.zip
  /\ blockSize < blkHdr.len

(* Variant: the buffer grows but the block is not read again.              *)
GrowBufferOnly ==
  /\ pc = "grow"
  /\ NeedsGrow
  /\ blockSize' = blkHdr.len
  /\ pc' = "content"
  /\ UNCHANGED <<inputs, counters, fpos, bytesRead, start, blkHdr, result,
                 ioFault, complained>>

GrowBuffer ==
  /\ pc = "grow"
  /\ NeedsGrow
  /\ blockSize' = blkHdr.len
  /\ LET back == fpos - bytesRead
     IN /\ bytesRead' = Available(back, blockSize')
        /\ fpos' = back + bytesRead'
  /\ pc' = "content"
  /\ UNCHANGED <<inputs, counters, start, blkHdr, result, ioFault,
                 complained>>

(* The seek back or the second read fails: return 1 from inside the loop.  *)
GrowFails ==
  /\ pc = "grow"
  /\ NeedsGrow
  /\ blockSize' = blkHdr.len
  /\ ioFault' = TRUE
  /\ \/ UNCHANGED <<fpos, bytesRead>>
     \/ fpos' = fpos - bytesRead /\ bytesRead' = 0
  /\ Return(1)
  /\ UNCHANGED <<inputs, counters, start, blkHdr, complained>>

BufferSuffices ==
  /\ pc = "grow"
  /\ ~NeedsGrow
  /\ pc' = "content"
  /\ UNCHANGED <<inputs, counters, fpos, blockSize, bytesRead, start,
                 blkHdr, result, ioFault, complained>>

(* Verifying the block checksum runs over the whole block, whether or not  *)
(* the buffer holds it; past what was read the outcome is arbitrary.       *)
ChecksumOutcomes ==
  CASE ~Verifying -> {TRUE}
    [] Verifying /\ bytesRead >= blkHdr.len -> {blkHdr.blockSumOK}
    [] OTHER -> BOOLEAN

(* Describing the content needs all of a compressed block, but only the    *)
(* bytes right behind the storage header of an uncompressed one.           *)
ContentHeld ==
  IF blkHdr.zip THEN bytesRead >= blkHdr.len ELSE bytesRead > blkHdr.hdr

ContentOutcomes ==
  CASE ~opts.column -> {TRUE}
    [] opts.column /\ ContentHeld -> {blkHdr.contentOK}
    [] OTHER -> BOOLEAN

(* Variant: a content error ends the walk.                                 *)
SuccessAsFound(healthy) == healthy

SuccessAfterContent(healthy) == TRUE

(* Either check may complain.  The content is described only after a good  *)
(* checksum, and success is set again afterwards: the walk goes on.        *)
Content ==
  /\ pc = "content"
  /\ ~IsLarge(blkHdr) /\ ~fragments
  /\ \E sum \in ChecksumOutcomes, content \in ContentOutcomes :
       /\ complained' = (complained \/ ~sum \/ ~content)
       /\ IF SuccessAfterContent(sum /\ content)
            THEN pc' = "close" /\ UNCHANGED result
            ELSE Return(1)
  /\ UNCHANGED <<inputs, counters, fpos, blockSize, bytesRead, start, blkHdr,
                 ioFault>>

(* Variant: the fragment's stored length is taken off.                     *)
FragmentStoredLength ==
  /\ pc = "content"
  /\ ~IsLarge(blkHdr) /\ fragments
  /\ remaining' = remaining - blkHdr.len
  /\ fragments' = (remaining' # 0)
  /\ pc' = "close"
  /\ UNCHANGED <<inputs, fpos, blockSize, bytesRead, start, blkHdr, display,
                 position, currentBlock, result, ioFault, complained>>

(* One fragment of a large content: its length is taken off what remains.  *)
Fragment ==
  /\ pc = "content"
  /\ ~IsLarge(blkHdr) /\ fragments
  /\ remaining' = remaining - blkHdr.raw
  /\ fragments' = (remaining' # 0)
  /\ pc' = "close"
  /\ UNCHANGED <<inputs, fpos, blockSize, bytesRead, start, blkHdr, display,
                 position, currentBlock, result, ioFault, complained>>

(* A large-content header: the fragments that follow belong to it.         *)
LargeContent ==
  /\ pc = "content"
  /\ IsLarge(blkHdr)
  /\ remaining' = blkHdr.raw
  /\ fragments' = TRUE
  /\ pc' = "close"
  /\ UNCHANGED <<inputs, fpos, blockSize, bytesRead, start, blkHdr, display,
                 position, currentBlock, result, ioFault, complained>>

(* Add the storage block to the displayed length, close the logical block  *)
(* unless fragments are still to come.                                     *)
Close ==
  /\ pc = "close"
  /\ display' = display + blkHdr.len
  /\ IF fragments
       THEN UNCHANGED <<position, currentBlock>>
       ELSE /\ currentBlock' = currentBlock + 1
            /\ position' = position + display'
  /\ pc' = "seek"
  /\ UNCHANGED <<inputs, fpos, blockSize, bytesRead, start, blkHdr,
                 fragments, remaining, result, ioFault, complained>>

(* Variant: the buffer is taken to have been filled.                       *)
SeekOffsetFullRead ==
  IF blockSize > blkHdr.len
    THEN - (blockSize - blkHdr.len)
    ELSE blkHdr.len - blockSize

(* Move from the end of what was read to the end of the storage block.     *)
SeekOffset ==
  IF bytesRead > blkHdr.len
    THEN - (bytesRead - blkHdr.len)
    ELSE blkHdr.len - bytesRead

SeekNext ==
  /\ pc = "seek"
  /\ fpos' = fpos + SeekOffset
  /\ pc' = "read"
  /\ UNCHANGED <<inputs, counters, blockSize, bytesRead, start, blkHdr,
                 result, ioFault, complained>>

SeekFails ==
  /\ pc = "seek"
  /\ ioFault' = TRUE
  /\ Return(1)
  /\ UNCHANGED <<inputs, counters, fpos, blockSize, bytesRead, start,
                 blkHdr, complained>>

(* The function has returned.                                              *)
Returned ==
  /\ pc = "done"
  /\ UNCHANGED vars

Next ==
  \/ Enter
  \/ ReadAhead
  \/ ReadNothing
  \/ DumpHeader
  \/ GrowBuffer
  \/ GrowFails
  \/ BufferSuffices
  \/ Content
  \/ Fragment
  \/ LargeContent
  \/ Close
  \/ SeekNext
  \/ SeekFails
  \/ Returned

Spec == Init /\ [][Next]_vars
(* One thread of control that never waits: it keeps taking steps.          *)
FairSpec == Spec /\ WF_vars(Next)
(***************************************************************************)
(* Properties                                                              *)
(***************************************************************************)

(* Every variable keeps its type; the offsets and lengths never go below 0 *)
(* although they are computed by subtraction.                              *)
TypeOK ==
  /\ IsImage(img)
  /\ opts \in Options
  /\ pc \in {"enter", "read", "header", "grow", "content", "close", "seek",
             "done"}
  /\ fpos \in Nat
  /\ blockSize \in Nat \ {0}
  /\ bytesRead \in Nat
  /\ start \in Nat
  /\ blkHdr \in Header \cup {BlankHeader}
  /\ fragments \in BOOLEAN
  /\ remaining \in Int
  /\ display \in Nat
  /\ position \in Nat
  /\ currentBlock \in Nat
  /\ result \in {0, 1}
  /\ ioFault \in BOOLEAN
  /\ complained \in BOOLEAN

(* Whatever was read ahead, re-read or skipped, the loop head stands on    *)
(* the start of a storage block, or past the end of the file: the header   *)
(* decoded next is never taken from the middle of a block.                 *)
InSync ==
  pc = "read" => fpos \in DOMAIN img.at \/ fpos >= img.size

(* The position printed for a block is where the block really starts: the  *)
(* sum of the displayed lengths tracks the stream although the two are     *)
(* computed separately, also in the middle of a large content.             *)
PositionReported ==
  pc = "read" => fpos = position + (IF fragments THEN display ELSE 0)

(* A compressed block that will be decompressed is wholly in the buffer,   *)
(* as far as the file holds it.                                            *)
CompressedBlockHeld ==
  pc = "content" /\ blkHdr.zip /\ ~IsLarge(blkHdr) /\ ~fragments
    => /\ blkHdr.len <= blockSize
       /\ bytesRead = Lesser(blkHdr.len, img.size - start)
            \/ bytesRead >= blkHdr.len

(* In a finished file, cut or not, the bytes a large content still lacks   *)
(* are exactly what the walk believes, and fragments never overdraw them   *)
(* (the assertion at line 769).                                            *)
FragmentsOwed ==
  Coherent(img) =>
    /\ pc = "read" /\ fpos < img.size =>
         /\ remaining = img.owed[fpos]
         /\ fragments = (img.owed[fpos] > 0)
    /\ pc = "content" /\ fragments /\ bytesRead >= blkHdr.hdr
         /\ start \in DOMAIN img.at /\ bytesRead >= img.at[start].hdr
         => ~IsLarge(blkHdr) /\ remaining >= blkHdr.raw

EndsLogical(f, o) ==
  ~IsLarge(f.at[o]) /\ (f.owed[o] = 0 \/ f.owed[o] = f.at[o].raw)

EndingBefore(f, o) == {p \in DOMAIN f.at : p < o /\ EndsLogical(f, p)}

(* The block number printed is the number of logical blocks before it: a   *)
(* large content with all its fragments counts once.                       *)
BlocksCounted ==
  Coherent(img) /\ pc = "read" /\ fpos < img.size
    => currentBlock = Cardinality(EndingBefore(img, fpos))

(* In a finished file the flag, the remaining bytes and the block number   *)
(* all agree with where the walk stands, however many fragments it met.    *)
LargeContentFollowed == FragmentsOwed /\ BlocksCounted

(* "Done" means done: unless the system failed a read, a dump that returns *)
(* 0 has walked the whole file, bad content or not.                        *)
SuccessMeansWholeFile ==
  pc = "done" /\ result = 0 /\ ~ioFault => fpos >= img.size

(* A dump returns 1 only for a refused option, a failed call, or the       *)
(* header at hand; errors in the content never stop it.                    *)
FailureHasCause ==
  pc = "done" /\ result = 1 =>
    \/ opts.badLevel
    \/ ioFault
    \/ \E h \in Decodable : ~HeaderAccepted(h)

Healthy(f) ==
  /\ \A o \in DOMAIN f.at :
       /\ o + BlockLen(f.at[o]) <= f.size
       /\ f.at[o].blockSumOK /\ f.at[o].contentOK

(* A healthy, uncut file gets no checksum or content complaint, provided   *)
(* its uncompressed blocks fit the initial buffer.                         *)
HealthyQuietWhenItFits ==
  /\ Healthy(img)
  /\ \A o \in DOMAIN img.at :
       ~img.at[o].zip => BlockLen(img.at[o]) <= InitialBuffer
  => ~complained

(* "We grow this based on header read, dynamically" (pg_filedump.c:2447):  *)
(* no healthy file gets a complaint, whatever its block sizes.             *)
HealthyQuiet == Healthy(img) => ~complained

(* A block that has been left is never read again and none is jumped over: *)
(* the walk implements StorageScan.                                        *)
Scan == INSTANCE StorageScan WITH
  pos <- IF pc \in {"enter", "read"} \/ (pc = "done" /\ result = 0)
           THEN fpos ELSE start,
  status <- IF pc # "done" THEN "scanning"
            ELSE IF result = 1 \/ ioFault THEN "failed" ELSE "complete"

ScanSpec == Scan!Spec

(* Every file, whatever its contents, is finished with in finitely many    *)
(* steps: each iteration moves the stream forward.                         *)
Terminates == <>(pc = "done")
=============================================================================
