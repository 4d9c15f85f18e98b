----------------------- MODULE AppendOnlyDump_proofs -----------------------
(***************************************************************************)
(* Proofs about AppendOnlyDump for every set of files, options, stale      *)
(* headers and initial buffer that satisfies its assumptions.              *)
(***************************************************************************)
EXTENDS AppendOnlyDump, FiniteSetTheorems, TLAPS

InBlock == pc \in {"header", "grow", "content", "close", "seek"}
HasHeader == pc \in {"grow", "content", "close", "seek"}

(* While a block is in hand its first byte is a block start inside the     *)
(* file, and the stream stands at the end of what was read.                *)
Located ==
  InBlock => /\ start \in DOMAIN img.at
             /\ start < img.size
             /\ fpos = start + bytesRead

(* Until the content has been looked at the buffer is filled from the      *)
(* block's start as far as the file goes.                                  *)
FilledFromStart ==
  pc \in {"header", "grow", "content"} =>
    bytesRead = Available(start, blockSize)

(* Content is only decompressed from a buffer long enough for the block.   *)
BufferFits ==
  pc = "content" /\ blkHdr.zip /\ ~IsLarge(blkHdr) /\ ~fragments
    => blkHdr.len <= blockSize

(* The accepted header leads to the next block start or past the end.      *)
HeaderLeadsOn ==
  HasHeader => /\ blkHdr \in Header
               /\ \/ start + blkHdr.len \in DOMAIN img.at
                  \/ start + blkHdr.len >= img.size

(* It is the block's own header whenever the file holds all of it.         *)
HeaderIsOwn ==
  HasHeader =>
    IF start + img.at[start].hdr <= img.size
      THEN blkHdr.len = BlockLen(img.at[start])
      ELSE start + blkHdr.len >= img.size

(* The block in hand starts where the reported position says.              *)
StartReported ==
  /\ pc \in {"header", "grow", "content"} =>
       /\ start = position + display
       /\ ~fragments => display = 0
  /\ pc = "close" => start = position + display
  /\ pc = "seek" =>
       start + blkHdr.len = position + (IF fragments THEN display ELSE 0)
  /\ pc = "enter" => fpos = 0 /\ start = 0 /\ position = 0 /\ ~fragments

BufferNeverShrinks == blockSize >= InitialBuffer

(* Until the function returns its result is still 0.                       *)
ResultUnset == pc # "done" => result = 0

IInv ==
  /\ TypeOK
  /\ img \in Images
  /\ Located
  /\ FilledFromStart
  /\ BufferFits
  /\ HeaderLeadsOn
  /\ HeaderIsOwn
  /\ StartReported
  /\ BufferNeverShrinks
  /\ ResultUnset
  /\ InSync
  /\ PositionReported
  /\ SuccessMeansWholeFile
  /\ FailureHasCause

USE DEF IsLarge

(* A header is at least one byte long, large ones included.                *)
LEMMA BlockLenType ==
  ASSUME NEW h \in Header
  PROVE  BlockLen(h) \in Nat \ {0}
  BY DEF BlockLen, Header

(* Remembering the block length in a header keeps it a header.             *)
LEMMA DecodedType ==
  ASSUME NEW h \in Header
  PROVE  /\ Decoded(h) \in Header
         /\ Decoded(h).len = BlockLen(h)
  BY BlockLenType DEF Decoded, Header

(* fread never returns more than it was asked for or than the file holds.  *)
LEMMA AvailableBounds ==
  ASSUME IsImage(img), NEW p \in Nat, NEW n \in Nat
  PROVE  /\ Available(p, n) \in Nat
         /\ Available(p, n) <= n
         /\ p < img.size => p + Available(p, n) <= img.size
         /\ p < img.size /\ Available(p, n) < n => p + Available(p, n) = img.size
         /\ Available(p, n) > 0 => p < img.size
  BY DEF Available, Lesser, IsImage

(* The invariant holds initially.                                          *)
LEMMA InitIInv == Init => IInv
<1> SUFFICES ASSUME Init PROVE IInv
  OBVIOUS
<1>1. TypeOK
  <2>1. IsImage(img) /\ opts \in Options /\ blockSize \in Nat \ {0}
    BY ImagesAssumption, OptionsAssumption, BufferAssumption DEF Init
  <2>2. blkHdr \in Header \cup {BlankHeader}
    BY DEF Init
  <2>3. fragments \in BOOLEAN /\ ioFault \in BOOLEAN /\ complained \in BOOLEAN
    BY DEF Init
  <2>4. /\ fpos \in Nat /\ bytesRead \in Nat /\ start \in Nat /\ remaining \in Int
        /\ display \in Nat /\ position \in Nat /\ currentBlock \in Nat
        /\ result \in {0, 1}
    BY DEF Init
  <2>5. pc \in {"enter", "read", "header", "grow", "content", "close", "seek",
               "done"}
    BY DEF Init
  <2> QED
    BY <2>1, <2>2, <2>3, <2>4, <2>5 DEF TypeOK
<1>2. Located /\ FilledFromStart /\ HeaderLeadsOn /\ StartReported
  BY DEF Init, Located, FilledFromStart, HeaderLeadsOn, StartReported,
         InBlock, HasHeader
<1>3. BufferNeverShrinks /\ ResultUnset /\ InSync /\ PositionReported
  BY BufferAssumption
     DEF Init, BufferNeverShrinks, ResultUnset, InSync, PositionReported
<1>4. /\ BufferFits /\ HeaderIsOwn
      /\ SuccessMeansWholeFile /\ FailureHasCause
  BY DEF Init, BufferFits, HeaderIsOwn, HasHeader, SuccessMeansWholeFile, FailureHasCause
<1> QED
  BY <1>1, <1>2, <1>3, <1>4 DEF IInv, Init

(* The header decoded from the buffer leads on to the next block.          *)
LEMMA DecodableLeadsOn ==
  ASSUME IInv, pc = "header", NEW h \in Decodable
  PROVE  /\ h \in Header
         /\ \/ start + BlockLen(h) \in DOMAIN img.at
            \/ start + BlockLen(h) >= img.size
         /\ IF start + img.at[start].hdr <= img.size
              THEN BlockLen(h) = BlockLen(img.at[start])
              ELSE start + BlockLen(h) >= img.size
<1>1. /\ start \in DOMAIN img.at /\ start \in Nat /\ start < img.size
      /\ bytesRead \in Nat /\ IsImage(img) /\ blockSize \in Nat
      /\ bytesRead = Available(start, blockSize)
  BY DEF IInv, Located, InBlock, FilledFromStart, TypeOK
<1>a. img.at[start].hdr \in Nat /\ img.size \in Nat
  BY <1>1 DEF IsImage, Header
<1>2. CASE bytesRead >= img.at[start].hdr
  <2>1. h = img.at[start] /\ h \in Header
    BY <1>1, <1>2 DEF Decodable, IsImage
  <2>2. start + img.at[start].hdr <= img.size
    <3>1. start + bytesRead <= img.size
      BY <1>1, AvailableBounds
    <3> QED
      BY <1>1, <1>2, <1>a, <3>1
  <2> QED
    BY <1>1, <2>1, <2>2 DEF IsImage
<1>3. CASE ~(bytesRead >= img.at[start].hdr)
  <2>1. h \in StaleHeaders /\ BlockLen(h) >= bytesRead
    BY <1>1, <1>3 DEF Decodable
  <2>2. img.at[start].hdr <= InitialBuffer /\ img.at[start].hdr \in Nat
    BY <1>1, BufferAssumption DEF IInv, IsImage, Header
  <2>3. bytesRead < blockSize
    BY <1>1, <1>3, <2>2, BufferAssumption DEF IInv, BufferNeverShrinks
  <2>4. start + bytesRead = img.size
    BY <1>1, <2>3, AvailableBounds
  <2>5. h \in Header /\ BlockLen(h) \in Nat
    BY <2>1, StaleAssumption, BlockLenType
  <2> QED
    BY <1>1, <1>3, <1>a, <2>1, <2>4, <2>5
<1> QED
  BY <1>2, <1>3

(* Entering the function keeps the invariant. *)
LEMMA EnterStep == IInv /\ Enter => IInv'
<1> SUFFICES ASSUME IInv, Enter PROVE IInv'
  OBVIOUS
<1>1. TypeOK'
  BY DEF IInv, Enter, TypeOK, Return, inputs, counters
<1>2. Located' /\ FilledFromStart' /\ HeaderLeadsOn'
  BY DEF IInv, Enter, Located, FilledFromStart, HeaderLeadsOn, InBlock,
         HasHeader, Return, inputs, counters, TypeOK, Available
<1>3. StartReported' /\ InSync' /\ PositionReported'
  BY DEF IInv, Enter, StartReported, InSync, PositionReported, Return,
         inputs, counters, TypeOK, IsImage
<1>4. BufferNeverShrinks' /\ ResultUnset' /\ (img \in Images)'
  BY DEF IInv, Enter, BufferNeverShrinks, ResultUnset, Return, inputs,
         counters, TypeOK
<1>5. BufferFits' /\ HeaderIsOwn'
  BY DEF IInv, Enter, BufferFits, HeaderIsOwn, HasHeader, Return, inputs,
         counters, TypeOK
<1>6. SuccessMeansWholeFile' /\ FailureHasCause'
  BY DEF IInv, Enter, SuccessMeansWholeFile, FailureHasCause,
         ResultUnset, Return, inputs, counters
<1> QED
  BY <1>1, <1>2, <1>3, <1>4, <1>5, <1>6 DEF IInv

(* Reading ahead keeps the invariant. *)
LEMMA ReadAheadStep == IInv /\ ReadAhead => IInv'
<1> SUFFICES ASSUME IInv, ReadAhead PROVE IInv'
  OBVIOUS
<1>0. /\ IsImage(img) /\ fpos \in Nat /\ blockSize \in Nat
      /\ bytesRead' \in Nat /\ fpos < img.size
      /\ fpos \in DOMAIN img.at
  <2>1. IsImage(img) /\ fpos \in Nat /\ blockSize \in Nat /\ img.size \in Nat
    BY DEF IInv, TypeOK, IsImage
  <2>2. /\ bytesRead' = Available(fpos, blockSize)
        /\ Available(fpos, blockSize) > 0
    BY DEF ReadAhead
  <2>3. bytesRead' \in Nat /\ fpos < img.size
    BY <2>1, <2>2, AvailableBounds
  <2> QED
    BY <2>1, <2>3 DEF IInv, ReadAhead, InSync
<1>1. TypeOK'
  BY <1>0 DEF IInv, ReadAhead, TypeOK, Return, inputs, counters
<1>2. Located' /\ FilledFromStart' /\ HeaderLeadsOn'
  BY <1>0 DEF IInv, ReadAhead, Located, FilledFromStart, HeaderLeadsOn, InBlock,
         HasHeader, Return, inputs, counters, TypeOK, Available
<1>3. StartReported' /\ InSync' /\ PositionReported'
  BY DEF IInv, ReadAhead, StartReported, InSync, PositionReported, Return,
         inputs, counters, TypeOK
<1>4. BufferNeverShrinks' /\ ResultUnset' /\ (img \in Images)'
  BY DEF IInv, ReadAhead, BufferNeverShrinks, ResultUnset, Return, inputs,
         counters, TypeOK
<1>5. BufferFits' /\ HeaderIsOwn'
  BY <1>0 DEF IInv, ReadAhead, BufferFits, HeaderIsOwn, HasHeader, Return, inputs,
         counters, TypeOK
<1>6. SuccessMeansWholeFile' /\ FailureHasCause'
  BY <1>0 DEF IInv, ReadAhead, SuccessMeansWholeFile, FailureHasCause,
         ResultUnset, Return, inputs, counters
<1> QED
  BY <1>1, <1>2, <1>3, <1>4, <1>5, <1>6 DEF IInv

(* An empty read keeps the invariant. *)
LEMMA ReadNothingStep == IInv /\ ReadNothing => IInv'
<1> SUFFICES ASSUME IInv, ReadNothing PROVE IInv'
  OBVIOUS
<1>1. TypeOK'
  BY DEF IInv, ReadNothing, TypeOK, Return, inputs, counters
<1>2. Located' /\ FilledFromStart' /\ HeaderLeadsOn'
  BY DEF IInv, ReadNothing, Located, FilledFromStart, HeaderLeadsOn, InBlock,
         HasHeader, Return, inputs, counters, TypeOK, Available
<1>3. StartReported' /\ InSync' /\ PositionReported'
  BY DEF IInv, ReadNothing, StartReported, InSync, PositionReported, Return,
         inputs, counters, TypeOK
<1>4. BufferNeverShrinks' /\ ResultUnset' /\ (img \in Images)'
  BY DEF IInv, ReadNothing, BufferNeverShrinks, ResultUnset, Return, inputs,
         counters, TypeOK
<1>5. BufferFits' /\ HeaderIsOwn'
  BY DEF IInv, ReadNothing, BufferFits, HeaderIsOwn, HasHeader, Return, inputs,
         counters, TypeOK
<1>6. SuccessMeansWholeFile' /\ FailureHasCause'
  BY DEF IInv, ReadNothing, SuccessMeansWholeFile, FailureHasCause,
         ResultUnset, Return, inputs, counters
<1> QED
  BY <1>1, <1>2, <1>3, <1>4, <1>5, <1>6 DEF IInv

(* Decoding a header keeps the invariant. *)
LEMMA DumpHeaderStep == IInv /\ DumpHeader => IInv'
<1> SUFFICES ASSUME IInv, DumpHeader PROVE IInv'
  OBVIOUS
<1>0. \/ /\ pc' = "done" /\ blkHdr' = blkHdr /\ result' = 1
         /\ \E h \in Decodable : ~HeaderAccepted(h)
      \/ /\ pc' = "grow" /\ result' = result
         /\ blkHdr' \in Header
         /\ \/ start + blkHdr'.len \in DOMAIN img.at
            \/ start + blkHdr'.len >= img.size
         /\ IF start + img.at[start].hdr <= img.size
              THEN blkHdr'.len = BlockLen(img.at[start])
              ELSE start + blkHdr'.len >= img.size
  <2> PICK h \in Decodable :
        IF HeaderAccepted(h)
          THEN /\ blkHdr' = Decoded(h)
               /\ pc' = "grow"
               /\ UNCHANGED result
          ELSE /\ Return(1)
               /\ UNCHANGED blkHdr
    BY DEF DumpHeader
  <2>1. /\ h \in Header
        /\ \/ start + BlockLen(h) \in DOMAIN img.at
           \/ start + BlockLen(h) >= img.size
        /\ IF start + img.at[start].hdr <= img.size
             THEN BlockLen(h) = BlockLen(img.at[start])
             ELSE start + BlockLen(h) >= img.size
    BY DecodableLeadsOn DEF DumpHeader
  <2>2. Decoded(h) \in Header /\ Decoded(h).len = BlockLen(h)
    BY <2>1, DecodedType
  <2> QED
    BY <2>1, <2>2 DEF Return
<1>1. TypeOK'
  BY <1>0 DEF IInv, DumpHeader, TypeOK, Return, inputs, counters
<1>2. Located' /\ FilledFromStart' /\ HeaderLeadsOn'
  BY <1>0 DEF IInv, DumpHeader, Located, FilledFromStart, HeaderLeadsOn, InBlock,
         HasHeader, Return, inputs, counters, TypeOK, Available
<1>3. StartReported' /\ InSync' /\ PositionReported'
  BY <1>0 DEF IInv, DumpHeader, StartReported, InSync, PositionReported, Return,
         inputs, counters, TypeOK
<1>4. BufferNeverShrinks' /\ ResultUnset' /\ (img \in Images)'
  BY <1>0 DEF IInv, DumpHeader, BufferNeverShrinks, ResultUnset, Return, inputs,
         counters, TypeOK
<1>5. BufferFits' /\ HeaderIsOwn'
  BY <1>0 DEF IInv, DumpHeader, BufferFits, HeaderIsOwn, HasHeader, Return, inputs,
         counters, TypeOK
<1>6. SuccessMeansWholeFile' /\ FailureHasCause'
  BY <1>0 DEF IInv, DumpHeader, SuccessMeansWholeFile, FailureHasCause,
         ResultUnset, Return, inputs, counters, Decodable, HeaderAccepted,
         Verifying
<1> QED
  BY <1>1, <1>2, <1>3, <1>4, <1>5, <1>6 DEF IInv

(* Growing the buffer keeps the invariant. *)
LEMMA GrowBufferStep == IInv /\ GrowBuffer => IInv'
<1> SUFFICES ASSUME IInv, GrowBuffer PROVE IInv'
  OBVIOUS
<1>0. /\ blkHdr \in Header /\ blkHdr.len \in Nat \ {0}
      /\ blockSize < blkHdr.len
      /\ fpos - bytesRead = start
      /\ bytesRead' \in Nat
      /\ fpos' = start + bytesRead'
  BY AvailableBounds
     DEF IInv, GrowBuffer, NeedsGrow, HeaderLeadsOn, HasHeader, Located,
         InBlock, TypeOK, Header
<1>1. TypeOK'
  BY <1>0 DEF IInv, GrowBuffer, TypeOK, Return, inputs, counters
<1>2. Located' /\ FilledFromStart' /\ HeaderLeadsOn'
  BY <1>0 DEF IInv, GrowBuffer, Located, FilledFromStart, HeaderLeadsOn, InBlock,
         HasHeader, Return, inputs, counters, TypeOK, Available
<1>3. StartReported' /\ InSync' /\ PositionReported'
  BY DEF IInv, GrowBuffer, StartReported, InSync, PositionReported, Return,
         inputs, counters, TypeOK
<1>4. BufferNeverShrinks' /\ ResultUnset' /\ (img \in Images)'
  BY <1>0, BufferAssumption
  DEF IInv, GrowBuffer, BufferNeverShrinks, ResultUnset, Return, inputs,
         counters, TypeOK
<1>5. BufferFits' /\ HeaderIsOwn'
  BY <1>0 DEF IInv, GrowBuffer, BufferFits, HeaderIsOwn, HasHeader, Return, inputs,
         counters, TypeOK
<1>6. SuccessMeansWholeFile' /\ FailureHasCause'
  BY <1>0 DEF IInv, GrowBuffer, SuccessMeansWholeFile, FailureHasCause,
         ResultUnset, Return, inputs, counters
<1> QED
  BY <1>1, <1>2, <1>3, <1>4, <1>5, <1>6 DEF IInv

(* A failing second read keeps the invariant. *)
LEMMA GrowFailsStep == IInv /\ GrowFails => IInv'
<1> SUFFICES ASSUME IInv, GrowFails PROVE IInv'
  OBVIOUS
<1>0. /\ blkHdr \in Header /\ blkHdr.len \in Nat \ {0}
      /\ blockSize < blkHdr.len
      /\ fpos - bytesRead = start
  BY DEF IInv, GrowFails, NeedsGrow, HeaderLeadsOn, HasHeader, Located,
         InBlock, TypeOK, Header
<1>1. TypeOK'
  BY <1>0 DEF IInv, GrowFails, TypeOK, Return, inputs, counters
<1>2. Located' /\ FilledFromStart' /\ HeaderLeadsOn'
  BY DEF IInv, GrowFails, Located, FilledFromStart, HeaderLeadsOn, InBlock,
         HasHeader, Return, inputs, counters, TypeOK, Available
<1>3. StartReported' /\ InSync' /\ PositionReported'
  BY DEF IInv, GrowFails, StartReported, InSync, PositionReported, Return,
         inputs, counters, TypeOK
<1>4. BufferNeverShrinks' /\ ResultUnset' /\ (img \in Images)'
  BY <1>0, BufferAssumption
  DEF IInv, GrowFails, BufferNeverShrinks, ResultUnset, Return, inputs,
         counters, TypeOK
<1>5. BufferFits' /\ HeaderIsOwn'
  BY <1>0 DEF IInv, GrowFails, BufferFits, HeaderIsOwn, HasHeader, Return, inputs,
         counters, TypeOK
<1>6. SuccessMeansWholeFile' /\ FailureHasCause'
  BY <1>0 DEF IInv, GrowFails, SuccessMeansWholeFile, FailureHasCause,
         ResultUnset, Return, inputs, counters
<1> QED
  BY <1>1, <1>2, <1>3, <1>4, <1>5, <1>6 DEF IInv

(* Keeping the buffer keeps the invariant. *)
LEMMA BufferSufficesStep == IInv /\ BufferSuffices => IInv'
<1> SUFFICES ASSUME IInv, BufferSuffices PROVE IInv'
  OBVIOUS
<1>1. TypeOK'
  BY DEF IInv, BufferSuffices, TypeOK, Return, inputs, counters
<1>2. Located' /\ FilledFromStart' /\ HeaderLeadsOn'
  BY DEF IInv, BufferSuffices, Located, FilledFromStart, HeaderLeadsOn, InBlock,
         HasHeader, Return, inputs, counters, TypeOK, Available
<1>3. StartReported' /\ InSync' /\ PositionReported'
  BY DEF IInv, BufferSuffices, StartReported, InSync, PositionReported, Return,
         inputs, counters, TypeOK
<1>4. BufferNeverShrinks' /\ ResultUnset' /\ (img \in Images)'
  BY DEF IInv, BufferSuffices, BufferNeverShrinks, ResultUnset, Return, inputs,
         counters, TypeOK
<1>5. BufferFits' /\ HeaderIsOwn'
  <2>1. blkHdr \in Header /\ blkHdr.len \in Nat /\ blockSize \in Nat
    BY DEF IInv, BufferSuffices, HeaderLeadsOn, HasHeader, Header, TypeOK
  <2> QED
    BY <2>1 DEF IInv, BufferSuffices, BufferFits, HeaderIsOwn, HasHeader,
                NeedsGrow, inputs, counters
<1>6. SuccessMeansWholeFile' /\ FailureHasCause'
  BY DEF IInv, BufferSuffices, SuccessMeansWholeFile, FailureHasCause,
         ResultUnset, Return, inputs, counters
<1> QED
  BY <1>1, <1>2, <1>3, <1>4, <1>5, <1>6 DEF IInv

(* Checking the content keeps the invariant. *)
LEMMA ContentStep == IInv /\ Content => IInv'
<1> SUFFICES ASSUME IInv, Content PROVE IInv'
  OBVIOUS
<1>1. TypeOK'
  BY DEF IInv, Content, TypeOK, Return, inputs, counters
<1>2. Located' /\ FilledFromStart' /\ HeaderLeadsOn'
  BY DEF IInv, Content, Located, FilledFromStart, HeaderLeadsOn, InBlock,
         HasHeader, Return, inputs, counters, TypeOK, Available
<1>3. StartReported' /\ InSync' /\ PositionReported'
  BY DEF IInv, Content, StartReported, InSync, PositionReported, Return,
         inputs, counters, TypeOK
<1>4. BufferNeverShrinks' /\ ResultUnset' /\ (img \in Images)'
  BY DEF IInv, Content, BufferNeverShrinks, ResultUnset, Return, inputs,
         counters, TypeOK
<1>5. BufferFits' /\ HeaderIsOwn'
  BY DEF IInv, Content, BufferFits, HeaderIsOwn, HasHeader, Return, inputs,
         counters, TypeOK
<1>6. SuccessMeansWholeFile' /\ FailureHasCause'
  BY DEF IInv, Content, SuccessMeansWholeFile, FailureHasCause,
         SuccessAfterContent, ResultUnset, Return, inputs, counters
<1> QED
  BY <1>1, <1>2, <1>3, <1>4, <1>5, <1>6 DEF IInv

(* Accounting for a fragment keeps the invariant. *)
LEMMA FragmentStep == IInv /\ Fragment => IInv'
<1> SUFFICES ASSUME IInv, Fragment PROVE IInv'
  OBVIOUS
<1>0. blkHdr \in Header /\ blkHdr.raw \in Nat /\ blkHdr.len \in Nat \ {0}
  BY DEF IInv, Fragment, HeaderLeadsOn, HasHeader, Header
<1>1. TypeOK'
  BY <1>0 DEF IInv, Fragment, TypeOK, Return, inputs, counters
<1>2. Located' /\ FilledFromStart' /\ HeaderLeadsOn'
  BY DEF IInv, Fragment, Located, FilledFromStart, HeaderLeadsOn, InBlock,
         HasHeader, Return, inputs, counters, TypeOK, Available
<1>3. StartReported' /\ InSync' /\ PositionReported'
  BY <1>0 DEF IInv, Fragment, StartReported, InSync, PositionReported, Return,
         inputs, counters, TypeOK
<1>4. BufferNeverShrinks' /\ ResultUnset' /\ (img \in Images)'
  BY DEF IInv, Fragment, BufferNeverShrinks, ResultUnset, Return, inputs,
         counters, TypeOK
<1>5. BufferFits' /\ HeaderIsOwn'
  BY <1>0 DEF IInv, Fragment, BufferFits, HeaderIsOwn, HasHeader, Return, inputs,
         counters, TypeOK
<1>6. SuccessMeansWholeFile' /\ FailureHasCause'
  BY <1>0 DEF IInv, Fragment, SuccessMeansWholeFile, FailureHasCause,
         ResultUnset, Return, inputs, counters
<1> QED
  BY <1>1, <1>2, <1>3, <1>4, <1>5, <1>6 DEF IInv

(* Opening a large content keeps the invariant. *)
LEMMA LargeContentStep == IInv /\ LargeContent => IInv'
<1> SUFFICES ASSUME IInv, LargeContent PROVE IInv'
  OBVIOUS
<1>0. blkHdr \in Header /\ blkHdr.raw \in Nat /\ blkHdr.len \in Nat \ {0}
  BY DEF IInv, LargeContent, HeaderLeadsOn, HasHeader, Header
<1>1. TypeOK'
  BY <1>0 DEF IInv, LargeContent, TypeOK, Return, inputs, counters
<1>2. Located' /\ FilledFromStart' /\ HeaderLeadsOn'
  BY DEF IInv, LargeContent, Located, FilledFromStart, HeaderLeadsOn, InBlock,
         HasHeader, Return, inputs, counters, TypeOK, Available
<1>3. StartReported' /\ InSync' /\ PositionReported'
  BY <1>0 DEF IInv, LargeContent, StartReported, InSync, PositionReported, Return,
         inputs, counters, TypeOK
<1>4. BufferNeverShrinks' /\ ResultUnset' /\ (img \in Images)'
  BY DEF IInv, LargeContent, BufferNeverShrinks, ResultUnset, Return, inputs,
         counters, TypeOK
<1>5. BufferFits' /\ HeaderIsOwn'
  BY <1>0 DEF IInv, LargeContent, BufferFits, HeaderIsOwn, HasHeader, Return, inputs,
         counters, TypeOK
<1>6. SuccessMeansWholeFile' /\ FailureHasCause'
  BY <1>0 DEF IInv, LargeContent, SuccessMeansWholeFile, FailureHasCause,
         ResultUnset, Return, inputs, counters
<1> QED
  BY <1>1, <1>2, <1>3, <1>4, <1>5, <1>6 DEF IInv

(* Closing a block keeps the invariant. *)
LEMMA CloseStep == IInv /\ Close => IInv'
<1> SUFFICES ASSUME IInv, Close PROVE IInv'
  OBVIOUS
<1>0. blkHdr \in Header /\ blkHdr.raw \in Nat /\ blkHdr.len \in Nat \ {0}
  BY DEF IInv, Close, HeaderLeadsOn, HasHeader, Header
<1>1. TypeOK'
  BY <1>0 DEF IInv, Close, TypeOK, Return, inputs, counters
<1>2. Located' /\ FilledFromStart' /\ HeaderLeadsOn'
  BY DEF IInv, Close, Located, FilledFromStart, HeaderLeadsOn, InBlock,
         HasHeader, Return, inputs, counters, TypeOK, Available
<1>3. StartReported' /\ InSync' /\ PositionReported'
  BY <1>0 DEF IInv, Close, StartReported, InSync, PositionReported, Return,
         inputs, counters, TypeOK
<1>4. BufferNeverShrinks' /\ ResultUnset' /\ (img \in Images)'
  BY DEF IInv, Close, BufferNeverShrinks, ResultUnset, Return, inputs,
         counters, TypeOK
<1>5. BufferFits' /\ HeaderIsOwn'
  BY <1>0 DEF IInv, Close, BufferFits, HeaderIsOwn, HasHeader, Return, inputs,
         counters, TypeOK
<1>6. SuccessMeansWholeFile' /\ FailureHasCause'
  BY <1>0 DEF IInv, Close, SuccessMeansWholeFile, FailureHasCause,
         ResultUnset, Return, inputs, counters
<1> QED
  BY <1>1, <1>2, <1>3, <1>4, <1>5, <1>6 DEF IInv

(* Seeking to the next block keeps the invariant. *)
LEMMA SeekNextStep == IInv /\ SeekNext => IInv'
<1> SUFFICES ASSUME IInv, SeekNext PROVE IInv'
  OBVIOUS
<1>0. blkHdr \in Header /\ blkHdr.raw \in Nat /\ blkHdr.len \in Nat \ {0}
  BY DEF IInv, SeekNext, HeaderLeadsOn, HasHeader, Header
<1>a. fpos' = start + blkHdr.len /\ fpos' \in Nat
  <2>1. /\ fpos = start + bytesRead /\ start \in Nat /\ bytesRead \in Nat
        /\ fpos' = fpos + SeekOffset
    BY DEF IInv, TypeOK, Located, InBlock, SeekNext
  <2> QED
    BY <1>0, <2>1 DEF SeekOffset
<1>b. start + blkHdr.len \in DOMAIN img.at \/ start + blkHdr.len >= img.size
  BY DEF IInv, SeekNext, HeaderLeadsOn, HasHeader
<1>c. start + blkHdr.len = position + (IF fragments THEN display ELSE 0)
  BY DEF IInv, SeekNext, StartReported
<1>1. TypeOK'
  BY <1>0, <1>a DEF IInv, SeekNext, TypeOK, Return, inputs, counters
<1>2. Located' /\ FilledFromStart' /\ HeaderLeadsOn'
  BY DEF IInv, SeekNext, Located, FilledFromStart, HeaderLeadsOn, InBlock,
         HasHeader, Return, inputs, counters, TypeOK, Available
<1>3. StartReported' /\ InSync' /\ PositionReported'
  BY <1>a, <1>b, <1>c DEF IInv, SeekNext, StartReported, InSync, PositionReported, Return,
         inputs, counters, TypeOK
<1>4. BufferNeverShrinks' /\ ResultUnset' /\ (img \in Images)'
  BY DEF IInv, SeekNext, BufferNeverShrinks, ResultUnset, Return, inputs,
         counters, TypeOK
<1>5. BufferFits' /\ HeaderIsOwn'
  BY <1>0 DEF IInv, SeekNext, BufferFits, HeaderIsOwn, HasHeader, Return, inputs,
         counters, TypeOK
<1>6. SuccessMeansWholeFile' /\ FailureHasCause'
  BY <1>0 DEF IInv, SeekNext, SuccessMeansWholeFile, FailureHasCause,
         ResultUnset, Return, inputs, counters
<1> QED
  BY <1>1, <1>2, <1>3, <1>4, <1>5, <1>6 DEF IInv

(* A failing seek keeps the invariant. *)
LEMMA SeekFailsStep == IInv /\ SeekFails => IInv'
<1> SUFFICES ASSUME IInv, SeekFails PROVE IInv'
  OBVIOUS
<1>1. TypeOK'
  BY DEF IInv, SeekFails, TypeOK, Return, inputs, counters
<1>2. Located' /\ FilledFromStart' /\ HeaderLeadsOn'
  BY DEF IInv, SeekFails, Located, FilledFromStart, HeaderLeadsOn, InBlock,
         HasHeader, Return, inputs, counters, TypeOK, Available
<1>3. StartReported' /\ InSync' /\ PositionReported'
  BY DEF IInv, SeekFails, StartReported, InSync, PositionReported, Return,
         inputs, counters, TypeOK
<1>4. BufferNeverShrinks' /\ ResultUnset' /\ (img \in Images)'
  BY DEF IInv, SeekFails, BufferNeverShrinks, ResultUnset, Return, inputs,
         counters, TypeOK
<1>5. /\ BufferFits' /\ HeaderIsOwn'
      /\ SuccessMeansWholeFile' /\ FailureHasCause'
  BY DEF IInv, SeekFails, BufferFits, HeaderIsOwn, HasHeader, SuccessMeansWholeFile, FailureHasCause,
         Return
<1> QED
  BY <1>1, <1>2, <1>3, <1>4, <1>5 DEF IInv

(* Once it has returned the function changes nothing.                      *)
LEMMA StutterStep == IInv /\ UNCHANGED vars => IInv'
<1> SUFFICES ASSUME IInv, UNCHANGED vars PROVE IInv'
  OBVIOUS
<1>1. TypeOK' /\ (img \in Images)'
  BY DEF IInv, TypeOK, vars
<1>2. /\ Located' /\ FilledFromStart' /\ BufferFits' /\ HeaderLeadsOn'
      /\ HeaderIsOwn'
  BY DEF IInv, Located, FilledFromStart, BufferFits, HeaderLeadsOn, InBlock,
         HeaderIsOwn, HasHeader, Available, vars
<1>3. /\ StartReported' /\ BufferNeverShrinks' /\ ResultUnset'
      /\ InSync' /\ PositionReported'
  BY DEF IInv, StartReported, BufferNeverShrinks, ResultUnset, InSync,
         PositionReported, vars
<1>4. SuccessMeansWholeFile' /\ FailureHasCause'
  BY DEF IInv, SuccessMeansWholeFile, FailureHasCause, Decodable,
         HeaderAccepted, Verifying, vars
<1> QED
  BY <1>1, <1>2, <1>3, <1>4 DEF IInv

(* Every step keeps the invariant.                                         *)
LEMMA NextIInv == IInv /\ [Next]_vars => IInv'
<1> SUFFICES ASSUME IInv, [Next]_vars PROVE IInv'
  OBVIOUS
<1>1. CASE Enter
  BY <1>1, EnterStep
<1>2. CASE ReadAhead
  BY <1>2, ReadAheadStep
<1>3. CASE ReadNothing
  BY <1>3, ReadNothingStep
<1>4. CASE DumpHeader
  BY <1>4, DumpHeaderStep
<1>5. CASE GrowBuffer
  BY <1>5, GrowBufferStep
<1>6. CASE GrowFails
  BY <1>6, GrowFailsStep
<1>7. CASE BufferSuffices
  BY <1>7, BufferSufficesStep
<1>8. CASE Content
  BY <1>8, ContentStep
<1>9. CASE Fragment
  BY <1>9, FragmentStep
<1>10. CASE LargeContent
  BY <1>10, LargeContentStep
<1>11. CASE Close
  BY <1>11, CloseStep
<1>12. CASE SeekNext
  BY <1>12, SeekNextStep
<1>13. CASE SeekFails
  BY <1>13, SeekFailsStep
<1>14. CASE Returned \/ UNCHANGED vars
  BY <1>14, StutterStep DEF Returned
<1> QED
  BY <1>1, <1>2, <1>3, <1>4, <1>5, <1>6, <1>7, <1>8, <1>9, <1>10, <1>11,
     <1>12, <1>13, <1>14 DEF Next

(* The invariant holds in every reachable state.                           *)
LEMMA Invariance == Spec => []IInv
<1>1. Init => IInv
  BY InitIInv
<1>2. IInv /\ [Next]_vars => IInv'
  BY NextIInv
<1> QED
  BY <1>1, <1>2, PTL DEF Spec

(* Every variable of the walk stays in its type: no offset or length goes  *)
(* below zero.                                                             *)
THEOREM TypeCorrect == Spec => []TypeOK
<1>1. IInv => TypeOK
  BY DEF IInv
<1> QED
  BY <1>1, Invariance, PTL

(* The next header is never decoded from the middle of a storage block.    *)
THEOREM WalkStaysInSync == Spec => []InSync
<1>1. IInv => InSync
  BY DEF IInv
<1> QED
  BY <1>1, Invariance, PTL

(* The position printed for a block is its offset in the file.             *)
THEOREM PositionIsOffset == Spec => []PositionReported
<1>1. IInv => PositionReported
  BY DEF IInv
<1> QED
  BY <1>1, Invariance, PTL

(* A dump that returns 0 without a failed call has walked the whole file.  *)
THEOREM SuccessIsComplete == Spec => []SuccessMeansWholeFile
<1>1. IInv => SuccessMeansWholeFile
  BY DEF IInv
<1> QED
  BY <1>1, Invariance, PTL

(* A dump returns 1 only for an option, a failed call or a bad header.     *)
THEOREM FailureIsExplained == Spec => []FailureHasCause
<1>1. IInv => FailureHasCause
  BY DEF IInv
<1> QED
  BY <1>1, Invariance, PTL

(* Decompression is never started on a buffer that holds only part of a    *)
(* block the file holds in full.                                           *)
THEOREM CompressedBlocksAreHeld == Spec => []CompressedBlockHeld
<1>1. ASSUME IInv PROVE CompressedBlockHeld
  <2> SUFFICES ASSUME pc = "content", blkHdr.zip, ~IsLarge(blkHdr), ~fragments
               PROVE  /\ blkHdr.len <= blockSize
                      /\ \/ bytesRead = Lesser(blkHdr.len, img.size - start)
                         \/ bytesRead >= blkHdr.len
    BY DEF CompressedBlockHeld
  <2>1. blkHdr.len <= blockSize
    BY <1>1 DEF IInv, BufferFits
  <2>2. /\ start < img.size /\ start \in Nat /\ img.size \in Nat
        /\ blockSize \in Nat /\ bytesRead = Available(start, blockSize)
        /\ blkHdr \in Header /\ blkHdr.len \in Nat
    BY <1>1 DEF IInv, Located, InBlock, FilledFromStart, HeaderLeadsOn,
                HasHeader, TypeOK, IsImage, Header
  <2> QED
    BY <2>1, <2>2 DEF Available, Lesser
<1> QED
  BY <1>1, Invariance, PTL

(***************************************************************************)
(* The walk implements StorageScan.                                        *)
(***************************************************************************)

(* Only the seek to the next block advances the scan.                      *)
LEMMA SeekVisits == IInv /\ SeekNext => Scan!Next
<1> SUFFICES ASSUME IInv, SeekNext PROVE Scan!Next
  OBVIOUS
<1>1. /\ start \in DOMAIN img.at /\ start < img.size
      /\ fpos = start + bytesRead /\ start \in Nat /\ bytesRead \in Nat
      /\ blkHdr.len \in Nat
  BY DEF IInv, TypeOK, SeekNext, Located, InBlock, HeaderLeadsOn, HasHeader,
         Header
<1>2. fpos' = start + blkHdr.len
  BY <1>1 DEF SeekNext, SeekOffset
<1>3. /\ pc = "seek" /\ pc' = "read" /\ img' = img
      /\ result' = result /\ ioFault' = ioFault /\ start' = start
  BY DEF SeekNext, inputs
<1>4. CASE start + img.at[start].hdr <= img.size
  <2>1. blkHdr.len = BlockLen(img.at[start])
    BY <1>3, <1>4 DEF IInv, HeaderIsOwn, HasHeader
  <2>2. Scan!Visit
    BY <1>1, <1>2, <1>3, <2>1 DEF Scan!Visit
  <2> QED
    BY <2>2 DEF Scan!Next
<1>5. CASE ~(start + img.at[start].hdr <= img.size)
  <2>1. start + blkHdr.len >= img.size
    BY <1>3, <1>5 DEF IInv, HeaderIsOwn, HasHeader
  <2>2. Scan!VisitRemnant /\ ~Scan!Readable
    BY <1>1, <1>2, <1>3, <1>5, <2>1 DEF Scan!VisitRemnant, Scan!Readable
  <2> QED
    BY <2>2 DEF Scan!Next
<1> QED
  BY <1>4, <1>5

(* Leaving the loop ends the scan, everything else is invisible to it.     *)
LEMMA StepScans == IInv /\ [Next]_vars => [Scan!Next]_Scan!scanVars
<1> SUFFICES ASSUME IInv, [Next]_vars
             PROVE  Scan!Next \/ UNCHANGED Scan!scanVars
  OBVIOUS
<1>1. CASE Enter
  BY <1>1 DEF Enter, Return, IInv, StartReported, ResultUnset, inputs,
              Scan!Next, Scan!GiveUp, Scan!scanVars
<1>2. CASE ReadAhead
  BY <1>2 DEF ReadAhead, inputs, Scan!scanVars
<1>3. CASE ReadNothing
  BY <1>3 DEF ReadNothing, Return, inputs, Scan!Next, Scan!Complete,
              Scan!GiveUp
<1>4. CASE DumpHeader
  BY <1>4 DEF DumpHeader, Return, inputs, Scan!Next, Scan!GiveUp,
              Scan!scanVars
<1>5. CASE GrowBuffer \/ BufferSuffices
  BY <1>5 DEF GrowBuffer, BufferSuffices, inputs, Scan!scanVars
<1>6. CASE GrowFails \/ SeekFails
  BY <1>6 DEF GrowFails, SeekFails, Return, inputs, Scan!Next, Scan!GiveUp
<1>7. CASE Content
  BY <1>7 DEF Content, SuccessAfterContent, inputs, Scan!scanVars
<1>8. CASE Fragment \/ LargeContent \/ Close
  BY <1>8 DEF Fragment, LargeContent, Close, inputs, Scan!scanVars
<1>9. CASE SeekNext
  BY <1>9, SeekVisits
<1>10. CASE Returned \/ UNCHANGED vars
  BY <1>10 DEF Returned, vars, Scan!scanVars
<1> QED
  BY <1>1, <1>2, <1>3, <1>4, <1>5, <1>6, <1>7, <1>8, <1>9, <1>10 DEF Next

(* Whatever the buffer does, the walk visits the storage blocks front to   *)
(* back, none skipped and none twice, as StorageScan says.                 *)
THEOREM WalkImplementsScan == Spec => ScanSpec
<1>1. Init => Scan!Init
  BY DEF Init, Scan!Init
<1>2. IInv /\ [Next]_vars => [Scan!Next]_Scan!scanVars
  BY StepScans
<1> QED
  BY <1>1, <1>2, Invariance, PTL DEF Spec, ScanSpec, Scan!Spec

(***************************************************************************)
(* The header in hand is the one stored.                                   *)
(***************************************************************************)

(* The file holds all of the header in hand.                               *)
OwnHeader == start + img.at[start].hdr <= img.size

(* A header the file holds in full is in hand as it is stored.             *)
HeaderAsStored ==
  HasHeader /\ OwnHeader => /\ blkHdr = Decoded(img.at[start])
                            /\ HeaderAccepted(img.at[start])

(* The block in hand lies in the file.                                     *)
LEMMA BlockLies ==
  ASSUME IInv, InBlock
  PROVE  /\ start \in DOMAIN img.at /\ start \in Nat /\ start < img.size
         /\ img.size \in Nat /\ DOMAIN img.at \subseteq Nat
         /\ img.at[start] \in Header
         /\ img.at[start].raw \in Nat /\ img.at[start].hdr \in Nat
         /\ BlockLen(img.at[start]) \in Nat \ {0}
         /\ img.at[start].hdr <= BlockLen(img.at[start])
<1>1. /\ start \in DOMAIN img.at /\ start < img.size
      /\ img.size \in Nat /\ DOMAIN img.at \subseteq Nat
      /\ img.at[start] \in Header /\ img.at[start].hdr <= img.at[start].len
  BY DEF IInv, Located, TypeOK, IsImage
<1>2. img.at[start].raw \in Nat /\ img.at[start].hdr \in Nat
  BY <1>1 DEF Header
<1>3. BlockLen(img.at[start]) \in Nat \ {0}
  BY <1>1, BlockLenType
<1>4. img.at[start].hdr <= BlockLen(img.at[start])
  BY <1>1, <1>2 DEF BlockLen
<1> QED
  BY <1>1, <1>2, <1>3, <1>4

(* A header the file holds in full is in the buffer in full.               *)
LEMMA DecodesAsStored ==
  ASSUME IInv, DumpHeader, OwnHeader, pc' = "grow"
  PROVE  blkHdr' = Decoded(img.at[start]) /\ HeaderAccepted(img.at[start])
<1>1. /\ pc = "header" /\ start \in Nat /\ img.size \in Nat
      /\ img.at[start].hdr \in Nat /\ start \in DOMAIN img.at
  BY BlockLies DEF DumpHeader, InBlock
<1>2. bytesRead >= img.at[start].hdr
  <2>1. img.at[start].hdr <= InitialBuffer /\ InitialBuffer \in Nat
    BY <1>1, BufferAssumption DEF IInv
  <2>2. blockSize \in Nat /\ blockSize >= InitialBuffer
    BY DEF IInv, TypeOK, BufferNeverShrinks
  <2>3. /\ bytesRead = Available(start, blockSize) /\ bytesRead \in Nat
        /\ start < img.size
    BY <1>1 DEF IInv, TypeOK, FilledFromStart, Located, InBlock
  <2>4. start + img.at[start].hdr <= img.size
    BY DEF OwnHeader
  <2> QED
    BY <1>1, <2>1, <2>2, <2>3, <2>4 DEF Available, Lesser
<1>3. Decodable = {img.at[start]}
  BY <1>1, <1>2 DEF Decodable
<1> QED
  BY <1>3 DEF DumpHeader, Return

(* The header stays in hand until the stream is moved on.                  *)
LEMMA NextAsStored ==
  IInv /\ HeaderAsStored /\ [Next]_vars => HeaderAsStored'
<1> SUFFICES ASSUME IInv, HeaderAsStored, [Next]_vars, HasHeader', OwnHeader'
             PROVE  /\ blkHdr' = Decoded(img.at[start])'
                    /\ HeaderAccepted(img.at[start])'
  BY DEF HeaderAsStored
<1>1. CASE DumpHeader
  <2>1. UNCHANGED <<img, opts, start>> /\ pc' = "grow"
    BY <1>1 DEF DumpHeader, Return, inputs, HasHeader
  <2>2. OwnHeader
    BY <2>1 DEF OwnHeader
  <2> QED
    BY <1>1, <2>1, <2>2, DecodesAsStored DEF HeaderAccepted, Verifying
<1>2. CASE \/ GrowBuffer \/ BufferSuffices \/ Content \/ Fragment
           \/ LargeContent \/ Close \/ Returned \/ UNCHANGED vars
  <2>1. UNCHANGED <<img, opts, start, blkHdr>> /\ HasHeader
    BY <1>2 DEF GrowBuffer, BufferSuffices, Content, SuccessAfterContent,
                Fragment, LargeContent, Close, Returned, vars, inputs, HasHeader
  <2>2. OwnHeader
    BY <2>1 DEF OwnHeader
  <2> QED
    BY <2>1, <2>2 DEF HeaderAsStored, HeaderAccepted, Verifying
<1>3. CASE \/ Enter \/ ReadAhead \/ ReadNothing \/ GrowFails \/ SeekNext
           \/ SeekFails
  <2>1. pc' \in {"read", "header", "done"}
    BY <1>3 DEF Enter, ReadAhead, ReadNothing, GrowFails, SeekNext, SeekFails,
                Return
  <2> QED
    BY <2>1 DEF HasHeader
<1> QED
  BY <1>1, <1>2, <1>3 DEF Next

(* The header in hand has the fields of the stored one.                    *)
LEMMA OwnFields ==
  ASSUME IInv, HeaderAsStored, HasHeader, OwnHeader
  PROVE  /\ blkHdr.raw = img.at[start].raw
         /\ blkHdr.hdr = img.at[start].hdr
         /\ blkHdr.len = BlockLen(img.at[start])
         /\ blkHdr.kind = img.at[start].kind
         /\ blkHdr.zip = img.at[start].zip
         /\ blkHdr.blockSumOK = img.at[start].blockSumOK
         /\ blkHdr.contentOK = img.at[start].contentOK
<1>1. blkHdr = Decoded(img.at[start])
  BY DEF HeaderAsStored
<1>2. img.at[start] \in Header
  BY BlockLies DEF InBlock, HasHeader
<1> QED
  BY <1>1, <1>2 DEF Decoded, Header

(***************************************************************************)
(* A healthy file gets no complaint.                                       *)
(***************************************************************************)

(* A block that holds content is longer than its storage header.           *)
ContentBehindHeader ==
  \A f \in Images : \A o \in DOMAIN f.at :
    f.at[o].kind \notin {"None", "Unexpected", "LargeContent"}
      => f.at[o].hdr < f.at[o].len

(* What is looked at in a healthy file whose uncompressed blocks fit the   *)
(* initial buffer has been read, so that neither check is left to chance.  *)
LEMMA ContentQuiet ==
  ASSUME ContentBehindHeader, IInv, HeaderAsStored, Content, Healthy(img),
         \A o \in DOMAIN img.at :
           ~img.at[o].zip => BlockLen(img.at[o]) <= InitialBuffer
  PROVE  complained' = complained
<1>1. /\ pc = "content" /\ ~IsLarge(blkHdr) /\ ~fragments
  BY DEF Content
<1>2. /\ start \in DOMAIN img.at /\ start \in Nat /\ img.size \in Nat
      /\ start < img.size
      /\ img.at[start].hdr \in Nat /\ BlockLen(img.at[start]) \in Nat
      /\ img.at[start].hdr <= BlockLen(img.at[start])
  BY <1>1, BlockLies DEF InBlock
<1>3. /\ start + BlockLen(img.at[start]) <= img.size
      /\ img.at[start].blockSumOK /\ img.at[start].contentOK
  BY <1>2 DEF Healthy
<1>4. OwnHeader
  BY <1>2, <1>3 DEF OwnHeader
<1>5. /\ blkHdr.hdr = img.at[start].hdr
      /\ blkHdr.len = BlockLen(img.at[start])
      /\ blkHdr.kind = img.at[start].kind
      /\ blkHdr.zip = img.at[start].zip
      /\ blkHdr.blockSumOK /\ blkHdr.contentOK
  BY <1>1, <1>3, <1>4, OwnFields DEF HasHeader
<1>6. blkHdr.hdr < blkHdr.len
  <2>1. img.at[start].kind \notin {"None", "Unexpected", "LargeContent"}
    BY <1>1, <1>4, <1>5 DEF HeaderAsStored, HasHeader, HeaderAccepted
  <2> QED
    BY <1>2, <1>5, <2>1 DEF ContentBehindHeader, BlockLen, IInv
<1>7. blkHdr.len <= blockSize
  <2>1. CASE blkHdr.zip
    BY <1>1, <2>1 DEF IInv, BufferFits
  <2>2. CASE ~blkHdr.zip
    <3>1. blkHdr.len <= InitialBuffer
      BY <1>2, <1>5, <2>2
    <3>2. /\ blockSize >= InitialBuffer /\ blockSize \in Nat
          /\ InitialBuffer \in Nat /\ blkHdr.len \in Nat
      BY <1>2, <1>5, BufferAssumption DEF IInv, TypeOK, BufferNeverShrinks
    <3> QED
      BY <3>1, <3>2
  <2> QED
    BY <2>1, <2>2
<1>8. bytesRead >= blkHdr.len /\ bytesRead > blkHdr.hdr
  <2>1. bytesRead = Available(start, blockSize) /\ blockSize \in Nat
    BY <1>1 DEF IInv, TypeOK, FilledFromStart
  <2> QED
    BY <1>2, <1>3, <1>5, <1>6, <1>7, <2>1 DEF Available, Lesser
<1>9. ChecksumOutcomes = {TRUE} /\ ContentOutcomes = {TRUE}
  <2>1. blkHdr.blockSumOK = TRUE /\ blkHdr.contentOK = TRUE
    BY <1>3, <1>5
  <2>2. ContentHeld
    BY <1>8 DEF ContentHeld
  <2>3. ChecksumOutcomes \in {{TRUE}, {blkHdr.blockSumOK}}
    BY <1>8 DEF ChecksumOutcomes
  <2>4. ContentOutcomes \in {{TRUE}, {blkHdr.contentOK}}
    BY <2>2 DEF ContentOutcomes
  <2> QED
    BY <2>1, <2>3, <2>4
<1>10. complained \in BOOLEAN
  BY DEF IInv, TypeOK
<1> QED
  BY <1>9, <1>10 DEF Content

(* No file that deserves none gets a complaint, as long as its             *)
(* uncompressed blocks fit the initial buffer.                             *)
THEOREM HealthyFilesAreQuiet ==
  ASSUME ContentBehindHeader PROVE Spec => []HealthyQuietWhenItFits
<1>1. Init => HeaderAsStored /\ HealthyQuietWhenItFits
  BY DEF Init, HeaderAsStored, HasHeader, HealthyQuietWhenItFits
<1>2. IInv /\ HeaderAsStored /\ [Next]_vars => HeaderAsStored'
  BY NextAsStored
<1>3. IInv /\ HeaderAsStored /\ HealthyQuietWhenItFits /\ [Next]_vars
        => HealthyQuietWhenItFits'
  <2> SUFFICES ASSUME IInv, HeaderAsStored, HealthyQuietWhenItFits, [Next]_vars
               PROVE  HealthyQuietWhenItFits'
    OBVIOUS
  <2>1. img' = img
    BY DEF Next, Enter, ReadAhead, ReadNothing, DumpHeader, GrowBuffer,
           GrowFails, BufferSuffices, Content, Fragment, LargeContent, Close,
           SeekNext, SeekFails, Returned, inputs, vars
  <2>2. CASE Content
    BY <2>1, <2>2, ContentQuiet DEF HealthyQuietWhenItFits
  <2>3. CASE ~Content
    <3>1. complained' = complained
      BY <2>3 DEF Next, Enter, ReadAhead, ReadNothing, DumpHeader, GrowBuffer,
                  GrowFails, BufferSuffices, Fragment, LargeContent, Close,
                  SeekNext, SeekFails, Returned, vars
    <3> QED
      BY <2>1, <3>1 DEF HealthyQuietWhenItFits
  <2> QED
    BY <2>2, <2>3
<1> QED
  BY <1>1, <1>2, <1>3, Invariance, PTL DEF Spec

(***************************************************************************)
(* Large contents are followed.                                            *)
(***************************************************************************)

(* What the walk believes at the block that starts at o is what the file   *)
(* says there.                                                             *)
BelievedAt(o) ==
  /\ remaining = img.owed[o]
  /\ fragments <=> img.owed[o] > 0
  /\ currentBlock = Cardinality(EndingBefore(img, o))

(* What the walk believes once it has looked at the block in hand.         *)
PaidOff ==
  /\ remaining = OwedAfter(img, start)
  /\ fragments <=> OwedAfter(img, start) > 0

(* The belief is carried along each iteration: from the block's start,     *)
(* over the content, where the fragment is paid off, and over the end of   *)
(* a logical block, where it is counted, to the next block's start.        *)
Followed ==
  Coherent(img) =>
    /\ pc = "enter" => remaining = 0 /\ ~fragments /\ currentBlock = 0 /\ fpos = 0
    /\ pc = "read" /\ fpos < img.size => BelievedAt(fpos)
    /\ pc \in {"header", "grow", "content"} => BelievedAt(start)
    /\ pc = "close" /\ OwnHeader =>
         PaidOff /\ currentBlock = Cardinality(EndingBefore(img, start))
    /\ pc = "seek" /\ OwnHeader =>
         /\ PaidOff
         /\ currentBlock = Cardinality(EndingBefore(img, start))
                           + (IF EndsLogical(img, start) THEN 1 ELSE 0)

(* What a finished file says of the block in hand.                         *)
LEMMA BlockInHand ==
  ASSUME IInv, InBlock, Coherent(img)
  PROVE  /\ start \in DOMAIN img.at /\ start \in Nat /\ start < img.size
         /\ img.size \in Nat /\ DOMAIN img.at \subseteq Nat
         /\ img.at[start] \in Header
         /\ img.owed[start] \in Nat /\ img.at[start].raw \in Nat
         /\ img.at[start].hdr \in Nat /\ BlockLen(img.at[start]) \in Nat \ {0}
         /\ img.owed[start] > 0 =>
              ~IsLarge(img.at[start]) /\ img.at[start].raw <= img.owed[start]
         /\ IsLarge(img.at[start]) => img.at[start].raw > 0
         /\ start + BlockLen(img.at[start]) \in DOMAIN img.at =>
              img.owed[start + BlockLen(img.at[start])] = OwedAfter(img, start)
         /\ \A p \in DOMAIN img.at :
              start < p => start + BlockLen(img.at[start]) <= p
  BY BlockLies DEF Coherent

(* A block ends a logical block exactly if it leaves nothing owed.         *)
LEMMA OwedEnds ==
  ASSUME IInv, InBlock, Coherent(img)
  PROVE  /\ OwedAfter(img, start) \in Nat
         /\ EndsLogical(img, start) <=> OwedAfter(img, start) = 0
  BY BlockInHand DEF OwedAfter, EndsLogical

(* The logical blocks ended before the next block are those ended before   *)
(* this one, and this one if it ends one.                                  *)
LEMMA OneMoreEnded ==
  ASSUME IInv, InBlock, Coherent(img)
  PROVE  Cardinality(EndingBefore(img, start + BlockLen(img.at[start])))
           = Cardinality(EndingBefore(img, start))
             + (IF EndsLogical(img, start) THEN 1 ELSE 0)
<1> DEFINE next == start + BlockLen(img.at[start])
<1>1. /\ start \in DOMAIN img.at /\ start \in Nat /\ next \in Nat
      /\ start < next /\ DOMAIN img.at \subseteq Nat
      /\ \A p \in DOMAIN img.at : start < p => next <= p
  BY BlockInHand
<1> HIDE DEF next
<1>2. IsFiniteSet(EndingBefore(img, start)) /\ start \notin EndingBefore(img, start)
  <2>1. EndingBefore(img, start) \subseteq 0..start
    BY <1>1 DEF EndingBefore
  <2>2. IsFiniteSet(0..start)
    BY <1>1, FS_Interval
  <2>3. IsFiniteSet(EndingBefore(img, start))
    BY <2>1, <2>2, FS_Subset
  <2> QED
    BY <1>1, <2>3 DEF EndingBefore
<1>3. Cardinality(EndingBefore(img, start)) \in Nat
  BY <1>2, FS_CardinalityType
<1>4. \A p \in DOMAIN img.at : p < next <=> p < start \/ p = start
  BY <1>1
<1>5. CASE EndsLogical(img, start)
  <2>1. EndingBefore(img, next) = EndingBefore(img, start) \cup {start}
    BY <1>1, <1>4, <1>5 DEF EndingBefore
  <2>2. Cardinality(EndingBefore(img, start) \cup {start})
          = Cardinality(EndingBefore(img, start)) + 1
    BY <1>2, FS_AddElement
  <2> QED
    BY <1>5, <2>1, <2>2 DEF next
<1>6. CASE ~EndsLogical(img, start)
  <2>1. EndingBefore(img, next) = EndingBefore(img, start)
    BY <1>1, <1>4, <1>6 DEF EndingBefore
  <2> QED
    BY <1>3, <1>6, <2>1 DEF next
<1> QED
  BY <1>5, <1>6

(* Nothing is owed and nothing counted before the first block.             *)
LEMMA EnterFollows == IInv /\ Followed /\ Enter => Followed'
<1> SUFFICES ASSUME IInv, Followed, Enter, Coherent(img)
             PROVE  Followed'
  BY DEF Followed, Enter, inputs
<1>1. /\ pc = "enter" /\ pc' \in {"read", "done"} /\ img' = img
      /\ UNCHANGED <<remaining, fragments, currentBlock, fpos>>
  BY DEF Enter, Return, inputs, counters
<1>2. remaining = 0 /\ ~fragments /\ currentBlock = 0 /\ fpos = 0
  BY <1>1 DEF Followed
<1>3. fpos < img.size => BelievedAt(0)
  <2> SUFFICES ASSUME fpos < img.size PROVE BelievedAt(0)
    OBVIOUS
  <2>1. /\ 0 \in DOMAIN img.at /\ DOMAIN img.at \subseteq Nat
    BY <1>2 DEF IInv, TypeOK, IsImage
  <2>2. img.owed[0] = 0
    BY <2>1 DEF Coherent
  <2>3. EndingBefore(img, 0) = {}
    BY <2>1 DEF EndingBefore
  <2> QED
    BY <1>2, <2>2, <2>3, FS_EmptySet DEF BelievedAt
<1>4. fpos' < img'.size /\ pc' = "read" => BelievedAt(fpos)'
  BY <1>1, <1>2, <1>3 DEF BelievedAt
<1> QED
  BY <1>1, <1>4 DEF Followed

(* The block read is the one believed in.                                  *)
LEMMA ReadAheadFollows == IInv /\ Followed /\ ReadAhead => Followed'
<1> SUFFICES ASSUME IInv, Followed, ReadAhead, Coherent(img)
             PROVE  Followed'
  BY DEF Followed, ReadAhead, inputs
<1>1. /\ pc = "read" /\ pc' = "header" /\ img' = img /\ start' = fpos
      /\ UNCHANGED <<remaining, fragments, currentBlock>>
  BY DEF ReadAhead, inputs
<1>2. fpos < img.size
  BY DEF ReadAhead, Available
<1>3. BelievedAt(start)'
  BY <1>1, <1>2 DEF Followed, BelievedAt
<1> QED
  BY <1>1, <1>3 DEF Followed

(* Decoding the header leaves the belief alone.                            *)
LEMMA DumpHeaderFollows == IInv /\ Followed /\ DumpHeader => Followed'
<1> SUFFICES ASSUME IInv, Followed, DumpHeader, Coherent(img)
             PROVE  Followed'
  BY DEF Followed, DumpHeader, inputs
<1>1. /\ pc = "header" /\ pc' \in {"grow", "done"} /\ img' = img
      /\ UNCHANGED <<remaining, fragments, currentBlock, start>>
  BY DEF DumpHeader, Return, inputs, counters
<1>2. BelievedAt(start)'
  BY <1>1 DEF Followed, BelievedAt
<1> QED
  BY <1>1, <1>2 DEF Followed

(* What happens to the buffer leaves the belief alone.                     *)
LEMMA BufferFollows ==
  IInv /\ Followed /\ (GrowBuffer \/ BufferSuffices) => Followed'
<1> SUFFICES ASSUME IInv, Followed, GrowBuffer \/ BufferSuffices, Coherent(img)
             PROVE  Followed'
  BY DEF Followed, GrowBuffer, BufferSuffices, inputs
<1>1. /\ pc = "grow" /\ pc' = "content" /\ img' = img
      /\ UNCHANGED <<remaining, fragments, currentBlock, start, blkHdr>>
  BY DEF GrowBuffer, BufferSuffices, inputs, counters
<1>2. BelievedAt(start)'
  BY <1>1 DEF Followed, BelievedAt
<1> QED
  BY <1>1, <1>2 DEF Followed

(* Looking at the content pays off what the block is worth.                *)
LEMMA ContentFollows ==
  IInv /\ HeaderAsStored /\ Followed /\ (Content \/ Fragment \/ LargeContent)
    => Followed'
<1> SUFFICES ASSUME IInv, HeaderAsStored, Followed, Content \/ Fragment \/ LargeContent,
                    Coherent(img)
             PROVE  Followed'
  BY DEF Followed, Content, Fragment, LargeContent, inputs
<1>1. /\ pc = "content" /\ pc' = "close" /\ img' = img
      /\ UNCHANGED <<currentBlock, start, blkHdr>>
  BY DEF Content, Fragment, LargeContent, SuccessAfterContent, inputs, counters
<1>2. OwnHeader' <=> OwnHeader
  BY <1>1 DEF OwnHeader
<1>3. /\ remaining = img.owed[start] /\ (fragments <=> img.owed[start] > 0)
      /\ currentBlock = Cardinality(EndingBefore(img, start))
  BY <1>1 DEF Followed, BelievedAt
<1>4. ASSUME OwnHeader
      PROVE  /\ remaining' = OwedAfter(img, start)
             /\ fragments' <=> OwedAfter(img, start) > 0
  <2>1. /\ blkHdr.raw = img.at[start].raw
        /\ IsLarge(blkHdr) <=> IsLarge(img.at[start])
    BY <1>1, <1>4, OwnFields DEF HasHeader
  <2>2. /\ img.owed[start] \in Nat /\ img.at[start].raw \in Nat
        /\ img.owed[start] > 0 =>
             ~IsLarge(img.at[start]) /\ img.at[start].raw <= img.owed[start]
        /\ IsLarge(img.at[start]) => img.at[start].raw > 0
    BY <1>1, BlockInHand DEF InBlock
  <2>3. CASE Content
    <3>1. ~IsLarge(blkHdr) /\ ~fragments /\ UNCHANGED <<remaining, fragments>>
      BY <2>3 DEF Content, counters
    <3> QED
      BY <1>3, <2>1, <2>2, <3>1 DEF OwedAfter
  <2>4. CASE Fragment
    <3>1. /\ ~IsLarge(blkHdr) /\ fragments
          /\ remaining' = remaining - blkHdr.raw
          /\ fragments' <=> remaining' # 0
      BY <2>4 DEF Fragment
    <3> QED
      BY <1>3, <2>1, <2>2, <3>1 DEF OwedAfter
  <2>5. CASE LargeContent
    <3>1. IsLarge(blkHdr) /\ remaining' = blkHdr.raw /\ fragments'
      BY <2>5 DEF LargeContent
    <3> QED
      BY <2>1, <2>2, <3>1 DEF OwedAfter
  <2> QED
    BY <2>3, <2>4, <2>5
<1>5. OwnHeader' => PaidOff'
  BY <1>1, <1>2, <1>4 DEF PaidOff
<1>6. currentBlock' = Cardinality(EndingBefore(img', start'))
  BY <1>1, <1>3
<1> QED
  BY <1>1, <1>5, <1>6 DEF Followed

(* A logical block is counted exactly where it ends.                       *)
LEMMA CloseFollows == IInv /\ Followed /\ Close => Followed'
<1> SUFFICES ASSUME IInv, Followed, Close, Coherent(img)
             PROVE  Followed'
  BY DEF Followed, Close, inputs
<1>1. /\ pc = "close" /\ pc' = "seek" /\ img' = img
      /\ UNCHANGED <<remaining, fragments, start, blkHdr>>
      /\ currentBlock' = IF fragments THEN currentBlock ELSE currentBlock + 1
  BY DEF Close, inputs
<1>2. OwnHeader' <=> OwnHeader
  BY <1>1 DEF OwnHeader
<1>3. ASSUME OwnHeader
      PROVE  /\ PaidOff'
             /\ currentBlock' = Cardinality(EndingBefore(img', start'))
                                + (IF EndsLogical(img', start') THEN 1 ELSE 0)
  <2>1. PaidOff /\ currentBlock = Cardinality(EndingBefore(img, start))
    BY <1>1, <1>3 DEF Followed
  <2>2. PaidOff'
    BY <1>1, <2>1 DEF PaidOff
  <2>3. fragments <=> ~EndsLogical(img, start)
    BY <1>1, <2>1, OwedEnds DEF PaidOff, InBlock
  <2>4. currentBlock \in Nat
    BY DEF IInv, TypeOK
  <2>5. currentBlock' = currentBlock + (IF EndsLogical(img, start) THEN 1 ELSE 0)
    BY <1>1, <2>3, <2>4
  <2> QED
    BY <1>1, <2>1, <2>2, <2>5
<1> QED
  BY <1>1, <1>2, <1>3 DEF Followed

(* The belief at the end of a block is that at the start of the next.      *)
LEMMA SeekNextFollows ==
  IInv /\ HeaderAsStored /\ Followed /\ SeekNext => Followed'
<1> SUFFICES ASSUME IInv, HeaderAsStored, Followed, SeekNext, Coherent(img)
             PROVE  Followed'
  BY DEF Followed, SeekNext, inputs
<1>1. /\ pc = "seek" /\ pc' = "read" /\ img' = img
      /\ UNCHANGED <<remaining, fragments, currentBlock>>
  BY DEF SeekNext, inputs, counters
<1>2. fpos' = start + blkHdr.len /\ blkHdr.len \in Nat
  <2>1. blkHdr \in Header /\ blkHdr.len \in Nat
    BY <1>1 DEF IInv, HeaderLeadsOn, HasHeader, Header
  <2>2. /\ fpos = start + bytesRead /\ start \in Nat /\ bytesRead \in Nat
        /\ fpos' = fpos + SeekOffset
    BY <1>1 DEF IInv, TypeOK, Located, InBlock, SeekNext
  <2> QED
    BY <2>1, <2>2 DEF SeekOffset
<1>3. ASSUME fpos' < img.size PROVE BelievedAt(fpos)'
  <2>1. start \in Nat /\ img.size \in Nat
    BY <1>1, BlockInHand DEF InBlock
  <2>2. OwnHeader
    BY <1>1, <1>2, <1>3, <2>1 DEF IInv, HeaderIsOwn, HasHeader, OwnHeader
  <2>3. fpos' = start + BlockLen(img.at[start])
    BY <1>1, <1>2, <2>2, OwnFields DEF HasHeader
  <2>4. fpos' \in DOMAIN img.at
    BY <1>1, <1>2, <1>3, <2>1 DEF IInv, HeaderLeadsOn, HasHeader
  <2>5. img.owed[fpos'] = OwedAfter(img, start)
    BY <1>1, <2>3, <2>4, BlockInHand DEF InBlock
  <2>6. /\ remaining = OwedAfter(img, start)
        /\ fragments <=> OwedAfter(img, start) > 0
        /\ currentBlock = Cardinality(EndingBefore(img, start))
                          + (IF EndsLogical(img, start) THEN 1 ELSE 0)
    BY <1>1, <2>2 DEF Followed, PaidOff
  <2>7. currentBlock = Cardinality(EndingBefore(img, fpos'))
    BY <1>1, <2>3, <2>6, OneMoreEnded DEF InBlock
  <2> QED
    BY <1>1, <2>5, <2>6, <2>7 DEF BelievedAt
<1> QED
  BY <1>1, <1>3 DEF Followed

(* Every step carries the belief on.                                       *)
LEMMA NextFollows ==
  IInv /\ HeaderAsStored /\ Followed /\ [Next]_vars => Followed'
<1> SUFFICES ASSUME IInv, HeaderAsStored, Followed, [Next]_vars PROVE Followed'
  OBVIOUS
<1>1. CASE Enter
  BY <1>1, EnterFollows
<1>2. CASE ReadAhead
  BY <1>2, ReadAheadFollows
<1>3. CASE DumpHeader
  BY <1>3, DumpHeaderFollows
<1>4. CASE GrowBuffer \/ BufferSuffices
  BY <1>4, BufferFollows
<1>5. CASE Content \/ Fragment \/ LargeContent
  BY <1>5, ContentFollows
<1>6. CASE Close
  BY <1>6, CloseFollows
<1>7. CASE SeekNext
  BY <1>7, SeekNextFollows
<1>8. CASE ReadNothing \/ GrowFails \/ SeekFails
  <2>1. pc' = "done"
    BY <1>8 DEF ReadNothing, GrowFails, SeekFails, Return
  <2> QED
    BY <2>1 DEF Followed
<1>9. CASE Returned \/ UNCHANGED vars
  <2>1. UNCHANGED <<img, pc, fpos, start, blkHdr, remaining, fragments,
                    currentBlock>>
    BY <1>9 DEF Returned, vars
  <2>2. /\ (Coherent(img) <=> Coherent(img)')
        /\ (OwnHeader <=> OwnHeader') /\ (PaidOff <=> PaidOff')
        /\ (BelievedAt(fpos) <=> BelievedAt(fpos)')
        /\ (BelievedAt(start) <=> BelievedAt(start)')
    BY <2>1 DEF OwnHeader, PaidOff, BelievedAt
  <2> QED
    BY <2>1, <2>2 DEF Followed
<1> QED
  BY <1>1, <1>2, <1>3, <1>4, <1>5, <1>6, <1>7, <1>8, <1>9 DEF Next

(* The belief is what the property is about.                               *)
LEMMA FollowedShows ==
  IInv /\ HeaderAsStored /\ Followed => LargeContentFollowed
<1> SUFFICES ASSUME IInv, HeaderAsStored, Followed, Coherent(img) PROVE LargeContentFollowed
  BY DEF LargeContentFollowed, FragmentsOwed, BlocksCounted
<1>1. fragments \in BOOLEAN
  BY DEF IInv, TypeOK
<1>2. ASSUME pc = "read", fpos < img.size
      PROVE  /\ remaining = img.owed[fpos]
             /\ fragments = (img.owed[fpos] > 0)
             /\ currentBlock = Cardinality(EndingBefore(img, fpos))
  <2>1. BelievedAt(fpos)
    BY <1>2 DEF Followed
  <2> QED
    BY <1>1, <2>1 DEF BelievedAt
<1>3. ASSUME pc = "content", fragments, bytesRead >= img.at[start].hdr
      PROVE  ~IsLarge(blkHdr) /\ remaining >= blkHdr.raw
  <2>1. /\ img.owed[start] \in Nat /\ img.at[start].raw \in Nat
        /\ start \in Nat /\ img.size \in Nat /\ img.at[start].hdr \in Nat
        /\ img.owed[start] > 0 =>
             ~IsLarge(img.at[start]) /\ img.at[start].raw <= img.owed[start]
    BY <1>3, BlockInHand DEF InBlock
  <2>2. remaining = img.owed[start] /\ img.owed[start] > 0
    BY <1>3 DEF Followed, BelievedAt
  <2>3. start + bytesRead <= img.size
    <3>1. /\ bytesRead = Available(start, blockSize) /\ blockSize \in Nat
          /\ IsImage(img) /\ start < img.size
      BY <1>3 DEF IInv, TypeOK, FilledFromStart, Located, InBlock
    <3> QED
      BY <2>1, <3>1, AvailableBounds
  <2>4. OwnHeader
    BY <1>3, <2>1, <2>3 DEF OwnHeader, IInv, TypeOK
  <2> QED
    BY <1>3, <2>1, <2>2, <2>4, OwnFields DEF HasHeader
<1>4. FragmentsOwed
  BY <1>2, <1>3 DEF FragmentsOwed
<1>5. BlocksCounted
  BY <1>2 DEF BlocksCounted
<1> QED
  BY <1>4, <1>5 DEF LargeContentFollowed

(* In a finished file the walk knows at every block how much of a large    *)
(* content is still to come, and how many logical blocks lie behind it.    *)
THEOREM LargeContentsAreFollowed == Spec => []LargeContentFollowed
<1>1. Init => HeaderAsStored /\ Followed
  BY DEF Init, HeaderAsStored, Followed, HasHeader
<1>2. IInv /\ HeaderAsStored /\ [Next]_vars => HeaderAsStored'
  BY NextAsStored
<1>3. IInv /\ HeaderAsStored /\ Followed /\ [Next]_vars => Followed'
  BY NextFollows
<1>4. IInv /\ HeaderAsStored /\ Followed => LargeContentFollowed
  BY FollowedShows
<1> QED
  BY <1>1, <1>2, <1>3, <1>4, Invariance, PTL DEF Spec
(***************************************************************************)
(* The walk ends: a number falls with every step.                          *)
(***************************************************************************)

(* Where the walk is: at the block in hand, else where the stream stands.  *)
Reached == IF InBlock THEN start ELSE fpos
Ahead == IF Reached < img.size THEN img.size - Reached ELSE 0

(* The steps an iteration has left.                                        *)
StepsInLoop ==
  CASE pc = "enter" -> 7 [] pc = "read" -> 6 [] pc = "header" -> 5
    [] pc = "grow" -> 4 [] pc = "content" -> 3 [] pc = "close" -> 2
    [] pc = "seek" -> 1 [] pc = "done" -> 0

(* No more than this many steps are left: 8 for each byte ahead.           *)
StepsLeft == 8 * Ahead + StepsInLoop

\* What the measure looks at, as plain numbers.
LEMMA MeasureType ==
  ASSUME IInv
  PROVE  /\ Ahead \in Nat /\ StepsInLoop \in 0..7 /\ StepsLeft \in Nat
         /\ img.size \in Nat /\ start \in Nat /\ fpos \in Nat /\ bytesRead \in Nat
<1>1. img.size \in Nat /\ start \in Nat /\ fpos \in Nat /\ bytesRead \in Nat
  BY DEF IInv, TypeOK, IsImage
<1>2. StepsInLoop \in 0..7
  <2>1. pc \in {"enter", "read", "header", "grow", "content", "close", "seek", "done"}
    BY DEF IInv, TypeOK
  <2> QED
    BY <2>1 DEF StepsInLoop
<1>3. Ahead \in Nat
  BY <1>1 DEF Ahead, Reached
<1> QED
  BY <1>1, <1>2, <1>3 DEF StepsLeft

\* Seven steps weigh less than a byte.
LEMMA EightEach ==
  ASSUME NEW a \in Nat, NEW b \in Nat, NEW r \in 0..7, NEW s \in 0..7,
         b < a \/ (b <= a /\ s < r)
  PROVE  8 * b + s < 8 * a + r
  OBVIOUS

\* The walk does not go back, and the iteration goes on or is over.
LEMMA SameBlock ==
  ASSUME IInv, IInv', img' = img, Reached <= Reached', StepsInLoop' < StepsInLoop
  PROVE  StepsLeft' < StepsLeft
<1>1. Reached \in Nat /\ Reached' \in Nat /\ img.size \in Nat
  BY MeasureType DEF IInv, TypeOK, Reached
<1>2. Ahead' <= Ahead
  BY <1>1 DEF Ahead
<1>3. Ahead \in Nat /\ Ahead' \in Nat /\ StepsInLoop \in 0..7
  BY <1>1, MeasureType DEF Ahead
<1>4. StepsInLoop' \in 0..7
  <2>1. pc' \in {"enter", "read", "header", "grow", "content", "close", "seek", "done"}
    BY DEF IInv, TypeOK
  <2> QED
    BY <2>1 DEF StepsInLoop
<1> QED
  BY <1>2, <1>3, <1>4, EightEach DEF StepsLeft

\* The next block is at least a byte further on.
LEMMA NextBlock ==
  ASSUME IInv, SeekNext
  PROVE  StepsLeft' < StepsLeft
<1>1. /\ start \in Nat /\ start < img.size /\ img.size \in Nat
      /\ fpos = start + bytesRead /\ bytesRead \in Nat
  BY MeasureType DEF IInv, Located, InBlock, SeekNext
<1>2. blkHdr.len \in Nat \ {0}
  BY DEF IInv, SeekNext, HeaderLeadsOn, HasHeader, Header
<1>3. fpos' = start + blkHdr.len /\ img' = img
  BY <1>1, <1>2 DEF SeekNext, SeekOffset, inputs
<1>4. Reached = start /\ Reached' = fpos' /\ StepsInLoop = 1 /\ StepsInLoop' = 6
  BY DEF Reached, InBlock, StepsInLoop, SeekNext
<1>5. Ahead = img.size - start
  BY <1>1, <1>4 DEF Ahead
<1>6. Ahead' \in Nat /\ Ahead' < Ahead
  BY <1>1, <1>2, <1>3, <1>4, <1>5 DEF Ahead
<1> QED
  BY <1>1, <1>4, <1>5, <1>6, EightEach DEF StepsLeft

LEMMA StepsFall ==
  ASSUME IInv, Next, pc # "done"
  PROVE  StepsLeft' < StepsLeft
<1>1. IInv'
  BY NextIInv
<1>2. start \in Nat /\ fpos \in Nat /\ bytesRead \in Nat
      /\ (InBlock => fpos = start + bytesRead)
  BY MeasureType DEF IInv, Located
<1>3. CASE Enter
  <2>1. img' = img /\ Reached' = Reached /\ Reached \in Nat
    BY <1>2, <1>3 DEF Enter, Return, inputs, Reached, InBlock
  <2>2. StepsInLoop = 7 /\ StepsInLoop' \in {0, 6}
    BY <1>3 DEF Enter, Return, StepsInLoop
  <2> QED
    BY <1>1, <2>1, <2>2, SameBlock
<1>4. CASE ReadAhead
  <2>1. img' = img /\ Reached' = Reached /\ Reached \in Nat
    BY <1>2, <1>4 DEF ReadAhead, inputs, Reached, InBlock
  <2>2. StepsInLoop = 6 /\ StepsInLoop' = 5
    BY <1>4 DEF ReadAhead, StepsInLoop
  <2> QED
    BY <1>1, <2>1, <2>2, SameBlock
<1>5. CASE ReadNothing
  <2>1. img' = img /\ Reached' = Reached /\ Reached \in Nat
    BY <1>2, <1>5 DEF ReadNothing, Return, inputs, Reached, InBlock
  <2>2. StepsInLoop = 6 /\ StepsInLoop' = 0
    BY <1>5 DEF ReadNothing, Return, StepsInLoop
  <2> QED
    BY <1>1, <2>1, <2>2, SameBlock
<1>6. CASE DumpHeader
  <2>1. img' = img /\ Reached <= Reached'
    BY <1>2, <1>6 DEF DumpHeader, Return, inputs, Reached, InBlock
  <2>2. StepsInLoop = 5 /\ StepsInLoop' \in {0, 4}
    BY <1>6 DEF DumpHeader, Return, StepsInLoop
  <2> QED
    BY <1>1, <2>1, <2>2, SameBlock
<1>7. CASE GrowBuffer \/ BufferSuffices
  <2>1. img' = img /\ Reached' = Reached /\ Reached \in Nat
    BY <1>2, <1>7 DEF GrowBuffer, BufferSuffices, inputs, Reached, InBlock
  <2>2. StepsInLoop = 4 /\ StepsInLoop' = 3
    BY <1>7 DEF GrowBuffer, BufferSuffices, StepsInLoop
  <2> QED
    BY <1>1, <2>1, <2>2, SameBlock
<1>8. CASE GrowFails
  <2>1. img' = img /\ Reached <= Reached'
    BY <1>2, <1>8 DEF GrowFails, Return, inputs, Reached, InBlock
  <2>2. StepsInLoop = 4 /\ StepsInLoop' = 0
    BY <1>8 DEF GrowFails, Return, StepsInLoop
  <2> QED
    BY <1>1, <2>1, <2>2, SameBlock
<1>9. CASE Content \/ Fragment \/ LargeContent
  <2>1. img' = img /\ Reached' = Reached /\ Reached \in Nat
    BY <1>2, <1>9 DEF Content, SuccessAfterContent, Fragment, LargeContent,
                      inputs, Reached, InBlock
  <2>2. StepsInLoop = 3 /\ StepsInLoop' = 2
    BY <1>9 DEF Content, SuccessAfterContent, Fragment, LargeContent, StepsInLoop
  <2> QED
    BY <1>1, <2>1, <2>2, SameBlock
<1>10. CASE Close
  <2>1. img' = img /\ Reached' = Reached /\ Reached \in Nat
    BY <1>2, <1>10 DEF Close, inputs, Reached, InBlock
  <2>2. StepsInLoop = 2 /\ StepsInLoop' = 1
    BY <1>10 DEF Close, StepsInLoop
  <2> QED
    BY <1>1, <2>1, <2>2, SameBlock
<1>11. CASE SeekNext
  BY <1>11, NextBlock
<1>12. CASE SeekFails
  <2>1. img' = img /\ Reached <= Reached'
    BY <1>2, <1>12 DEF SeekFails, Return, inputs, Reached, InBlock
  <2>2. StepsInLoop = 1 /\ StepsInLoop' = 0
    BY <1>12 DEF SeekFails, Return, StepsInLoop
  <2> QED
    BY <1>1, <2>1, <2>2, SameBlock
<1> QED
  BY <1>3, <1>4, <1>5, <1>6, <1>7, <1>8, <1>9, <1>10, <1>11, <1>12
     DEF Next, Returned

(* Whatever the file holds and whichever calls fail, the walk cannot go on *)
(* forever: a natural number falls with every step until the function has  *)
(* returned, so no file makes it return to a block or stay at one.         *)
THEOREM WalkCannotGoOn ==
  Spec => [](StepsLeft \in Nat) /\ [][pc # "done" => StepsLeft' < StepsLeft]_vars
<1>1. IInv => StepsLeft \in Nat
  BY MeasureType
<1>2. IInv /\ [Next]_vars => [pc # "done" => StepsLeft' < StepsLeft]_vars
  BY StepsFall
<1> QED
  BY <1>1, <1>2, Invariance, PTL DEF Spec
=============================================================================
