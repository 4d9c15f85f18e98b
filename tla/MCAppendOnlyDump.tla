-------------------------- MODULE MCAppendOnlyDump --------------------------
(***************************************************************************)
(* Small segment files for AppendOnlyDump: every sequence of up to         *)
(* MaxBlocks storage blocks taken from Templates, cut at every length in   *)
(* Cuts or not at all.  Lengths are in units of one header.                *)
(***************************************************************************)
EXTENDS AppendOnlyDump, Sequences

CONSTANTS
  MaxBlocks,
  Templates,
  Cuts             \* how many units the file may be cut short by

Plain(k, h, l, r, z) ==
  [kind |-> k, hdr |-> h, len |-> l, raw |-> r, zip |-> z,
   headerSumOK |-> TRUE, checkOK |-> TRUE, blockSumOK |-> TRUE,
   contentOK |-> TRUE]

(* Blocks of every kind, shorter than, equal to and longer than the        *)
(* initial buffer of 3 units.                                              *)
Small       == Plain("SmallContent", 1, 2, 2, FALSE)
SmallZip    == Plain("SmallContent", 1, 4, 6, TRUE)
BulkZip     == Plain("BulkDenseContent", 2, 5, 7, TRUE)
NonBulk     == Plain("NonBulkDenseContent", 2, 3, 1, FALSE)
BigPlain    == Plain("NonBulkDenseContent", 1, 5, 4, FALSE)
Large       == Plain("LargeContent", 2, 2, 2, FALSE)
BadSum      == [Small EXCEPT !.blockSumOK = FALSE]
BadContent  == [SmallZip EXCEPT !.contentOK = FALSE]
BadHeader   == [Small EXCEPT !.headerSumOK = FALSE]
BadCheck    == [Small EXCEPT !.checkOK = FALSE]
NoHeader    == Plain("None", 1, 1, 0, FALSE)
OddHeader   == Plain("Unexpected", 1, 1, 0, FALSE)

AllTemplates == {Small, SmallZip, BulkZip, NonBulk, BigPlain, Large, BadSum,
                 BadContent, BadHeader, BadCheck, NoHeader, OddHeader}
BigTemplates == {Small, BigPlain}

OffsetsOf(s) ==
  LET at[i \in 1..Len(s) + 1] ==
        IF i = 1 THEN 0 ELSE at[i - 1] + BlockLen(s[i - 1])
  IN at

OwedBefore(s) ==
  LET owed[i \in 1..Len(s)] ==
        IF i = 1 THEN 0
        ELSE IF IsLarge(s[i - 1]) THEN s[i - 1].raw
        ELSE IF owed[i - 1] <= s[i - 1].raw THEN 0
        ELSE owed[i - 1] - s[i - 1].raw
  IN owed

ImageOf(s, cut) ==
  LET off   == OffsetsOf(s)
      owed  == OwedBefore(s)
      begins == {off[i] : i \in 1..Len(s)}
      nth(o) == CHOOSE i \in 1..Len(s) : off[i] = o
      whole == off[Len(s) + 1]
  IN [size |-> IF cut < whole THEN whole - cut ELSE 0,
      at   |-> [o \in begins |-> s[nth(o)]],
      owed |-> [o \in begins |-> owed[nth(o)]]]

MCImages ==
  {ImageOf(s, c) : s \in UNION {[1..n -> Templates] : n \in 1..MaxBlocks},
                   c \in Cuts}

MCOptions == [hasChecksum : {TRUE}, verify : BOOLEAN, column : BOOLEAN,
              badLevel : {FALSE}]
             \cup {[hasChecksum |-> FALSE, verify |-> TRUE, column |-> TRUE,
                    badLevel |-> TRUE]}
VerifyAll == {[hasChecksum |-> TRUE, verify |-> TRUE, column |-> TRUE,
               badLevel |-> FALSE]}
MCStale == {Small, BulkZip, Large, NoHeader}
=============================================================================
