------------------------------ MODULE RangeDump ------------------------------
(***************************************************************************)
(* What dumping the block range first..last of a relation file promises:   *)
(* the blocks of the file that lie in the range are formatted one by one,  *)
(* each under its own number and exactly once, until the range or the file *)
(* is exhausted.                                                           *)
(***************************************************************************)
EXTENDS Naturals

CONSTANT BlockSize

VARIABLES
  size,            \* length of the file in bytes
  first, last,     \* the range asked for
  next,            \* number of the next block to format
  status           \* "dumping", "complete" or "failed"

rangeVars == <<size, first, last, next, status>>

Exists(b) == b * BlockSize < size

Init ==
  /\ next = first
  /\ status = "dumping"

Format ==
  /\ status = "dumping"
  /\ next <= last
  /\ Exists(next)
  /\ next' = next + 1
  /\ UNCHANGED <<size, first, last, status>>

Complete ==
  /\ status = "dumping"
  /\ next > last \/ ~Exists(next)
  /\ status' = "complete"
  /\ UNCHANGED <<size, first, last, next>>

GiveUp ==
  /\ status = "dumping"
  /\ status' = "failed"
  /\ UNCHANGED <<size, first, last, next>>

Next == Format \/ Complete \/ GiveUp

Spec == Init /\ [][Next]_rangeVars
=============================================================================
