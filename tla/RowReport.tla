------------------------------ MODULE RowReport ------------------------------
(***************************************************************************)
(* What decoding the tuples of a block with -D promises: each tuple is     *)
(* reported once, in the order of the block, as a COPY row or as an error; *)
(* where the row is known beforehand it is that row; decoding may be given *)
(* up in the middle, and then nothing more is reported.                    *)
(***************************************************************************)
EXTENDS Naturals, Sequences

VARIABLES
  due,             \* per tuple: is its report known, and what is it
  reports,         \* the reports printed so far
  status           \* "decoding", "complete" or "failed"

reportVars == <<due, reports, status>>

Init ==
  /\ reports = <<>>
  /\ status = "decoding"

Report ==
  /\ status = "decoding"
  /\ Len(reports) < Len(due)
  /\ Len(reports') = Len(reports) + 1
  /\ SubSeq(reports', 1, Len(reports)) = reports
  /\ LET n == Len(reports')
     IN due[n].known => reports'[n] = due[n].report
  /\ UNCHANGED <<due, status>>

Complete ==
  /\ status = "decoding"
  /\ Len(reports) = Len(due)
  /\ status' = "complete"
  /\ UNCHANGED <<due, reports>>

GiveUp ==
  /\ status = "decoding"
  /\ status' = "failed"
  /\ UNCHANGED <<due, reports>>

Next == Report \/ Complete \/ GiveUp

Spec == Init /\ [][Next]_reportVars
=============================================================================
