---------------------------- MODULE StorageScan ----------------------------
(***************************************************************************)
(* What a dump of an append-only segment file promises, whatever buffers   *)
(* and seeks it uses: storage blocks are visited front to back, each one   *)
(* exactly once and none skipped, until the end of the file is reached or  *)
(* the scan gives up at the block it stands on.                            *)
(***************************************************************************)
EXTENDS Naturals

CONSTANT
  BlockLen(_)      \* bytes a storage block occupies, from its header

VARIABLES
  img,             \* the file being scanned: [size, at : start offset -> header]
  pos,             \* offset of the first byte not yet visited
  status           \* "scanning", "complete" or "failed"

scanVars == <<img, pos, status>>

Init ==
  /\ pos = 0
  /\ status = "scanning"

(* Visit the storage block that starts at pos and move just past it.       *)
Visit ==
  /\ status = "scanning"
  /\ pos \in DOMAIN img.at
  /\ pos' = pos + BlockLen(img.at[pos])
  /\ UNCHANGED <<img, status>>

(* The file ends inside the header at pos: what is left is one remnant.    *)
VisitRemnant ==
  /\ status = "scanning"
  /\ pos < img.size
  /\ pos' >= img.size
  /\ UNCHANGED <<img, status>>

Complete ==
  /\ status = "scanning"
  /\ pos >= img.size
  /\ status' = "complete"
  /\ UNCHANGED <<img, pos>>

(* A bad header or a failing read or seek ends the scan where it stands.   *)
GiveUp ==
  /\ status = "scanning"
  /\ status' = "failed"
  /\ UNCHANGED <<img, pos>>

(* VisitRemnant must not be used to jump over a block whose header is      *)
(* readable.                                                               *)
Readable == pos \in DOMAIN img.at /\ pos + img.at[pos].hdr <= img.size

Next ==
  \/ Visit
  \/ ~Readable /\ VisitRemnant
  \/ Complete
  \/ GiveUp

Spec == Init /\ [][Next]_scanVars
=============================================================================
