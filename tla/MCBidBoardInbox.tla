-------------------------- MODULE MCBidBoardInbox --------------------------
(* Small instances of the Bid Board inbox for TLC: two scrapes of one       *)
(* office, the older and the newer.                                         *)
EXTENDS BidBoardInbox, TLC

CONSTANTS older, newer, dallas, w1, w2

MCOfficeOf == [i \in Snapshots |-> dallas]

MCExtractedAt == [i \in Snapshots |-> IF i = older THEN 1 ELSE 2]

WorkerSymmetry == Permutations(Workers)
=============================================================================
