----------------------------- MODULE MCRfpVote -----------------------------
(* A small instance of the RFP vote for TLC. *)
EXTENDS RfpVote, TLC
=============================================================================
