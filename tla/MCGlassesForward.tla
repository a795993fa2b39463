-------------------------- MODULE MCGlassesForward --------------------------
(* A small instance of forwarding a glasses walk for TLC: a walk of two      *)
(* artifacts, which may be exchanged.                                        *)
EXTENDS GlassesForward, TLC

CONSTANTS clip, still

AnyClip == Permutations(Clips)
=============================================================================
