------------------------- MODULE MCPhotoUploadQueue -------------------------
(* Photos, the lock's holders and the bounds come from the .cfg file.      *)
EXTENDS PhotoUploadQueue, TLC

PhotoSymmetry == Permutations(Photos)
=============================================================================
