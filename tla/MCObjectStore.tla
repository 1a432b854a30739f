--------------------------- MODULE MCObjectStore ---------------------------
(* Small instances of the data path for TLC.                               *)
EXTENDS ObjectStoreProperties, TLC

SiteSymmetry == Permutations(Sites)
=============================================================================
