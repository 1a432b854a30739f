----------------------------- MODULE MCErasure -----------------------------
(* Small instances of the data path with erasure coding for TLC, and of    *)
(* the codes themselves.                                                   *)
EXTENDS MCObjectStore, Codes
=============================================================================
