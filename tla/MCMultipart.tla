---------------------------- MODULE MCMultipart ----------------------------
(* Small instances of a multipart upload for TLC.                          *)
EXTENDS Multipart, TLC

SafetySymmetry == Permutations(Sites) \cup Permutations(PartPuts) \cup Permutations(Completes)

(* Which of two parts of one number a client lists changes no step.        *)
NumbersView == <<upload, parts, object, backend, task, permits, pc, number, home, AskedFor,
                 listed, got, todo, faults, swept, missed, removed>>
=============================================================================
