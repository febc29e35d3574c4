--------------------------- MODULE MCSampleQueue ---------------------------
(* SampleQueue on a small instance.                                        *)
EXTENDS SampleQueue, TLC

TransferSymmetry == Permutations(Transfers)
=============================================================================
