--------------------------- MODULE MCConverters ---------------------------
(* Kernels of 4 and 6 samples: the folded FIR, the general one and the     *)
(* integer one; blocks of 8 packed and of 4 plain samples.                 *)
EXTENDS Converters

MCKernels == {<<"int16", 4>>, <<"float", 4>>, <<"float", 6>>}

(* A sum tells which sample met which tap.                                 *)
MCTaps == [j \in 0 .. 2 |-> 100 ^ j]

(* Both ends, both ends of half the range, and small ones.                 *)
MCLevels == {-16, -8, -1, 0, 3, 7, 15}
=============================================================================
