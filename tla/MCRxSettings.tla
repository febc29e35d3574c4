---------------------------- MODULE MCRxSettings ----------------------------
(* RxSettings with three options on a line, 64-bit numbers scaled to 16    *)
(* bits, and arguments at the limits of the checks and of the tables; one  *)
(* firmware lists a rate with its half.                                    *)
EXTENDS RxSettings

MCFrequencies == {23999999, 24000000, 1900000000}
MCRateArguments == {1, 2, 1000000, 6000000, 8000000}
MCFirmwareLists == {<<10000000, 2500000>>, <<10000000, 6000000, 3000000>>}
MCValues == {0, 1, 2, 3, 999999, 1000000, 2500000, 3000000, 5000000, 6000000,
             8000000, 10000000, 12000000, 20000000, 40000000}
=============================================================================
