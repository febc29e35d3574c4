--------------------------- MODULE MCSampleRates ---------------------------
(* SampleRates with the lists of two kinds of device, indices at their     *)
(* ends, listed rates, doubled ones and others.                            *)
EXTENDS SampleRates

MCFirmwareLists == {<<10000000, 2500000>>, <<10000000, 6000000, 3000000>>}
MCValues == {0, 1, 2, 3, 999999, 1000000, 2500000, 3000000, 5000000, 6000000,
             8000000, 10000000, 12000000, 20000000, 40000000}
=============================================================================
