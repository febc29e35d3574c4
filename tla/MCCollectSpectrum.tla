------------------------- MODULE MCCollectSpectrum -------------------------
(* Two runs.                                                               *)
EXTENDS CollectSpectrum
=============================================================================
