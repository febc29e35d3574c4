-------------------------- MODULE MCStreamControl --------------------------
(* StreamControl on a small instance.                                      *)
EXTENDS StreamControl
=============================================================================
