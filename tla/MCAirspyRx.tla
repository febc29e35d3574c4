----------------------------- MODULE MCAirspyRx -----------------------------
(* AirspyRx on a small instance: a limit of nothing, of part of a block,   *)
(* of exactly two blocks and of two and a half.                            *)
EXTENDS AirspyRx
=============================================================================
