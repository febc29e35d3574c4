----------------------------- MODULE DcRemoval -----------------------------
(***************************************************************************)
(* remove_dc() of iqconverter_int16.c: a high-pass filter in integers,     *)
(* y = x - x' + a*y', that feeds the rounding error of each product back   *)
(* into the next, so that a constant input fades to exactly 0.             *)
(*                                                                         *)
(* In the code SCALE is 2^15 and ALPHA 32100; a sample is one of RANGE     *)
(* numbers, 2^16 there, and wraps.  u stays below 2^31 and is not wrapped. *)
(* remove_dc() copies its three fields, goes over the block and stores the *)
(* copies, so that a block's state goes on in the next one: a step is one  *)
(* sample, the first of a block with the copy, the last with the stores.   *)
(*                                                                         *)
(* A reset may come at any time.  What it clears during a block is stored  *)
(* over.  It clears the fields in any order here, as each of the accesses  *)
(* it meets may come before or after its own.                              *)
(***************************************************************************)
EXTENDS Integers

CONSTANTS
  SCALE,    \* what a shift by 15 divides by
  ALPHA,    \* a * SCALE
  RANGE,    \* of a sample
  Levels,   \* the samples
  MaxResets \* bound: resets after the first

DcAssumption ==
  /\ SCALE \in Nat \ {0} /\ ALPHA \in 1 .. SCALE - 1
  /\ RANGE \in Nat \ {0} /\ RANGE % 4 = 0
  /\ Levels \subseteq -(RANGE \div 2) .. RANGE \div 2 - 1
  /\ MaxResets \in Nat

VARIABLES
  old_x, old_y, old_e,   \* the fields, or the copies during a block
  within,    \* a block
  to_clear,  \* what a reset has left to clear
  last,      \* history: the sample before
  held,      \* the input does not change any more
  loud,      \* history: since the last reset a sample was beyond half of the range
  wrapped,   \* history: and a difference or an output did not fit
  dc_resets, \* history
  torn       \* history: a block ran during the last one

state  == <<old_x, old_y, old_e>>
past   == <<held, loud, wrapped>>
dcvars == <<state, within, to_clear, last, past, dc_resets, torn>>

Low  == -(RANGE \div 2)
High == RANGE \div 2 - 1
Fits(v) == v \in Low .. High

(* The low bits, as a signed number.                                       *)
Signed(v) == ((v - Low) % RANGE) + Low

(* iqconverter_int16_reset().                                              *)
Init == /\ old_x = 0 /\ old_y = 0 /\ old_e = 0
        /\ within = FALSE /\ to_clear = {} /\ last = 0
        /\ held = FALSE /\ loud = FALSE /\ wrapped = FALSE
        /\ dc_resets = 0 /\ torn = FALSE

(* Mutation of Rest: the rounding error is dropped.                        *)
RestDropped(u) == 0

(* What u >> 15 leaves behind, s being the quotient.                       *)
Rest(u) == u - (u \div SCALE) * SCALE

(* Mutation of Change: the sample before is not subtracted.                *)
ChangeOfNothing(x) == x

Change(x) == x - old_x

Filtered(x) ==
  LET u == old_e + old_y * ALPHA
      s == u \div SCALE
      w == Change(x)
      y == Signed(w) + s
  IN /\ old_y' = Signed(y)
     /\ old_e' = Rest(u)
     /\ old_x' = x
     /\ wrapped' = (wrapped \/ ~Fits(w) \/ ~Fits(y))
     /\ loud' = (loud \/ ~(2 * x \in Low .. High))

Sample ==
  /\ \E x \in IF held THEN {last} ELSE Levels : Filtered(x) /\ last' = x
  /\ within' \in BOOLEAN
  /\ torn' = (torn \/ to_clear # {})
  /\ UNCHANGED <<to_clear, held, dc_resets>>

(* From here on the antenna gives a constant.                              *)
Hold ==
  /\ ~held /\ held' = TRUE
  /\ UNCHANGED <<state, within, to_clear, last, loud, wrapped, dc_resets, torn>>

StartReset ==
  /\ to_clear = {} /\ to_clear' = {"x", "y", "e"}
  /\ dc_resets < MaxResets /\ dc_resets' = dc_resets + 1
  /\ torn' = within /\ loud' = FALSE /\ wrapped' = FALSE
  /\ UNCHANGED <<state, within, last, held>>

Clear(field) ==
  /\ field \in to_clear /\ to_clear' = to_clear \ {field}
  /\ old_x' = IF field = "x" /\ ~within THEN 0 ELSE old_x
  /\ old_y' = IF field = "y" /\ ~within THEN 0 ELSE old_y
  /\ old_e' = IF field = "e" /\ ~within THEN 0 ELSE old_e
  /\ UNCHANGED <<within, last, past, dc_resets, torn>>

Next == Sample \/ Hold \/ StartReset \/ \E field \in to_clear : Clear(field)

-----------------------------------------------------------------------------
(* Properties.                                                             *)

(* A constant input leaves no offset, not even of one unit: the output     *)
(* comes to 0 and stays there, whatever came before, wraps and resets      *)
(* included, when no reset comes any more.                                 *)
DcVanishes == held ~> [](old_y = 0)

(* Samples up to half of the range never wrap the filter, in any order,    *)
(* although its gain may be 2, and after any reset that no block ran       *)
(* during.  (Above that they do: airspy_open() sets no limit, and          *)
(* convert_samples_int16() uses the whole range.)                          *)
HalfRangeFits == ~loud /\ ~torn => ~wrapped
=============================================================================
