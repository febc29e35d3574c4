---------------------------- MODULE GainControl ----------------------------
(***************************************************************************)
(* The gains of a device: three stages (VGA, mixer, LNA), two switches for *)
(* automatic gain control, and the calls of libairspy that set them, one   *)
(* transfer each, or five for a composite gain, which stops at the first   *)
(* transfer that fails.  A transfer that fails may have been performed.    *)
(***************************************************************************)
EXTENDS Integers, Sequences

CONSTANTS
  GainValues   \* arguments of the calls: uint8_t

Byte == 0 .. 255

VARIABLES
  device_gain,       \* in the device: the stages and the switches
  call, todo,        \* the call that is made, the transfers it has to do
  current, previous  \* history: the last two composite gains that were set

gainvars == <<device_gain, call, todo, current, previous>>

Stages == {"vga", "mixer", "lna"}
Agcs   == {"mixer_agc", "lna_agc"}

NoCall  == [name |-> "none", value |-> 0]
NoGain  == [name |-> "none", value |-> 0, total |-> 0]

(* Automatic gain control may be on.                                       *)
Init ==
  /\ device_gain = [r \in Stages \cup Agcs |-> IF r \in Agcs THEN 1 ELSE 0]
  /\ call = NoCall /\ todo = <<>>
  /\ current = NoGain /\ previous = NoGain

GAIN_COUNT == 22

(* Rows from the highest gain to the lowest.                               *)
Table == [
  linearity |-> [
    vga   |-> <<13, 12, 11, 11, 11, 11, 11, 10, 10, 10, 10,
                10, 10, 10, 10, 10,  9,  8,  7,  6,  5,  4>>,
    mixer |-> <<12, 12, 11,  9,  8,  7,  6,  6,  5,  0,  0,
                 1,  0,  0,  2,  2,  1,  1,  1,  1,  0,  0>>,
    lna   |-> <<14, 14, 14, 13, 12, 10,  9,  9,  8,  9,  8,
                 6,  5,  3,  1,  0,  0,  0,  0,  0,  0,  0>>],
  sensitivity |-> [
    vga   |-> <<13, 12, 11, 10,  9,  8,  7,  6,  5,  5,  5,
                 5,  5,  4,  4,  4,  4,  4,  4,  4,  4,  4>>,
    mixer |-> <<12, 12, 12, 12, 11, 10, 10,  9,  9,  8,  7,
                 4,  4,  4,  3,  2,  2,  1,  0,  0,  0,  0>>,
    lna   |-> <<14, 14, 14, 14, 14, 14, 14, 14, 14, 13, 12,
                12,  9,  9,  8,  7,  6,  5,  3,  2,  1,  0>>]]

Composites == DOMAIN Table

(* Mutation of Row: a value is taken as the place in the table.            *)
RowInTableOrder(value) == IF value >= GAIN_COUNT THEN GAIN_COUNT ELSE value + 1

(* GAIN_COUNT - 1 - value in 8 bits: beyond the table it is the last row.  *)
Row(value) ==
  LET row == (GAIN_COUNT - 1 - value) % 256
  IN IF row >= GAIN_COUNT THEN GAIN_COUNT ELSE row + 1

Limit == [vga |-> 15, mixer |-> 15, lna |-> 14]

AtMost(value, limit) == IF value > limit THEN limit ELSE value

Transfers(name, value) ==
  CASE name \in Stages -> << <<name, AtMost(value, Limit[name])>> >>
    [] name \in Agcs -> << <<name, value>> >>
    [] name \in Composites ->
         LET row == Row(value)
         IN << <<"mixer_agc", 0>>, <<"lna_agc", 0>>,
               <<"vga", Table[name].vga[row]>>,
               <<"mixer", Table[name].mixer[row]>>,
               <<"lna", Table[name].lna[row]>> >>

Call(name, value) ==
  /\ call = NoCall
  /\ call' = [name |-> name, value |-> value]
  /\ todo' = Transfers(name, value)
  /\ UNCHANGED <<device_gain, current, previous>>

Perform == device_gain' = [device_gain EXCEPT ![Head(todo)[1]] = Head(todo)[2]]

Total(gain) == gain.vga + gain.mixer + gain.lna

Transfer ==
  /\ todo # <<>>
  /\ Perform
  /\ todo' = Tail(todo)
  /\ UNCHANGED <<call, current, previous>>

(* The call returns AIRSPY_SUCCESS.                                        *)
CallSucceeds ==
  /\ call # NoCall /\ todo = <<>>
  /\ call' = NoCall
  /\ IF call.name \in Composites
       THEN /\ current' = [name |-> call.name, value |-> call.value,
                           total |-> Total(device_gain)]
            /\ previous' = IF current.name = call.name THEN current ELSE NoGain
       ELSE UNCHANGED <<current, previous>>
  /\ UNCHANGED <<device_gain, todo>>

(* AIRSPY_ERROR_LIBUSB; the transfers that remain are not made.            *)
CallFails ==
  /\ todo # <<>>
  /\ \/ Perform \/ UNCHANGED device_gain
  /\ todo' = <<>>
  /\ call' = NoCall
  /\ UNCHANGED <<current, previous>>

CallSteps == Transfer \/ CallSucceeds \/ CallFails

Next ==
  \/ \E name \in Stages \cup Composites, value \in GainValues :
       Call(name, value)
  \/ \E name \in Agcs, value \in {0, 1} : Call(name, value)
  \/ CallSteps

Spec == Init /\ [][Next]_gainvars

-----------------------------------------------------------------------------
(* Properties.                                                             *)

(* Of two composite gains of a kind that were set, whatever single gains   *)
(* and failures there were before and between them, the greater value      *)
(* gives no less gain in total, and no two values give the same total but  *)
(* 7 and 8 of the linearity table.                                         *)
MoreGainIsMore ==
  current.name = previous.name
    /\ current.value < GAIN_COUNT /\ previous.value < GAIN_COUNT =>
      /\ current.value > previous.value => current.total >= previous.total
      /\ current.value < previous.value => current.total <= previous.total
      /\ current.total = previous.total =>
           \/ current.value = previous.value
           \/ current.name = "linearity" /\ {current.value, previous.value} = {7, 8}
=============================================================================
