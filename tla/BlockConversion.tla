-------------------------- MODULE BlockConversion --------------------------
(***************************************************************************)
(* What the consumer thread of airspy.c does with a block while it does    *)
(* not hold the mutex: count the samples, unpack them, convert them to the *)
(* sample type, filter them for the IQ types (IqConverter), and announce   *)
(* them to the client.  It reads device->sample_type anew at each of three *)
(* places, and airspy_set_sample_type() may change it between them.        *)
(*                                                                         *)
(* A sample is the sequence of the bits of the block it is made of.        *)
(***************************************************************************)
EXTENDS Integers, Sequences

CONSTANTS
  PackedWords, PlainWords,  \* 32-bit words of a block, packed or not
  MaxChanges                \* bound: changes of the sample type

BlockAssumption ==
  /\ PackedWords \in Nat \ {0} /\ PackedWords % 3 = 0
  /\ PlainWords \in Nat \ {0} /\ PlainWords % 2 = 0
  /\ MaxChanges \in Nat

VARIABLES
  packing_enabled,   \* fixed: set_packing() refuses during a stream
  sample_type,
  phase,             \* of the consumer
  input_samples,     \* the samples that conversion reads
  sample_count,
  converted,         \* the type the block was converted to
  transfer,          \* what the client sees
  seen,              \* history: the sample types during this block
  changes            \* history

blockvars == <<packing_enabled, sample_type, phase, input_samples,
               sample_count, converted, transfer, seen, changes>>

IQ == {"FLOAT32_IQ", "INT16_IQ"}
SampleTypes == IQ \union {"FLOAT32_REAL", "INT16_REAL", "UINT16_REAL", "RAW"}

NoTransfer == [type |-> "none", made_of |-> "none", samples |-> <<>>, count |-> 0]

-----------------------------------------------------------------------------
(* unpack_samples().  Bit b of word w, the highest being 31, is bit        *)
(* 32*w + 31 - b of the block.                                             *)

Field(w, high, low) == [k \in 1 .. high - low + 1 |-> 32 * w + 31 - high + k - 1]

(* Mutation of Group: the high bits of the sixth sample from the word      *)
(* before.                                                                 *)
GroupOffByOne(w) ==
  <<Field(w, 31, 20), Field(w, 19, 8),
    Field(w, 7, 0) \o Field(w + 1, 31, 28),
    Field(w + 1, 27, 16), Field(w + 1, 15, 4),
    Field(w, 3, 0) \o Field(w + 2, 31, 24),
    Field(w + 2, 23, 12), Field(w + 2, 11, 0)>>

(* Eight samples of three words.                                           *)
Group(w) ==
  <<Field(w, 31, 20), Field(w, 19, 8),
    Field(w, 7, 0) \o Field(w + 1, 31, 28),
    Field(w + 1, 27, 16), Field(w + 1, 15, 4),
    Field(w + 1, 3, 0) \o Field(w + 2, 31, 24),
    Field(w + 2, 23, 12), Field(w + 2, 11, 0)>>

(* The loop goes on for length samples, in steps of eight.                 *)
Unpacked(length) ==
  [j \in 1 .. 8 * ((length + 7) \div 8) |->
     Group(3 * ((j - 1) \div 8))[((j - 1) % 8) + 1]]

(* A block as it came: 16-bit samples, or words of which 16 bits are no    *)
(* sample.                                                                 *)
Halves(words) == [j \in 1 .. 2 * words |-> [k \in 1 .. 16 |-> 16 * (j - 1) + k - 1]]

Words == IF packing_enabled THEN PackedWords ELSE PlainWords

-----------------------------------------------------------------------------
Init ==
  /\ packing_enabled \in BOOLEAN
  /\ sample_type \in SampleTypes
  /\ phase = "waiting"
  /\ input_samples = <<>> /\ sample_count = 0
  /\ converted = "none" /\ transfer = NoTransfer
  /\ seen = {} /\ changes = 0

(* The application, at any time.                                           *)
SetSampleType ==
  /\ changes < MaxChanges /\ changes' = changes + 1
  /\ \E t \in SampleTypes \ {sample_type} :
       /\ sample_type' = t
       /\ seen' = IF phase = "waiting" THEN {} ELSE seen \union {t}
  /\ UNCHANGED <<packing_enabled, phase, input_samples, sample_count,
                 converted, transfer>>

TakeBlock ==
  /\ phase = "waiting" /\ phase' = "unpacking"
  /\ input_samples' = Halves(Words)
  /\ seen' = {sample_type}
  /\ UNCHANGED <<packing_enabled, sample_type, sample_count, converted,
                 transfer, changes>>

(* Mutation of MustUnpack: raw blocks, too.                                *)
MustUnpackAlways == packing_enabled

(* Raw blocks stay packed.                                                 *)
MustUnpack == packing_enabled /\ sample_type # "RAW"

Unpack ==
  /\ phase = "unpacking" /\ phase' = "converting"
  /\ LET bytes == 4 * Words
         count == IF packing_enabled THEN ((bytes \div 2) * 4) \div 3
                                     ELSE bytes \div 2
     IN /\ sample_count' = count
        /\ input_samples' = IF MustUnpack THEN Unpacked(count) ELSE input_samples
  /\ UNCHANGED <<packing_enabled, sample_type, converted, transfer, seen, changes>>

(* The switch.  Real types are converted in this step.                     *)
Convert ==
  /\ phase = "converting"
  /\ phase' = IF sample_type \in IQ THEN "filtering" ELSE "announcing"
  /\ converted' = sample_type
  /\ UNCHANGED <<packing_enabled, sample_type, input_samples, sample_count,
                 transfer, seen, changes>>

(* The filter has gone through the block: a sample is a pair now.          *)
Filtered ==
  /\ phase = "filtering" /\ phase' = "announcing"
  /\ sample_count' = sample_count \div 2
  /\ UNCHANGED <<packing_enabled, sample_type, input_samples, converted,
                 transfer, seen, changes>>

Announce ==
  /\ phase = "announcing" /\ phase' = "client"
  /\ transfer' = [type |-> sample_type, made_of |-> converted,
                  samples |-> input_samples, count |-> sample_count]
  /\ UNCHANGED <<packing_enabled, sample_type, input_samples, sample_count,
                 converted, seen, changes>>

(* The client's callback returns.                                          *)
Return ==
  /\ phase = "client" /\ phase' = "waiting"
  /\ input_samples' = <<>> /\ sample_count' = 0
  /\ converted' = "none" /\ transfer' = NoTransfer /\ seen' = {}
  /\ UNCHANGED <<packing_enabled, sample_type, changes>>

-----------------------------------------------------------------------------
(* Properties.                                                             *)

(* What is converted to anything but RAW are the samples of the device:    *)
(* of a packed block each 12 bits in turn, all of them and nothing behind  *)
(* its end.  A change of the type among the others does not break this;    *)
(* one from or to RAW during the block may.                                *)
SamplesInOrder ==
  (phase = "client" /\ ~("RAW" \in seen)) =>
    LET bits == IF packing_enabled THEN 12 ELSE 16
    IN transfer.samples =
         [j \in 1 .. (32 * Words) \div bits |->
            [k \in 1 .. bits |-> bits * (j - 1) + k - 1]]

(* As long as the type does not change during a block, the client is told  *)
(* the type the block was made of, raw blocks are untouched, and IQ blocks *)
(* count a pair as one sample.                                             *)
BlockAsAnnounced ==
  (phase = "client" /\ \E t \in SampleTypes : seen = {t}) =>
    /\ transfer.type = transfer.made_of
    /\ transfer.type = "RAW" => transfer.samples = Halves(Words)
    /\ LET all == (32 * Words) \div (IF packing_enabled THEN 12 ELSE 16)
       IN transfer.count = IF transfer.type \in IQ THEN all \div 2 ELSE all
=============================================================================
