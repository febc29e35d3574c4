---------------------------- MODULE Converters ----------------------------
(***************************************************************************)
(* From the block in the queue to the samples of the client: the consumer  *)
(* thread (BlockConversion) runs the filters (IqConverter) over blocks of  *)
(* the IQ type they are for, while the application may change the sample   *)
(* type, or call airspy_start_rx(), which resets the filters before it     *)
(* answers BUSY.                                                           *)
(*                                                                         *)
(* The removal of the DC offset (DcRemoval), the first stage of the int16  *)
(* filter, has a value for each sample and is looked at on its own, with   *)
(* its part of a reset.                                                    *)
(***************************************************************************)
EXTENDS Integers, Sequences

CONSTANTS  \* of BlockConversion, IqConverter and DcRemoval
  PackedWords, PlainWords, MaxChanges,
  Kernels, Taps, SIZE_FACTOR, PIECE, MaxPairs, MaxResets,
  SCALE, ALPHA, RANGE, Levels

VARIABLES  \* of BlockConversion
  packing_enabled, sample_type, phase, input_samples, sample_count, converted,
  transfer, seen, changes

VARIABLES  \* of IqConverter
  kind, len, fir_queue, fir_index, delay_line, delay_index, pairs, loop, i,
  index, clearing, uncleared, fir_count, delay_count, fir_since, delay_since,
  fir_out, delay_out, resets, midway

VARIABLES  \* of DcRemoval
  old_x, old_y, old_e, within, to_clear, last, held, loud, wrapped, dc_resets,
  torn

VARIABLES
  stage    \* "blocks" or "dc"

Block == INSTANCE BlockConversion
Iq    == INSTANCE IqConverter
Dc    == INSTANCE DcRemoval

ASSUME ConvertersAssumption ==
  /\ Block!BlockAssumption
  /\ Iq!ConverterAssumption
  /\ Dc!DcAssumption

blockvars == <<packing_enabled, sample_type, phase, input_samples,
               sample_count, converted, transfer, seen, changes>>
iqvars    == <<kind, len, fir_queue, fir_index, delay_line, delay_index, pairs,
               loop, i, index, clearing, uncleared, fir_count, delay_count,
               fir_since, delay_since, fir_out, delay_out, resets, midway>>
dcvars    == <<old_x, old_y, old_e, within, to_clear, last, held, loud,
               wrapped, dc_resets, torn>>
vars      == <<blockvars, iqvars, dcvars, stage>>

Init ==
  /\ Block!Init /\ Iq!Init /\ Dc!Init
  /\ \/ stage = "blocks"
     \/ /\ stage = "dc" /\ kind = "int16"
        /\ sample_type = "INT16_IQ" /\ ~packing_enabled

(* The device has a converter for each IQ type; this is the one of kind.   *)
OwnType == IF kind = "int16" THEN "INT16_IQ" ELSE "FLOAT32_IQ"

-----------------------------------------------------------------------------
(* The consumer thread and the application.                                *)

ConsumerStep ==
  /\ \/ Block!TakeBlock \/ Block!Unpack \/ Block!Announce \/ Block!Return
     \/ Block!Convert /\ sample_type # OwnType
     \/ Block!Filtered /\ converted # OwnType
  /\ UNCHANGED iqvars

(* process() begins, ...                                                   *)
Process ==
  /\ Block!Convert /\ sample_type = OwnType
  /\ Iq!Begin(sample_count \div 2)

(* ... runs its two loops, ...                                             *)
FilterStep ==
  /\ Iq!Filter
  /\ UNCHANGED blockvars

(* ... and returns.                                                        *)
Processed ==
  /\ Block!Filtered /\ converted = OwnType /\ loop = "none"
  /\ UNCHANGED iqvars

SetSampleType == Block!SetSampleType /\ UNCHANGED iqvars

(* One of the stores of its reset; those of old_x, old_y, old_e are in     *)
(* DcStep.                                                                 *)
StartRx == Iq!Reset /\ UNCHANGED blockvars

(* MaxPairs have been processed.                                           *)
Finished ==
  /\ phase = "converting" /\ sample_type = OwnType
  /\ fir_count + sample_count \div 2 > MaxPairs
  /\ UNCHANGED vars

(* Samples, and the stores of a reset to old_x, old_y and old_e.           *)
DcStep == Dc!Next

Next ==
  \/ /\ stage = "blocks"
     /\ \/ ConsumerStep \/ Process \/ FilterStep \/ Processed \/ SetSampleType
        \/ StartRx
     /\ UNCHANGED <<dcvars, stage>>
  \/ stage = "dc" /\ DcStep /\ UNCHANGED <<blockvars, iqvars, stage>>
  \/ stage = "blocks" /\ Finished

Spec == Init /\ [][Next]_vars

(* The loop of remove_dc() goes on as long as blocks come.                 *)
FairSpec == Spec /\ WF_vars(stage = "dc" /\ Dc!Sample
                            /\ UNCHANGED <<blockvars, iqvars, stage>>)

-----------------------------------------------------------------------------
(* Properties.  Those of the parts are stated there.                       *)

(* No index leaves its memory, also when a reset comes during a block.     *)
IndicesInRange == Iq!IndicesInRange

(* The FIR computes the convolution over blocks, types and resets.         *)
FirIsConvolution == Iq!FirIsConvolution

(* The delay line stays in step with the FIR.                              *)
DelayIsHalfKernel == Iq!DelayIsHalfKernel

(* Blocks are unpacked in order and as a whole.                            *)
SamplesInOrder == Block!SamplesInOrder

(* Blocks are announced as what they are.                                  *)
BlockAsAnnounced == Block!BlockAsAnnounced

(* No offset remains.                                                      *)
DcVanishes == Dc!DcVanishes

(* Half of the range never wraps.                                          *)
HalfRangeFits == Dc!HalfRangeFits
=============================================================================
