----------------------------- MODULE RxOptions -----------------------------
(***************************************************************************)
(* The command line of airspy_rx: the option loop, whose options come in   *)
(* any order and may be repeated, and the computations and checks that     *)
(* follow it.  An accepted command line fixes the sample type, the WAV     *)
(* header and the number of bytes that rx_callback() will write.           *)
(*                                                                         *)
(* Numbers are those of the code but for the 64-bit ones, which have a     *)
(* width of their own here.  A text that is no number is "not parsed".     *)
(***************************************************************************)
EXTENDS Integers

CONSTANTS
  MaxOptions,              \* bound: options on a command line
  Samples,                 \* arguments of -n
  Frequencies,             \* arguments of -f, in Hz
  RateArguments,           \* arguments of -a
  Gains,                   \* arguments of -v, -m, -l, -g, -h and -b
  U64,                     \* 2^64
  SAMPLES_TO_XFER_MAX_U64  \* 2^63

OptionsAssumption ==
  /\ MaxOptions \in Nat
  /\ U64 \in Nat \ {0}
  /\ SAMPLES_TO_XFER_MAX_U64 \in 1 .. U64 - 1
  /\ Samples \subseteq 0 .. U64 - 1
  /\ Frequencies \subseteq Nat /\ Gains \subseteq Nat /\ RateArguments \subseteq Nat

VARIABLES
  pc,               \* "options", "accepted" or "rejected"
  reason,           \* why it was rejected
  given,            \* options read so far
  receive_wav, path,
  call_set_packing, packing_val,
  freq, freq_hz,
  sample_rate_val,  \* an index, or a rate in Hz
  sample_type_val,  \* 0 .. 5 as in airspy_sample_type, 6 if out of range
  wav,              \* wav_format_tag, wav_nb_channels, ...
  gain,             \* the values of -v, -m, -l, -g, -h and -b
  linearity_gain, sensitivity_gain,
  limit_num_samples, samples_to_xfer, bytes_to_xfer

switches == <<receive_wav, path, call_set_packing, packing_val, freq, freq_hz,
              sample_rate_val>>
levels   == <<gain, linearity_gain, sensitivity_gain>>
format   == <<sample_type_val, wav>>
count    == <<limit_num_samples, samples_to_xfer, bytes_to_xfer>>
vars     == <<pc, reason, given, switches, levels, format, count>>

PACKING_MAX     == 2   \* any value but 0 and 1: out of range
SAMPLE_TYPE_MAX == 5
RAW             == 5
FREQ_HZ_MIN     == 24000000
FREQ_HZ_MAX     == 1900000000
DEFAULT_FREQ_HZ == 900000000

GainNames == {"v", "m", "l", "g", "h", "b"}

(* Mutation of GainMax: one limit for the three stages.                    *)
GainMaxOfAll == [v |-> 15, m |-> 15, l |-> 15, g |-> 21, h |-> 21, b |-> 1]

GainMax   == [v |-> 15, m |-> 15, l |-> 14, g |-> 21, h |-> 21, b |-> 1]

Wav(tag, channels, bytes, bits) ==
  [format_tag |-> tag, nb_channels |-> channels,
   nb_byte_per_sample |-> bytes, nb_bits_per_sample |-> bits]

Init ==
  /\ pc = "options" /\ reason = "none"
  /\ given = 0
  /\ receive_wav = FALSE /\ path = FALSE
  /\ call_set_packing = FALSE /\ packing_val = 0
  /\ freq = FALSE /\ freq_hz = 0
  /\ sample_rate_val = 0
  /\ sample_type_val = 2 /\ wav = Wav(1, 2, 2, 16)
  /\ gain = [v |-> 5, m |-> 5, l |-> 1, g |-> 0, h |-> 0, b |-> 0]
  /\ linearity_gain = FALSE /\ sensitivity_gain = FALSE
  /\ limit_num_samples = FALSE /\ samples_to_xfer = 0 /\ bytes_to_xfer = 0

-----------------------------------------------------------------------------
(* The option loop.                                                        *)

NextOption ==
  /\ pc = "options"
  /\ given < MaxOptions
  /\ given' = given + 1
  /\ UNCHANGED <<pc, reason>>

(* -r names the file; it also asks for a WAV header, as -w does.           *)
OptionFile ==
  /\ NextOption
  /\ receive_wav' = TRUE
  /\ path' \in {path, TRUE}
  /\ UNCHANGED <<call_set_packing, packing_val, freq, freq_hz, sample_rate_val,
                 levels, format, count>>

OptionPacking ==
  /\ NextOption
  /\ packing_val' \in {0, 1, PACKING_MAX}
  /\ call_set_packing' = (packing_val' # PACKING_MAX)
  /\ UNCHANGED <<receive_wav, path, freq, freq_hz, sample_rate_val, levels,
                 format, count>>

OptionFrequency ==
  /\ NextOption
  /\ freq' = TRUE
  /\ freq_hz' \in Frequencies
  /\ UNCHANGED <<receive_wav, path, call_set_packing, packing_val,
                 sample_rate_val, levels, format, count>>

OptionRate ==
  /\ NextOption
  /\ sample_rate_val' \in RateArguments
  /\ UNCHANGED <<receive_wav, path, call_set_packing, packing_val, freq, freq_hz,
                 levels, format, count>>

(* -s and -d; -s and -b have the device opened by its serial number, which *)
(* is 0, for any device, when only -b is given.                            *)
OptionOther ==
  /\ NextOption
  /\ UNCHANGED <<switches, levels, format, count>>

(* Mutation of TypeFormat: the REAL integer types set the width only.      *)
TypeFormatStale(type) ==
  CASE type = 0 -> Wav(3, 2, 4, 32)
    [] type = 1 -> Wav(3, 1, 4, 32)
    [] type = 2 -> Wav(1, 2, 2, 16)
    [] type \in {3, 4} -> [wav EXCEPT !.nb_bits_per_sample = 16,
                                      !.nb_byte_per_sample = 2]
    [] OTHER -> wav

(* RAW leaves the tag and the bytes of the sample type that was set        *)
(* before, and a type out of range leaves the whole format.                *)
TypeFormat(type) ==
  CASE type = 0 -> Wav(3, 2, 4, 32)
    [] type = 1 -> Wav(3, 1, 4, 32)
    [] type = 2 -> Wav(1, 2, 2, 16)
    [] type \in {3, 4} -> Wav(1, 1, 2, 16)
    [] type = RAW -> [wav EXCEPT !.nb_bits_per_sample = 12, !.nb_channels = 1]
    [] OTHER -> wav

OptionType ==
  /\ NextOption
  /\ \E type \in 0 .. SAMPLE_TYPE_MAX + 1 :
       /\ sample_type_val' = type
       /\ wav' = TypeFormat(type)
  /\ UNCHANGED <<switches, levels, count>>

OptionGain ==
  /\ NextOption
  /\ \E name \in GainNames, value \in Gains :
       /\ gain' = [gain EXCEPT ![name] = value]
       /\ linearity_gain' = (linearity_gain \/ name = "g")
       /\ sensitivity_gain' = (sensitivity_gain \/ name = "h")
  /\ UNCHANGED <<switches, format, count>>

(* samples * bits * channels / 8, in 64 bits.                              *)
Bytes(samples) ==
  ((samples * wav.nb_bits_per_sample * wav.nb_channels) % U64) \div 8

OptionSamples ==
  /\ NextOption
  /\ limit_num_samples' = TRUE
  /\ samples_to_xfer' \in Samples
  /\ UNCHANGED <<switches, levels, format, bytes_to_xfer>>

(* An unknown option, or an argument that is not a number.                 *)
OptionError ==
  /\ pc = "options"
  /\ pc' = "rejected" /\ reason' = "parse"
  /\ UNCHANGED <<given, switches, levels, format, count>>

-----------------------------------------------------------------------------
(* After the loop.                                                         *)

FreqOrDefault == IF freq THEN freq_hz ELSE DEFAULT_FREQ_HZ

(* Mutation of Checks: a RAW file with a WAV header is accepted.           *)
ChecksWithoutRaw == <<
  <<"samples", samples_to_xfer >= SAMPLES_TO_XFER_MAX_U64>>,
  <<"frequency", FreqOrDefault < FREQ_HZ_MIN \/ FreqOrDefault >= FREQ_HZ_MAX>>,
  <<"file", ~path /\ ~receive_wav>>,
  <<"packing", packing_val = PACKING_MAX>>,
  <<"type", sample_type_val > SAMPLE_TYPE_MAX>>,
  <<"gain", \E name \in GainNames : gain[name] > GainMax[name]>>,
  <<"both", linearity_gain /\ sensitivity_gain>> >>

(* The checks and what they refuse, in the order of the code.              *)
Checks == <<
  <<"samples", samples_to_xfer >= SAMPLES_TO_XFER_MAX_U64>>,
  <<"frequency", FreqOrDefault < FREQ_HZ_MIN \/ FreqOrDefault >= FREQ_HZ_MAX>>,
  <<"raw", receive_wav /\ sample_type_val = RAW>>,
  <<"file", ~path /\ ~receive_wav>>,
  <<"packing", packing_val = PACKING_MAX>>,
  <<"type", sample_type_val > SAMPLE_TYPE_MAX>>,
  <<"gain", \E name \in GainNames : gain[name] > GainMax[name]>>,
  <<"both", linearity_gain /\ sensitivity_gain>> >>

(* The bytes are counted before anything is checked; the first check that  *)
(* fails ends the program.                                                 *)
Validate ==
  /\ pc = "options"
  /\ bytes_to_xfer' = Bytes(samples_to_xfer)
  /\ LET failed == {i \in DOMAIN Checks : Checks[i][2]}
     IN IF failed = {}
          THEN pc' = "accepted" /\ UNCHANGED reason
          ELSE /\ pc' = "rejected"
               /\ \E i \in failed :
                    /\ \A j \in failed : i <= j
                    /\ reason' = Checks[i][1]
  /\ UNCHANGED <<given, switches, levels, format, limit_num_samples,
                 samples_to_xfer>>

Next ==
  \/ OptionFile \/ OptionPacking \/ OptionFrequency \/ OptionRate
  \/ OptionType \/ OptionGain \/ OptionSamples \/ OptionOther \/ OptionError
  \/ Validate

Spec == Init /\ [][Next]_vars

-----------------------------------------------------------------------------
(* Properties.                                                             *)

(* What rx_callback() writes for two samples of the type.                  *)
BytesOfTwo ==
  CASE sample_type_val = 0 -> 16
    [] sample_type_val \in {1, 2} -> 8
    [] sample_type_val \in {3, 4} -> 4
    [] sample_type_val = RAW -> IF packing_val = 1 THEN 3 ELSE 4

(* The header's wBlockAlign, and the bytes that its dwAvgBytesPerSec counts *)
(* for each sample of dwSamplesPerSec: main() leaves out the channels.     *)
BlockAlign == wav.nb_channels * (wav.nb_bits_per_sample \div 8)
ByteRate   == wav.nb_byte_per_sample

(* Whatever options came before, in any order, the format, the block size  *)
(* and the bytes per sample in the header of an accepted command line are  *)
(* those of what the callback writes for its sample type.  The byte rate   *)
(* is that of one channel, half of what is written per second for IQ.      *)
FormatFitsType ==
  pc = "accepted" =>
    /\ 2 * BlockAlign = BytesOfTwo
    /\ 2 * wav.nb_channels * ByteRate = BytesOfTwo
    /\ (wav.format_tag = 3) = (sample_type_val \in {0, 1})

(* The limit in bytes is what the callback writes for the samples asked    *)
(* for, when the product in bits fits 64 bits.                             *)
LimitFitsType ==
  pc = "accepted" /\ 64 * samples_to_xfer < U64 =>
    2 * bytes_to_xfer = samples_to_xfer * BytesOfTwo
=============================================================================
