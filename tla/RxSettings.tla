----------------------------- MODULE RxSettings -----------------------------
(***************************************************************************)
(* From the command line of airspy_rx to the settings of the device: main()*)
(* reads the options (RxOptions), opens the device, sets sample type and   *)
(* rate (SampleRates), computes the rate for the WAV header, and sets the  *)
(* gains (GainControl).                                                    *)
(*                                                                         *)
(* The library's client may also be a program of its own, which calls the  *)
(* functions for the rates, or those for the gains, in any order; the two  *)
(* share no state.                                                         *)
(***************************************************************************)
EXTENDS Integers, Sequences, SequencesExt

CONSTANTS  \* of RxOptions, SampleRates and GainControl
  MaxOptions, Samples, Frequencies, RateArguments, Gains, U64,
  SAMPLES_TO_XFER_MAX_U64, FirmwareLists, Values, MIN_SAMPLERATE_BY_VALUE,
  GainValues

VARIABLES  \* of RxOptions
  pc, reason, given, receive_wav, path, call_set_packing, packing_val, freq,
  freq_hz, sample_rate_val, sample_type_val, wav, gain, linearity_gain,
  sensitivity_gain, limit_num_samples, samples_to_xfer, bytes_to_xfer

VARIABLES  \* of SampleRates and of GainControl
  firmware, supported_samplerates, fallback, sample_type, list, list_type,
  adc_rate, request,
  device_gain, call, todo, current, previous

VARIABLES
  client,              \* "airspy_rx", "rates" or "gains"
  main,                \* main() after the options
  wav_sample_per_sec,  \* for the header
  gain_calls,          \* the gain calls that main() has yet to make
  gain_failed          \* history: one of them failed

Options == INSTANCE RxOptions
Rates   == INSTANCE SampleRates
Control == INSTANCE GainControl

ASSUME SettingsAssumption ==
  /\ Options!OptionsAssumption
  /\ Rates!RatesAssumption
  /\ GainValues \subseteq Control!Byte

optionvars == <<pc, reason, given, receive_wav, path, call_set_packing,
                packing_val, freq, freq_hz, sample_rate_val, sample_type_val,
                wav, gain, linearity_gain, sensitivity_gain,
                limit_num_samples, samples_to_xfer, bytes_to_xfer>>
ratevars   == <<firmware, supported_samplerates, fallback, sample_type, list,
                list_type, adc_rate, request>>
gainvars   == <<device_gain, call, todo, current, previous>>
mainvars   == <<main, wav_sample_per_sec, gain_calls, gain_failed>>
vars       == <<optionvars, ratevars, gainvars, client, mainvars>>

Init ==
  /\ client \in {"airspy_rx", "rates", "gains"}
  /\ Options!Init /\ Rates!Init /\ Control!Init
  /\ main = "options"
  /\ wav_sample_per_sec = 0
  /\ gain_calls = <<>>
  /\ gain_failed = FALSE

-----------------------------------------------------------------------------
(* main() of airspy_rx.  What it does besides until the stream starts is   *)
(* in AirspyRx.                                                            *)

ReadOptions ==
  /\ main = "options"
  /\ Options!Next
  /\ main' = CASE pc' = "accepted" -> "open"
               [] pc' = "rejected" -> "failed"
               [] OTHER -> "options"
  /\ UNCHANGED <<ratevars, gainvars, client, wav_sample_per_sec, gain_calls,
                 gain_failed>>

OpenDevice ==
  /\ main = "open"
  /\ \/ main' = "type" /\ Rates!Open
     \/ main' = "failed" /\ UNCHANGED ratevars
  /\ UNCHANGED <<optionvars, gainvars, client, wav_sample_per_sec, gain_calls,
                 gain_failed>>

(* FLOAT32_IQ and INT16_IQ are the sample types that are not REAL.         *)
TypeAsked == IF sample_type_val \in {0, 2} THEN "IQ" ELSE "REAL"

SetType ==
  /\ main = "type" /\ main' = "list"
  /\ Rates!SetSampleType
  /\ sample_type' = TypeAsked
  /\ UNCHANGED <<optionvars, gainvars, client, wav_sample_per_sec, gain_calls,
                 gain_failed>>

GetList ==
  /\ main = "list" /\ main' = "header"
  /\ Rates!GetSamplerates
  /\ Len(list') = Len(supported_samplerates)
  /\ UNCHANGED <<optionvars, gainvars, client, wav_sample_per_sec, gain_calls,
                 gain_failed>>

ByIndex == sample_rate_val <= MIN_SAMPLERATE_BY_VALUE

(* Mutation of HeaderRate: the device's own list instead of the shown one. *)
HeaderRateOfDevice ==
  IF ByIndex THEN supported_samplerates[sample_rate_val + 1] ELSE sample_rate_val

HeaderRate == IF ByIndex THEN list[sample_rate_val + 1] ELSE sample_rate_val

(* The rate of the header, or "unsupported sample rate".                   *)
ChooseHeaderRate ==
  /\ main = "header"
  /\ IF ByIndex /\ sample_rate_val >= Len(list)
       THEN main' = "failed" /\ UNCHANGED wav_sample_per_sec
       ELSE main' = "rate" /\ wav_sample_per_sec' = HeaderRate
  /\ UNCHANGED <<optionvars, ratevars, gainvars, client, gain_calls,
                 gain_failed>>

GainCalls ==
  IF ~linearity_gain /\ ~sensitivity_gain
    THEN << <<"vga", gain.v>>, <<"mixer", gain.m>>, <<"lna", gain.l>> >>
  ELSE IF linearity_gain THEN << <<"linearity", gain.g>> >>
  ELSE << <<"sensitivity", gain.h>> >>

SetRate ==
  /\ main = "rate"
  /\ \/ /\ Rates!SetSamplerate(sample_rate_val)
        /\ main' = "gains" /\ gain_calls' = GainCalls
     \/ main' = "failed" /\ UNCHANGED <<ratevars, gain_calls>>
  /\ UNCHANGED <<optionvars, gainvars, client, wav_sample_per_sec, gain_failed>>

CallGain ==
  /\ main = "gains" /\ gain_calls # <<>>
  /\ Control!Call(Head(gain_calls)[1], Head(gain_calls)[2])
  /\ gain_calls' = Tail(gain_calls)
  /\ UNCHANGED <<optionvars, ratevars, client, main, wav_sample_per_sec,
                 gain_failed>>

(* An error is printed and forgotten.                                      *)
GainCallRuns ==
  /\ main = "gains"
  /\ Control!CallSteps
  /\ gain_failed' = (gain_failed \/ Control!CallFails)
  /\ UNCHANGED <<optionvars, ratevars, client, main, wav_sample_per_sec,
                 gain_calls>>

GainsSet ==
  /\ main = "gains" /\ gain_calls = <<>> /\ call.name = "none"
  /\ main' = "set"
  /\ UNCHANGED <<optionvars, ratevars, gainvars, client, wav_sample_per_sec,
                 gain_calls, gain_failed>>

Finished == main \in {"set", "failed"} /\ UNCHANGED vars

AirspyRx ==
  \/ ReadOptions \/ OpenDevice \/ SetType \/ GetList \/ ChooseHeaderRate
  \/ SetRate \/ CallGain \/ GainCallRuns \/ GainsSet \/ Finished

-----------------------------------------------------------------------------
Next ==
  \/ client = "airspy_rx" /\ AirspyRx
  \/ /\ client = "rates" /\ Rates!Next
     /\ UNCHANGED <<optionvars, gainvars, client, mainvars>>
  \/ /\ client = "gains" /\ Control!Next
     /\ UNCHANGED <<optionvars, ratevars, client, mainvars>>

Spec == Init /\ [][Next]_vars

-----------------------------------------------------------------------------
(* Properties.                                                             *)

(* Whatever options came before, in any order, the WAV format, block size  *)
(* and bytes per sample of an accepted command line are those of what      *)
(* rx_callback() writes for its type; the byte rate is that of a channel.  *)
FormatFitsType == Options!FormatFitsType

(* The limit in bytes is what rx_callback() writes for the samples of -n.  *)
LimitFitsType == Options!LimitFitsType

(* An index, or a listed IQ rate, sets the rate that the client's list     *)
(* shows, in any order of the calls about rates and sample types.          *)
ListedRateIsSet == Rates!ListedRateIsSet

(* A greater composite gain is no less gain, whatever was set before.      *)
MoreGainIsMore == Control!MoreGainIsMore

(* The argument of -a is a place in the list, a listed IQ rate, or a rate  *)
(* in no list that the transfer can express.                               *)
Expressible ==
  \/ ByIndex
  \/ sample_rate_val \in Range(supported_samplerates) /\ TypeAsked = "IQ"
  \/ /\ sample_rate_val \notin Range(supported_samplerates)
     /\ sample_rate_val % 1000 = 0
     /\ Rates!AdcRate(sample_rate_val, TypeAsked) < 65536 * 1000

(* The header's rate, which main() works out from the list or the option,  *)
(* is the rate at which the device delivers samples of the type asked for, *)
(* when the driver has the firmware's list.                                *)
HeaderRateIsDeviceRate ==
  main \in {"gains", "set"} /\ firmware = supported_samplerates /\ Expressible =>
    adc_rate = Rates!AdcRate(wav_sample_per_sec, TypeAsked)

(* Gains that airspy_rx accepts are set as they are, by a single call or   *)
(* as one row of a table: none is cut or wraps in the library.             *)
GainsAsAsked ==
  main = "set" /\ ~gain_failed =>
    IF linearity_gain \/ sensitivity_gain
      THEN /\ \A agc \in Control!Agcs : device_gain[agc] = 0
           /\ LET kind == IF linearity_gain THEN "linearity" ELSE "sensitivity"
                  place == 22 - (IF linearity_gain THEN gain.g ELSE gain.h)
              IN \A stage \in Control!Stages :
                   device_gain[stage] = Control!Table[kind][stage][place]
      ELSE /\ device_gain.vga = gain.v
           /\ device_gain.mixer = gain.m
           /\ device_gain.lna = gain.l
=============================================================================
