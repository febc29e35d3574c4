---------------------------- MODULE SampleRates ----------------------------
(***************************************************************************)
(* The sample rates of libairspy: the list read from the firmware when the *)
(* device is opened (or a fallback), airspy_set_sample_type(),             *)
(* airspy_get_samplerates() and airspy_set_samplerate().                   *)
(*                                                                         *)
(* The firmware's list holds rates of complex (IQ) samples.  The device    *)
(* converts twice as many real samples, so that a client that asked for a  *)
(* REAL sample type is shown doubled rates.                                *)
(***************************************************************************)
EXTENDS Integers, Sequences, SequencesExt

CONSTANTS
  FirmwareLists,            \* lists of rates a firmware may have
  Values,                   \* arguments of airspy_set_samplerate()
  MIN_SAMPLERATE_BY_VALUE   \* below it, an argument is an index

(* The minimum tells rates from indices: a rate of a list is not below it, *)
(* and divided by 1000, as it is sent, it is no index.  It can be sent in  *)
(* the 16 bits of the transfer.                                            *)
RatesAssumption ==
  /\ FirmwareLists \subseteq Seq(Nat \ {0}) /\ <<>> \notin FirmwareLists
  /\ Values \subseteq Nat
  /\ MIN_SAMPLERATE_BY_VALUE \in Nat \ {0}
  /\ MIN_SAMPLERATE_BY_VALUE < 65536 * 1000
  /\ \A rates \in FirmwareLists :
       /\ 1000 * Len(rates) <= MIN_SAMPLERATE_BY_VALUE
       /\ \A i \in 1 .. Len(rates) : rates[i] >= MIN_SAMPLERATE_BY_VALUE

VARIABLES
  firmware,               \* the device's own list
  supported_samplerates,  \* device->supported_samplerates, <<>> before open
  fallback,               \* history: the list could not be read
  sample_type,            \* "IQ" or "REAL"
  list, list_type,        \* the client's list, and the sample type it is for
  adc_rate,               \* real samples per second of the device, 0 unset
  request                 \* history: the last rate that was set

vars == <<firmware, supported_samplerates, fallback, sample_type, list,
          list_type, adc_rate, request>>

NoRequest == [value |-> 0, type |-> "none", list |-> <<>>, list_type |-> "none"]

Fallback == <<10000000, 2500000>>

Init ==
  /\ firmware \in FirmwareLists
  /\ supported_samplerates = <<>>
  /\ fallback = FALSE
  /\ sample_type = "IQ"
  /\ list = <<>>
  /\ list_type = "IQ"
  /\ adc_rate = 0
  /\ request = NoRequest

Opened == supported_samplerates # <<>>

(* airspy_open(): the count and the list are read from the firmware; if    *)
(* either transfer fails the driver assumes two rates.                     *)
Open ==
  /\ ~Opened
  /\ \/ supported_samplerates' = firmware /\ fallback' = FALSE
     \/ supported_samplerates' = Fallback /\ fallback' = TRUE
  /\ UNCHANGED <<firmware, sample_type, list, list_type, adc_rate, request>>

SetSampleType ==
  /\ Opened
  /\ sample_type' \in {"IQ", "REAL"}
  /\ UNCHANGED <<firmware, supported_samplerates, fallback, list, list_type,
                 adc_rate, request>>

(* Twice the rates for a REAL sample type.                                 *)
Shown(rates, type) ==
  [i \in DOMAIN rates |-> IF type = "IQ" THEN rates[i] ELSE rates[i] * 2]

(* The first len rates; more than there are is AIRSPY_ERROR_INVALID_PARAM. *)
GetSamplerates ==
  /\ Opened
  /\ \E len \in 1 .. Len(supported_samplerates) :
       list' = Shown(SubSeq(supported_samplerates, 1, len), sample_type)
  /\ list_type' = sample_type
  /\ UNCHANGED <<firmware, supported_samplerates, fallback, sample_type,
                 adc_rate, request>>

Places(samplerate) ==
  {i \in 1 .. Len(supported_samplerates) : supported_samplerates[i] = samplerate}

(* Mutation of WIndex: an IQ rate is doubled before it is looked up.       *)
WIndexDoubledFirst(samplerate) ==
  LET value == IF sample_type = "IQ" THEN samplerate * 2 ELSE samplerate
  IN (IF samplerate < MIN_SAMPLERATE_BY_VALUE THEN samplerate
      ELSE IF Places(value) # {}
        THEN (CHOOSE i \in Places(value) : \A j \in Places(value) : i <= j) - 1
      ELSE value \div 1000) % 65536

(* What the control transfer asks for: an index, or a rate in kHz; it has  *)
(* 16 bits.  An index the search finds is below the minimum by value.      *)
WIndex(samplerate) ==
  LET places == Places(samplerate)
  IN (IF samplerate < MIN_SAMPLERATE_BY_VALUE THEN samplerate
      ELSE IF places # {}
        THEN (CHOOSE i \in places : \A j \in places : i <= j) - 1
      ELSE (IF sample_type = "IQ" THEN samplerate * 2 ELSE samplerate)
             \div 1000) % 65536

(* The firmware: an index into its list, or the rate of real samples.      *)
DeviceRate(wIndex) ==
  IF wIndex < Len(firmware) THEN firmware[wIndex + 1] * 2 ELSE wIndex * 1000

(* A transfer that fails leaves the rate.                                  *)
SetSamplerate(value) ==
  /\ Opened
  /\ adc_rate' = DeviceRate(WIndex(value))
  /\ request' = [value |-> value, type |-> sample_type, list |-> list,
                 list_type |-> list_type]
  /\ UNCHANGED <<firmware, supported_samplerates, fallback, sample_type, list,
                 list_type>>

Next ==
  \/ Open
  \/ SetSampleType
  \/ GetSamplerates
  \/ \E value \in Values : SetSamplerate(value)

Spec == Init /\ [][Next]_vars

-----------------------------------------------------------------------------
(* Properties.                                                             *)

(* Samples of the given type per second, as real samples.                  *)
AdcRate(rate, type) == IF type = "IQ" THEN rate * 2 ELSE rate

(* The request was made by a value of the client's list, for its type.     *)
ByListedValue ==
  /\ request # NoRequest
  /\ request.value \in Range(request.list)
  /\ request.list_type = request.type

(* An index gives the rate that the client's list, whatever sample type it *)
(* was asked for and whatever type is set since, has at that place; a      *)
(* value of a list of IQ rates gives this rate.                            *)
ListedRateIsSet ==
  firmware = supported_samplerates =>
    /\ request # NoRequest /\ request.value < Len(request.list) =>
         adc_rate = AdcRate(request.list[request.value + 1], request.list_type)
    /\ ByListedValue /\ request.type = "IQ" =>
         adc_rate = AdcRate(request.value, "IQ")

(* airspy.h: "Parameter samplerate can be either the index of a samplerate *)
(* or directly its value in Hz within the list returned by                 *)
(* airspy_get_samplerates()", here for the values of REAL sample types     *)
(* when the list was read from the firmware.                               *)
ListedRealRateIsSet ==
  ~fallback /\ ByListedValue /\ request.type = "REAL" =>
    adc_rate = AdcRate(request.value, "REAL")
=============================================================================
