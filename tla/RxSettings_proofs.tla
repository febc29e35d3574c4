-------------------------- MODULE RxSettings_proofs --------------------------
(***************************************************************************)
(* Proofs about RxSettings: the options, the rate and the gains that reach *)
(* the device, for every list of rates that a firmware may have, every     *)
(* option in every order, and every order of the calls of a client.        *)
(***************************************************************************)
EXTENDS RxSettings, SequenceTheorems, WellFoundedInduction, TLAPS

-----------------------------------------------------------------------------
(* The command line.                                                       *)

(* The format of a type: a float's for 0 and 1, two channels for 0 and 2.  *)
FormatOf(type) ==
  Options!Wav(IF type \in {0, 1} THEN 3 ELSE 1,
              IF type \in {0, 2} THEN 2 ELSE 1,
              IF type \in {0, 1} THEN 4 ELSE 2,
              IF type \in {0, 1} THEN 32 ELSE 16)

(* The options as far as they are read.                                    *)
LineInv ==
  /\ pc \in {"options", "accepted", "rejected"}
  /\ receive_wav \in BOOLEAN /\ path \in BOOLEAN /\ (path => receive_wav)
  /\ sample_rate_val \in Nat
  /\ sample_type_val \in 0 .. 6
  /\ sample_type_val \in 0 .. 4 => wav = FormatOf(sample_type_val)
  /\ gain \in [Options!GainNames -> Nat]
  /\ linearity_gain \in BOOLEAN /\ sensitivity_gain \in BOOLEAN
  /\ samples_to_xfer \in Nat

(* What the checks of main() leave.                                        *)
AcceptedInv ==
  pc = "accepted" =>
    /\ sample_type_val \in 0 .. 4
    /\ \A name \in Options!GainNames : gain[name] <= Options!GainMax[name]
    /\ ~(linearity_gain /\ sensitivity_gain)
    /\ bytes_to_xfer = Options!Bytes(samples_to_xfer)

(* A type option sets the format of its type.                              *)
LEMMA FormatOfType ==
  ASSUME NEW type \in 0 .. 4 PROVE Options!TypeFormat(type) = FormatOf(type)
<1>1. type # Options!RAW
  BY DEF Options!RAW
<1>2. CASE type = 0
  <2>1. type # 1 /\ type # 2 /\ type \notin {3, 4}
    BY <1>2
  <2>2. Options!TypeFormat(type) = Options!Wav(3, 2, 4, 32)
    BY <1>1, <1>2, <2>1, Zenon DEF Options!TypeFormat
  <2> QED BY <1>2, <2>2 DEF FormatOf
<1>3. CASE type = 1
  <2>1. type # 0 /\ type # 2 /\ type \notin {3, 4}
    BY <1>3
  <2>2. Options!TypeFormat(type) = Options!Wav(3, 1, 4, 32)
    BY <1>1, <1>3, <2>1, Zenon DEF Options!TypeFormat
  <2> QED BY <1>3, <2>2 DEF FormatOf
<1>4. CASE type = 2
  <2>1. type # 0 /\ type # 1 /\ type \notin {3, 4}
    BY <1>4
  <2>2. Options!TypeFormat(type) = Options!Wav(1, 2, 2, 16)
    BY <1>1, <1>4, <2>1, Zenon DEF Options!TypeFormat
  <2> QED BY <1>4, <2>2 DEF FormatOf
<1>5. CASE type \in {3, 4}
  <2>1. type # 0 /\ type # 1 /\ type # 2
    BY <1>5
  <2>2. Options!TypeFormat(type) = Options!Wav(1, 1, 2, 16)
    BY <1>1, <1>5, <2>1, Zenon DEF Options!TypeFormat
  <2> QED BY <1>5, <2>2 DEF FormatOf
<1> QED BY <1>2, <1>3, <1>4, <1>5

(* The bytes that rx_callback() writes for two samples of a type.          *)
LEMMA BytesOfType ==
  ASSUME sample_type_val \in 0 .. 4
  PROVE  Options!BytesOfTwo = IF sample_type_val = 0 THEN 16
                              ELSE IF sample_type_val \in {1, 2} THEN 8 ELSE 4
<1>1. sample_type_val # Options!RAW
  BY DEF Options!RAW
<1>2. CASE sample_type_val = 0
  <2>1. sample_type_val \notin {1, 2} /\ sample_type_val \notin {3, 4}
    BY <1>2
  <2> QED BY <1>1, <1>2, <2>1, Zenon DEF Options!BytesOfTwo
<1>3. CASE sample_type_val \in {1, 2}
  <2>1. sample_type_val # 0 /\ sample_type_val \notin {3, 4}
    BY <1>3
  <2> QED BY <1>1, <1>3, <2>1, Zenon DEF Options!BytesOfTwo
<1>4. CASE sample_type_val \in {3, 4}
  <2>1. sample_type_val # 0 /\ sample_type_val \notin {1, 2}
    BY <1>4
  <2> QED BY <1>1, <1>4, <2>1, Zenon DEF Options!BytesOfTwo
<1> QED BY <1>2, <1>3, <1>4

(* The defaults of the globals.                                            *)
LEMMA LineInit == Init => LineInv /\ AcceptedInv
<1> SUFFICES ASSUME Init PROVE LineInv /\ AcceptedInv
  OBVIOUS
<1>1. gain \in [Options!GainNames -> Nat]
  BY DEF Init, Options!Init, Options!GainNames
<1>2. wav = FormatOf(2) /\ sample_type_val = 2
  BY DEF Init, Options!Init, FormatOf
<1>3. /\ pc = "options" /\ sample_rate_val = 0 /\ samples_to_xfer = 0
      /\ ~receive_wav /\ ~path /\ ~linearity_gain /\ ~sensitivity_gain
      /\ receive_wav \in BOOLEAN /\ path \in BOOLEAN
      /\ linearity_gain \in BOOLEAN /\ sensitivity_gain \in BOOLEAN
  BY Zenon DEF Init, Options!Init
<1> QED
  BY <1>1, <1>2, <1>3 DEF LineInv, AcceptedInv

(* The checks of main() that the proofs need, by their places.             *)
LEMMA CheckHolds ==
  /\ DOMAIN Options!Checks = 1 .. 8
  /\ Options!Checks[3][2] <=> (receive_wav /\ sample_type_val = 5)
  /\ Options!Checks[4][2] <=> (~path /\ ~receive_wav)
  /\ Options!Checks[6][2] <=> (sample_type_val > 5)
  /\ Options!Checks[7][2] <=>
       \E name \in Options!GainNames : gain[name] > Options!GainMax[name]
  /\ Options!Checks[8][2] <=> (linearity_gain /\ sensitivity_gain)
<1> HIDE DEF Options!GainNames, Options!GainMax
<1>1. DOMAIN Options!Checks = 1 .. 8
  BY DEF Options!Checks
<1>2. Options!Checks[3][2] <=> (receive_wav /\ sample_type_val = 5)
  BY DEF Options!Checks, Options!RAW
<1>3. Options!Checks[4][2] <=> (~path /\ ~receive_wav)
  BY DEF Options!Checks
<1>4. Options!Checks[6][2] <=> (sample_type_val > 5)
  BY DEF Options!Checks, Options!SAMPLE_TYPE_MAX
<1>5. Options!Checks[7][2] <=>
       \E name \in Options!GainNames : gain[name] > Options!GainMax[name]
  BY DEF Options!Checks
<1>6. Options!Checks[8][2] <=> (linearity_gain /\ sensitivity_gain)
  BY DEF Options!Checks
<1> QED BY <1>1, <1>2, <1>3, <1>4, <1>5, <1>6

(* Every option, in any order, and the checks after them.                  *)
LEMMA LineNext == LineInv /\ AcceptedInv /\ [Options!Next]_optionvars
                    => LineInv' /\ AcceptedInv'
<1> SUFFICES ASSUME LineInv, AcceptedInv, [Options!Next]_optionvars
             PROVE  LineInv' /\ AcceptedInv'
  OBVIOUS
<1> USE SettingsAssumption DEF Options!OptionsAssumption, SettingsAssumption
<1>1. CASE Options!OptionFile
  BY <1>1
     DEF Options!OptionFile, Options!NextOption, Options!levels,
         Options!format, Options!count, LineInv, AcceptedInv
<1>2. CASE Options!OptionPacking
  BY <1>2
     DEF Options!OptionPacking, Options!NextOption, Options!levels,
         Options!format, Options!count, LineInv, AcceptedInv
<1>3. CASE Options!OptionFrequency
  BY <1>3
     DEF Options!OptionFrequency, Options!NextOption, Options!levels,
         Options!format, Options!count, LineInv, AcceptedInv
<1>4. CASE Options!OptionRate
  BY <1>4
     DEF Options!OptionRate, Options!NextOption, Options!levels,
         Options!format, Options!count, LineInv, AcceptedInv
<1>5. CASE Options!OptionType
  BY <1>5, FormatOfType
     DEF Options!OptionType, Options!NextOption, Options!switches,
         Options!levels, Options!count, LineInv, AcceptedInv,
         Options!SAMPLE_TYPE_MAX, Options!RAW
<1>6. CASE Options!OptionGain
  BY <1>6
     DEF Options!OptionGain, Options!NextOption, Options!switches,
         Options!format, Options!count, LineInv, AcceptedInv
<1>7. CASE Options!OptionSamples
  BY <1>7
     DEF Options!OptionSamples, Options!NextOption, Options!switches,
         Options!levels, Options!format, LineInv, AcceptedInv
<1>8. CASE Options!OptionOther
  BY <1>8
     DEF Options!OptionOther, Options!NextOption, Options!switches,
         Options!levels, Options!format, Options!count, LineInv, AcceptedInv
<1>9. CASE Options!OptionError
  BY <1>9
     DEF Options!OptionError, Options!switches, Options!levels,
         Options!format, Options!count, LineInv, AcceptedInv
<1>10. CASE Options!Validate
  <2>1. LineInv'
    BY <1>10
       DEF Options!Validate, Options!switches, Options!levels, Options!format,
           LineInv
  <2>2. pc' = "accepted" =>
          \A k \in DOMAIN Options!Checks : ~Options!Checks[k][2]
    BY <1>10 DEF Options!Validate
  <2>3. pc' = "accepted" =>
          /\ sample_type_val \in 0 .. 4
          /\ \A name \in Options!GainNames :
               gain[name] <= Options!GainMax[name]
          /\ ~(linearity_gain /\ sensitivity_gain)
    <3> HIDE DEF Options!GainNames
    <3>1. \A name \in Options!GainNames : gain[name] \in Nat
          /\ Options!GainMax[name] \in Nat
      BY DEF Options!GainMax, LineInv, Options!GainNames
    <3> QED BY <2>2, <3>1, CheckHolds DEF LineInv
  <2>4. bytes_to_xfer' = Options!Bytes(samples_to_xfer)
    BY <1>10 DEF Options!Validate
  <2> QED BY <1>10, <2>1, <2>3, <2>4
             DEF Options!Validate, Options!switches, Options!levels,
                 Options!format, Options!Bytes, AcceptedInv
<1>11. CASE UNCHANGED optionvars
  BY <1>11 DEF optionvars, LineInv, AcceptedInv, Options!Bytes
<1> QED
  BY <1>1, <1>2, <1>3, <1>4, <1>5, <1>6, <1>7, <1>8, <1>9, <1>10, <1>11
     DEF Options!Next

(* FormatFitsType for one state.                                           *)
LEMMA FormatFits == LineInv /\ AcceptedInv => FormatFitsType
<1> SUFFICES ASSUME LineInv, AcceptedInv, pc = "accepted" PROVE FormatFitsType
  BY DEF FormatFitsType, Options!FormatFitsType
<1>1. sample_type_val \in 0 .. 4 /\ wav = FormatOf(sample_type_val)
  BY DEF LineInv, AcceptedInv
<1>2. CASE sample_type_val = 0
  <2>1. wav = Options!Wav(3, 2, 4, 32) /\ Options!BytesOfTwo = 16
    BY <1>1, <1>2, BytesOfType DEF FormatOf
  <2> QED BY <1>2, <2>1 DEF FormatFitsType, Options!FormatFitsType, Options!BlockAlign,
                            Options!ByteRate, Options!Wav
<1>3. CASE sample_type_val = 1
  <2>1. wav = Options!Wav(3, 1, 4, 32) /\ Options!BytesOfTwo = 8
    BY <1>1, <1>3, BytesOfType DEF FormatOf
  <2> QED BY <1>3, <2>1 DEF FormatFitsType, Options!FormatFitsType, Options!BlockAlign,
                            Options!ByteRate, Options!Wav
<1>4. CASE sample_type_val = 2
  <2>1. wav = Options!Wav(1, 2, 2, 16) /\ Options!BytesOfTwo = 8
    BY <1>1, <1>4, BytesOfType DEF FormatOf
  <2> QED BY <1>4, <2>1 DEF FormatFitsType, Options!FormatFitsType, Options!BlockAlign,
                            Options!ByteRate, Options!Wav
<1>5. CASE sample_type_val \in {3, 4}
  <2>1. wav = Options!Wav(1, 1, 2, 16) /\ Options!BytesOfTwo = 4
    BY <1>1, <1>5, BytesOfType DEF FormatOf
  <2> QED BY <1>5, <2>1 DEF FormatFitsType, Options!FormatFitsType, Options!BlockAlign,
                            Options!ByteRate, Options!Wav
<1> QED BY <1>1, <1>2, <1>3, <1>4, <1>5

(* LimitFitsType for one state.                                            *)
LEMMA LimitFits == LineInv /\ AcceptedInv => LimitFitsType
<1> SUFFICES ASSUME LineInv, AcceptedInv, pc = "accepted",
                    64 * samples_to_xfer < U64
             PROVE  2 * bytes_to_xfer = samples_to_xfer * Options!BytesOfTwo
  BY DEF LimitFitsType, Options!LimitFitsType
<1>1. /\ sample_type_val \in 0 .. 4 /\ wav = FormatOf(sample_type_val)
      /\ bytes_to_xfer = Options!Bytes(samples_to_xfer)
      /\ samples_to_xfer \in Nat /\ U64 \in Nat \ {0}
  BY SettingsAssumption
     DEF LineInv, AcceptedInv, SettingsAssumption, Options!OptionsAssumption
<1>2. ASSUME NEW bytes \in {4, 8, 16}, bytes = Options!BytesOfTwo,
             4 * bytes = wav.nb_bits_per_sample * wav.nb_channels
      PROVE  2 * bytes_to_xfer = samples_to_xfer * Options!BytesOfTwo
  <2>1. PICK bits \in {16, 32, 64} : bits = 4 * bytes
    BY <1>2
  <2>2. samples_to_xfer * wav.nb_bits_per_sample * wav.nb_channels
          = samples_to_xfer * bits
    BY <1>1, <1>2, <2>1 DEF FormatOf, Options!Wav
  <2>3. bytes_to_xfer = ((samples_to_xfer * bits) % U64) \div 8
    BY <1>1, <2>2 DEF Options!Bytes
  <2>4. samples_to_xfer * bits \in 0 .. U64 - 1
    BY <1>1
  <2>5. (samples_to_xfer * bits) % U64 = samples_to_xfer * bits
    BY <1>1, <2>4
  <2>6. 2 * ((samples_to_xfer * bits) \div 8) = samples_to_xfer * bytes
    BY <1>1, <2>1
  <2> QED BY <1>2, <2>3, <2>5, <2>6
<1>3. CASE sample_type_val = 0
  <2>1. wav = Options!Wav(3, 2, 4, 32) /\ Options!BytesOfTwo = 16
    BY <1>1, <1>3, BytesOfType DEF FormatOf
  <2> QED BY <1>2, <2>1 DEF Options!Wav
<1>4. CASE sample_type_val = 1
  <2>1. wav = Options!Wav(3, 1, 4, 32) /\ Options!BytesOfTwo = 8
    BY <1>1, <1>4, BytesOfType DEF FormatOf
  <2> QED BY <1>2, <2>1 DEF Options!Wav
<1>5. CASE sample_type_val = 2
  <2>1. wav = Options!Wav(1, 2, 2, 16) /\ Options!BytesOfTwo = 8
    BY <1>1, <1>5, BytesOfType DEF FormatOf
  <2> QED BY <1>2, <2>1 DEF Options!Wav
<1>6. CASE sample_type_val \in {3, 4}
  <2>1. wav = Options!Wav(1, 1, 2, 16) /\ Options!BytesOfTwo = 4
    BY <1>1, <1>6, BytesOfType DEF FormatOf
  <2> QED BY <1>2, <2>1 DEF Options!Wav
<1> QED BY <1>1, <1>3, <1>4, <1>5, <1>6

-----------------------------------------------------------------------------
(* What the driver sends for an index, a listed rate and a value.          *)

(* A set of numbers that is not empty has a least member: the first place  *)
(* in the list that holds a value.                                         *)
LEMMA Least ==
  ASSUME NEW S, S \subseteq Nat, S # {}
  PROVE  LET least == CHOOSE i \in S : \A j \in S : i <= j
         IN  least \in S /\ \A j \in S : least <= j
<1>1. PICK x \in S : \A y \in S : ~ (<<y, x>> \in OpToRel(<, Nat))
  BY NatLessThanWellFounded, WFMin
<1>2. \A y \in S : x <= y
  <2> SUFFICES ASSUME NEW y \in S, ~(x <= y) PROVE FALSE
    OBVIOUS
  <2>1. x \in Nat /\ y \in Nat /\ y < x
    OBVIOUS
  <2>2. <<y, x>> \in OpToRel(<, Nat)
    BY <2>1 DEF OpToRel
  <2> QED BY <1>1, <2>2
<1> QED BY <1>1, <1>2

(* What the assumptions say of a list of rates.                            *)
LEMMA ListFacts ==
  ASSUME NEW rates \in FirmwareLists
  PROVE  /\ rates \in Seq(Nat \ {0}) /\ Len(rates) \in Nat
            /\ DOMAIN rates = 1 .. Len(rates)
         /\ 1000 * Len(rates) <= MIN_SAMPLERATE_BY_VALUE
         /\ \A i \in 1 .. Len(rates) : rates[i] \in Nat
            /\ rates[i] >= MIN_SAMPLERATE_BY_VALUE
         /\ MIN_SAMPLERATE_BY_VALUE \in Nat
            /\ MIN_SAMPLERATE_BY_VALUE < 65536 * 1000
         /\ rates # <<>>
  BY SettingsAssumption DEF SettingsAssumption, Rates!RatesAssumption

(* An index goes out as it is and is no rate in kHz.                       *)
LEMMA IndexIsSent ==
  ASSUME firmware \in FirmwareLists, NEW value \in 0 .. Len(firmware) - 1
  PROVE  Rates!DeviceRate(Rates!WIndex(value)) = firmware[value + 1] * 2
<1>1. /\ Len(firmware) \in Nat
         /\ 1000 * Len(firmware) <= MIN_SAMPLERATE_BY_VALUE
      /\ MIN_SAMPLERATE_BY_VALUE \in Nat
         /\ MIN_SAMPLERATE_BY_VALUE < 65536 * 1000
  BY ListFacts
<1>2. value < MIN_SAMPLERATE_BY_VALUE /\ value % 65536 = value
      /\ value < Len(firmware)
  BY <1>1
<1>3. Rates!WIndex(value) = value
  BY <1>2, SMT DEF Rates!WIndex
<1> QED BY <1>2, <1>3, SMT DEF Rates!DeviceRate

(* A listed rate goes out as its place.                                    *)
LEMMA ListedIsSent ==
  ASSUME firmware \in FirmwareLists, firmware = supported_samplerates,
         NEW place \in 1 .. Len(firmware), NEW value, value = firmware[place]
  PROVE  Rates!DeviceRate(Rates!WIndex(value)) = value * 2
<1> DEFINE places == Rates!Places(value)
           least  == CHOOSE i \in places : \A j \in places : i <= j
<1>1. /\ Len(firmware) \in Nat
         /\ 1000 * Len(firmware) <= MIN_SAMPLERATE_BY_VALUE
      /\ MIN_SAMPLERATE_BY_VALUE \in Nat
         /\ MIN_SAMPLERATE_BY_VALUE < 65536 * 1000
      /\ value \in Nat /\ value >= MIN_SAMPLERATE_BY_VALUE
  BY ListFacts
<1>2. places \subseteq Nat /\ place \in places
  BY <1>1 DEF Rates!Places
<1>3. least \in places
  BY <1>2, Least
<1>4. PICK x \in 1 .. Len(firmware) : x = least /\ firmware[x] = value
  BY <1>3 DEF Rates!Places
<1>5. ~(value < MIN_SAMPLERATE_BY_VALUE) /\ places # {}
  BY <1>1, <1>2
<1>6. Rates!WIndex(value) = (x - 1) % 65536
  BY <1>4, <1>5, SMT DEF Rates!WIndex
<1> HIDE DEF least, places
<1>7. (x - 1) % 65536 = x - 1 /\ x - 1 < Len(firmware) /\ (x - 1) + 1 = x
  BY <1>1, <1>4
<1>8. Rates!DeviceRate(x - 1) = firmware[x] * 2
  BY <1>7, SMT DEF Rates!DeviceRate
<1> QED BY <1>4, <1>6, <1>7, <1>8

(* A rate in no list goes out in kHz, which is no place in the list.       *)
LEMMA ValueIsSent ==
  ASSUME firmware \in FirmwareLists, firmware = supported_samplerates,
         NEW value \in Nat, NEW type \in {"IQ", "REAL"}, type = sample_type,
         value > MIN_SAMPLERATE_BY_VALUE,
         value \notin Range(supported_samplerates),
         value % 1000 = 0, Rates!AdcRate(value, type) < 65536 * 1000
  PROVE  Rates!DeviceRate(Rates!WIndex(value)) = Rates!AdcRate(value, type)
<1>1. /\ Len(firmware) \in Nat
         /\ 1000 * Len(firmware) <= MIN_SAMPLERATE_BY_VALUE
      /\ MIN_SAMPLERATE_BY_VALUE \in Nat
         /\ MIN_SAMPLERATE_BY_VALUE < 65536 * 1000
      /\ DOMAIN firmware = 1 .. Len(firmware)
  BY ListFacts
<1>2. Rates!Places(value) = {}
  BY <1>1 DEF Rates!Places, Range
<1>3. PICK rate \in Nat : rate = Rates!AdcRate(value, type)
  BY DEF Rates!AdcRate
<1>4. rate = (IF sample_type = "IQ" THEN value * 2 ELSE value)
  BY <1>3 DEF Rates!AdcRate
<1>5. rate % 1000 = 0 /\ rate >= value /\ rate < 65536 * 1000
  BY <1>3, <1>4
<1>6. PICK index \in Nat : index = rate \div 1000
  BY <1>3
<1>7. index * 1000 = rate /\ index < 65536
  BY <1>5, <1>6
<1>8. ~(value < MIN_SAMPLERATE_BY_VALUE) /\ ~(index < Len(firmware))
  BY <1>1, <1>5, <1>7
<1>9. Rates!WIndex(value) = index % 65536
  BY <1>2, <1>4, <1>6, <1>8, SMT DEF Rates!WIndex
<1>10. index % 65536 = index
  BY <1>7
<1>11. Rates!DeviceRate(index) = index * 1000
  BY <1>8, SMT DEF Rates!DeviceRate
<1> QED BY <1>3, <1>7, <1>9, <1>10, <1>11

-----------------------------------------------------------------------------
(* The calls about rates and sample types, in any order.                   *)

(* The list shows the first rates of the firmware for the sample type.     *)
ShowsFirmware(rates, type) ==
  /\ type \in {"IQ", "REAL"}
  /\ Len(rates) \in Nat /\ Len(rates) <= Len(firmware)
     /\ DOMAIN rates = 1 .. Len(rates)
  /\ \A i \in 1 .. Len(rates) :
       rates[i] = IF type = "IQ" THEN firmware[i] ELSE firmware[i] * 2

(* A client has no list before the device is opened.                       *)
RatesInv ==
  /\ firmware \in FirmwareLists
  /\ sample_type \in {"IQ", "REAL"}
  /\ supported_samplerates = <<>> =>
       list = <<>> /\ list_type = "IQ" /\ request = Rates!NoRequest
  /\ firmware = supported_samplerates => ShowsFirmware(list, list_type)

(* The rate that a call with this value should have set.                   *)
SetTo(value, rate) ==
  /\ value \in 0 .. Len(firmware) - 1 => rate = firmware[value + 1] * 2
  /\ \A place \in 1 .. Len(firmware) :
       value = firmware[place] => rate = value * 2

(* The last call to set a rate did set it.                                 *)
RequestInv ==
  firmware = supported_samplerates /\ request # Rates!NoRequest =>
    /\ ShowsFirmware(request.list, request.list_type)
    /\ request.value \in Nat
    /\ SetTo(request.value, adc_rate)

(* No device is open.                                                      *)
LEMMA RatesInit == Init => RatesInv /\ RequestInv
<1> SUFFICES ASSUME Init PROVE RatesInv /\ RequestInv
  OBVIOUS
<1>1. /\ firmware \in FirmwareLists /\ supported_samplerates = <<>>
      /\ sample_type = "IQ" /\ list = <<>> /\ list_type = "IQ"
         /\ request = Rates!NoRequest
  BY DEF Init, Rates!Init
<1>2. firmware # <<>>
  BY <1>1, ListFacts
<1> QED BY <1>1, <1>2 DEF RatesInv, RequestInv

(* A call about rates, of airspy_rx or of another client.                  *)
AnyRateCall ==
  \/ Rates!Open \/ Rates!SetSampleType \/ Rates!GetSamplerates
  \/ \E value \in Nat : Rates!SetSamplerate(value)

(* What GetSamplerates shows of the list.                                  *)
LEMMA ShownOfFirmware ==
  ASSUME firmware \in FirmwareLists, NEW len \in 1 .. Len(firmware),
         NEW type \in {"IQ", "REAL"}
  PROVE  /\ ShowsFirmware(Rates!Shown(SubSeq(firmware, 1, len), type), type)
         /\ Len(Rates!Shown(SubSeq(firmware, 1, len), type)) = len
<1> DEFINE rates == Rates!Shown(SubSeq(firmware, 1, len), type)
<1>1. firmware \in Seq(Nat \ {0}) /\ Len(firmware) \in Nat
      /\ DOMAIN firmware = 1 .. Len(firmware)
  BY ListFacts
<1>2. PICK start : /\ start = SubSeq(firmware, 1, len)
                   /\ start \in Seq(Nat \ {0}) /\ Len(start) = len
                   /\ \A i \in 1 .. len : start[i] = firmware[i]
  <2>1. /\ SubSeq(firmware, 1, len) \in Seq(Nat \ {0})
        /\ Len(SubSeq(firmware, 1, len)) = len
        /\ \A i \in 1 .. len : SubSeq(firmware, 1, len)[i] = firmware[i]
    BY <1>1, SubSeqProperties
  <2> QED BY <2>1
<1>3. rates = [i \in 1 .. len |->
               IF type = "IQ" THEN start[i] ELSE start[i] * 2]
  BY <1>2 DEF Rates!Shown
<1>4. Len(rates) = len /\ DOMAIN rates = 1 .. len
  BY <1>3
<1> HIDE DEF rates
<1>5. \A i \in 1 .. len :
        rates[i] = IF type = "IQ" THEN firmware[i] ELSE firmware[i] * 2
  BY <1>2, <1>3
<1>6. ShowsFirmware(rates, type)
  BY <1>1, <1>4, <1>5 DEF ShowsFirmware
<1> QED BY <1>4, <1>6 DEF rates

(* No call about rates disturbs what the list and the rate show.           *)
LEMMA RatesNext ==
  RatesInv /\ RequestInv /\ [AnyRateCall]_ratevars => RatesInv' /\ RequestInv'
<1> SUFFICES ASSUME RatesInv, RequestInv, [AnyRateCall]_ratevars
             PROVE  RatesInv' /\ RequestInv'
  OBVIOUS
<1>0. firmware # <<>> /\ firmware \in FirmwareLists
  BY ListFacts DEF RatesInv
<1>1. CASE Rates!Open
  <2>1. /\ list = <<>> /\ list_type = "IQ" /\ request = Rates!NoRequest
        /\ supported_samplerates' # <<>>
        /\ list' = <<>> /\ list_type' = "IQ" /\ request' = Rates!NoRequest
        /\ firmware' = firmware /\ sample_type' = sample_type
    BY <1>0, <1>1 DEF Rates!Open, Rates!Opened, RatesInv, Rates!Fallback
  <2>2. ShowsFirmware(<<>>, "IQ")
    BY <1>0, ListFacts DEF ShowsFirmware
  <2>3. ShowsFirmware(list, list_type)'
    BY <2>1, <2>2 DEF ShowsFirmware
  <2> QED BY <2>1, <2>3, <1>0 DEF RatesInv, RequestInv
<1>2. CASE Rates!SetSampleType
  BY <1>2
     DEF Rates!SetSampleType, Rates!Opened, RatesInv, RequestInv,
         ShowsFirmware, SetTo
<1>3. CASE Rates!GetSamplerates
  <2>1. /\ supported_samplerates' = supported_samplerates
           /\ supported_samplerates # <<>>
        /\ firmware' = firmware /\ sample_type' = sample_type
        /\ request' = request /\ adc_rate' = adc_rate
           /\ list_type' = sample_type
    BY <1>3 DEF Rates!GetSamplerates, Rates!Opened
  <2>2. RequestInv'
    BY <2>1 DEF RequestInv, ShowsFirmware, SetTo
  <2>3. ASSUME firmware = supported_samplerates
        PROVE  ShowsFirmware(list', sample_type)
    BY <1>0, <1>3, <2>3, ShownOfFirmware DEF Rates!GetSamplerates, RatesInv
  <2> QED BY <2>1, <2>2, <2>3 DEF RatesInv, ShowsFirmware
<1>4. ASSUME NEW value \in Nat, Rates!SetSamplerate(value)
      PROVE  RatesInv' /\ RequestInv'
  <2>1. /\ supported_samplerates' = supported_samplerates
           /\ supported_samplerates # <<>>
        /\ firmware' = firmware /\ sample_type' = sample_type
        /\ list' = list /\ list_type' = list_type
        /\ adc_rate' = Rates!DeviceRate(Rates!WIndex(value))
        /\ request' = [value |-> value, type |-> sample_type, list |-> list,
                 list_type |-> list_type]
    BY <1>4 DEF Rates!SetSamplerate, Rates!Opened
  <2>2. firmware = supported_samplerates => SetTo(value, adc_rate')
    BY <1>0, <2>1, IndexIsSent, ListedIsSent DEF SetTo
  <2>3. RatesInv'
    BY <2>1 DEF RatesInv, ShowsFirmware
  <2>4. /\ request'.value = value /\ request'.list = list
           /\ request'.list_type = list_type
    BY <2>1
  <2> QED BY <2>1, <2>2, <2>3, <2>4
             DEF RatesInv, RequestInv, ShowsFirmware, SetTo
<1>5. CASE UNCHANGED ratevars
  BY <1>5 DEF ratevars, RatesInv, RequestInv, ShowsFirmware, SetTo
<1> QED BY <1>1, <1>2, <1>3, <1>4, <1>5 DEF AnyRateCall

(* ListedRateIsSet for one state.                                          *)
LEMMA ListedIsSet == RatesInv /\ RequestInv => ListedRateIsSet
<1> SUFFICES ASSUME RatesInv, RequestInv, firmware = supported_samplerates,
                    request # Rates!NoRequest
             PROVE  /\ request.value < Len(request.list) =>
                         adc_rate = Rates!AdcRate(request.list[request.value + 1],
                                                  request.list_type)
                    /\ Rates!ByListedValue /\ request.type = "IQ" =>
                         adc_rate = Rates!AdcRate(request.value, "IQ")
  BY DEF ListedRateIsSet, Rates!ListedRateIsSet, Rates!ByListedValue
<1>1. /\ ShowsFirmware(request.list, request.list_type)
      /\ request.value \in Nat /\ SetTo(request.value, adc_rate)
      /\ firmware \in FirmwareLists
  BY DEF RatesInv, RequestInv
<1>2. /\ Len(firmware) \in Nat
         /\ \A i \in 1 .. Len(firmware) : firmware[i] \in Nat
  BY <1>1, ListFacts
<1>3. ASSUME request.value < Len(request.list)
      PROVE  adc_rate = Rates!AdcRate(request.list[request.value + 1],
             request.list_type)
  <2>1. PICK place \in 1 .. Len(request.list) : place = request.value + 1
    BY <1>1, <1>3 DEF ShowsFirmware
  <2>2. place \in 1 .. Len(firmware)
        /\ request.value \in 0 .. Len(firmware) - 1
    BY <1>1, <1>2, <2>1 DEF ShowsFirmware
  <2>3. adc_rate = firmware[place] * 2 /\ firmware[place] \in Nat
    BY <1>1, <1>2, <2>1, <2>2 DEF SetTo
  <2>4. request.list[place] =
          IF request.list_type = "IQ" THEN firmware[place] ELSE firmware[place] * 2
    BY <1>1 DEF ShowsFirmware
  <2> QED BY <2>1, <2>3, <2>4 DEF Rates!AdcRate
<1>4. ASSUME Rates!ByListedValue, request.type = "IQ"
      PROVE  adc_rate = Rates!AdcRate(request.value, "IQ")
  <2>1. request.list_type = "IQ" /\ request.value \in Range(request.list)
    BY <1>4 DEF Rates!ByListedValue, Rates!Range, Range
  <2>2. PICK place \in 1 .. Len(request.list) : request.value = firmware[place]
    BY <1>1, <2>1 DEF ShowsFirmware, Range
  <2>3. place \in 1 .. Len(firmware)
    BY <1>1, <1>2 DEF ShowsFirmware
  <2> QED BY <1>1, <2>2, <2>3 DEF SetTo, Rates!AdcRate
<1> QED BY <1>3, <1>4

-----------------------------------------------------------------------------
(* The tables of the composite gains.                                      *)

(* The registers that gain calls write, and the composite gains.           *)
Registers == {"vga", "mixer", "lna", "mixer_agc", "lna_agc"}
Kinds     == {"linearity", "sensitivity"}

(* The sum of each row of the tables.                                      *)
Totals == [
  linearity   |-> <<39, 38, 36, 33, 31, 28, 26, 25, 23, 19, 18,
                    17, 15, 13, 13, 12, 10,  9,  8,  7,  5,  4>>,
  sensitivity |-> <<39, 38, 37, 36, 34, 32, 31, 29, 28, 26, 24,
                    21, 18, 17, 15, 13, 12, 10,  7,  6,  5,  4>>]

(* The rows of the tables, one by one.                                     *)
LEMMA Rows ==
  ASSUME NEW row \in 1 .. 22
  PROVE  \/ row = 1 \/ row = 2 \/ row = 3 \/ row = 4 \/ row = 5 \/ row = 6
         \/ row = 7 \/ row = 8 \/ row = 9 \/ row = 10 \/ row = 11 \/ row = 12
         \/ row = 13 \/ row = 14 \/ row = 15 \/ row = 16 \/ row = 17
         \/ row = 18 \/ row = 19 \/ row = 20 \/ row = 21 \/ row = 22
  OBVIOUS

(* The composite gains are those of the tables.                            *)
LEMMA KindsOfTable == Control!Composites = Kinds
  BY DEF Control!Composites, Control!Table, Kinds

(* The sums are those of the tables.                                       *)
LEMMA RowTotal ==
  ASSUME NEW kind \in Kinds, NEW row \in 1 .. 22
  PROVE  /\ Control!Table[kind].vga[row] \in Nat
         /\ Control!Table[kind].mixer[row] \in Nat
         /\ Control!Table[kind].lna[row] \in Nat
         /\ Totals[kind][row] = Control!Table[kind].vga[row]
              + Control!Table[kind].mixer[row] + Control!Table[kind].lna[row]
<1>1. CASE kind = "linearity"
  BY <1>1, Rows DEF Control!Table, Totals
<1>2. CASE kind = "sensitivity"
  BY <1>2, Rows DEF Control!Table, Totals
<1> QED BY <1>1, <1>2 DEF Kinds

(* From row to row the total falls, but for rows 14 and 15 of the          *)
(* linearity gains, which have the same total.                             *)
LEMMA TotalsFall ==
  ASSUME NEW kind \in Kinds, NEW row \in 1 .. 22, NEW lower \in 1 .. 22,
         row < lower
  PROVE  /\ Totals[kind][row] \in Nat /\ Totals[kind][lower] \in Nat
         /\ Totals[kind][row] >= Totals[kind][lower]
         /\ Totals[kind][row] = Totals[kind][lower] =>
              kind = "linearity" /\ row = 14 /\ lower = 15
<1>1. CASE kind = "linearity"
  BY <1>1, Rows DEF Totals
<1>2. CASE kind = "sensitivity"
  BY <1>2, Rows DEF Totals
<1> QED BY <1>1, <1>2 DEF Kinds

-----------------------------------------------------------------------------
(* What a gain call transfers.                                             *)

(* A call that the library has, with an argument of 8 bits.                *)
IsCall(name, value) == name \in Registers \cup Kinds /\ value \in 0 .. 255

(* A value for each of some registers, none of them twice.                 *)
IsTransfers(T) ==
  /\ T \in Seq(Registers \X Nat)
  /\ \A i, k \in 1 .. Len(T) : T[i][1] = T[k][1] => i = k

(* The registers are the stages and the two AGCs.                          *)
LEMMA NamesDiffer ==
  /\ Control!Stages = {"vga", "mixer", "lna"}
  /\ Control!Agcs = {"mixer_agc", "lna_agc"}
  /\ Control!Stages \cup Control!Agcs = Registers
  BY DEF Control!Stages, Control!Agcs, Registers

(* The gain of a stage is one transfer, cut to its limit.                  *)
LEMMA StageTransfer ==
  ASSUME NEW name \in Control!Stages, NEW value
  PROVE  Control!Transfers(name, value)
           = << <<name, Control!AtMost(value, Control!Limit[name])>> >>
<1>1. name \notin Control!Agcs /\ name \notin Control!Composites
  BY KindsOfTable DEF Control!Stages, Control!Agcs, Kinds
<1> QED BY <1>1, Zenon DEF Control!Transfers

(* An AGC is one transfer.                                                 *)
LEMMA AgcTransfer ==
  ASSUME NEW name \in Control!Agcs, NEW value
  PROVE  Control!Transfers(name, value) = << <<name, value>> >>
<1>1. name \notin Control!Stages /\ name \notin Control!Composites
  BY KindsOfTable DEF Control!Stages, Control!Agcs, Kinds
<1> QED BY <1>1, Zenon DEF Control!Transfers

(* A composite gain is five transfers, the AGCs first.                     *)
LEMMA CompositeTransfers ==
  ASSUME NEW name \in Kinds, NEW value, NEW row, row = Control!Row(value)
  PROVE  Control!Transfers(name, value)
           = << <<"mixer_agc", 0>>, <<"lna_agc", 0>>,
                <<"vga", Control!Table[name].vga[row]>>,
                <<"mixer", Control!Table[name].mixer[row]>>,
                <<"lna", Control!Table[name].lna[row]>> >>
<1>1. name \notin Control!Stages /\ name \notin Control!Agcs
      /\ name \in Control!Composites
  BY KindsOfTable DEF Control!Stages, Control!Agcs, Kinds
<1> QED BY <1>1, Zenon DEF Control!Transfers

(* The row of a value, in 8 bits: none is outside the tables.              *)
LEMMA RowOfValue ==
  ASSUME NEW value \in 0 .. 255
  PROVE  /\ Control!Row(value) \in 1 .. 22
         /\ value < 22 => Control!Row(value) = 22 - value
<1>1. PICK rest \in 0 .. 255 : rest = (21 - value) % 256
  OBVIOUS
<1>2. value < 22 => rest = 21 - value
  BY <1>1
<1>3. Control!Row(value) = IF rest >= 22 THEN 22 ELSE rest + 1
  BY <1>1, SMT DEF Control!Row, Control!GAIN_COUNT
<1> QED BY <1>2, <1>3

(* No call writes a register twice.                                        *)
LEMMA CallTransfers ==
  ASSUME NEW name, NEW value, IsCall(name, value)
  PROVE  IsTransfers(Control!Transfers(name, value))
<1>1. CASE name \in Control!Stages
  <2>1. PICK v \in Nat : v = Control!AtMost(value, Control!Limit[name])
    BY <1>1 DEF IsCall, Control!AtMost, Control!Limit, Control!Stages
  <2>2. Control!Transfers(name, value) = << <<name, v>> >>
    BY <1>1, <2>1, StageTransfer
  <2> QED BY <1>1, <2>2, NamesDiffer DEF IsTransfers
<1>2. CASE name \in Control!Agcs
  BY <1>2, AgcTransfer, NamesDiffer DEF IsTransfers, IsCall
<1>3. CASE name \in Kinds
  <2>1. PICK row \in 1 .. 22 : row = Control!Row(value)
    BY RowOfValue DEF IsCall
  <2>2. PICK vga \in Nat, mixer \in Nat, lna \in Nat :
          /\ vga = Control!Table[name].vga[row]
          /\ mixer = Control!Table[name].mixer[row]
          /\ lna = Control!Table[name].lna[row]
    BY <1>3, RowTotal
  <2>3. Control!Transfers(name, value)
          = << <<"mixer_agc", 0>>, <<"lna_agc", 0>>, <<"vga", vga>>,
               <<"mixer", mixer>>, <<"lna", lna>> >>
    BY <1>3, <2>1, <2>2, CompositeTransfers
  <2> QED BY <2>3 DEF IsTransfers, Registers
<1> QED BY <1>1, <1>2, <1>3, NamesDiffer DEF IsCall

-----------------------------------------------------------------------------
(* A gain call, transfer by transfer.                                      *)

(* The first transfers are done, the others are still to be made.          *)
Remains(T, done) ==
  /\ Len(todo) = Len(T) - done
  /\ \A k \in 1 .. Len(todo) : todo[k] = T[done + k]
  /\ \A i \in 1 .. done : device_gain[T[i][1]] = T[i][2]

(* A call that runs has made its first transfers and no other since.       *)
CallInv ==
  /\ device_gain \in [Registers -> Nat]
  /\ todo \in Seq(Registers \X Nat)
  /\ call = Control!NoCall => todo = <<>>
  /\ call # Control!NoCall =>
       /\ IsCall(call.name, call.value)
       /\ call = [name |-> call.name, value |-> call.value]
       /\ LET T == Control!Transfers(call.name, call.value)
          IN  \E done \in 0 .. Len(T) : Remains(T, done)

(* All that the call does is done.                                         *)
IsSet(name, value) ==
  LET T == Control!Transfers(name, value)
  IN  \A i \in 1 .. Len(T) : device_gain[T[i][1]] = T[i][2]

(* No call runs at first.                                                  *)
LEMMA CallInit == Init => CallInv
<1> SUFFICES ASSUME Init PROVE CallInv
  OBVIOUS
<1>1. device_gain \in [Registers -> Nat]
  BY NamesDiffer DEF Init, Control!Init
<1>2. call = Control!NoCall /\ todo = <<>>
  BY DEF Init, Control!Init
<1> QED BY <1>1, <1>2 DEF CallInv

(* A call begins, with every transfer to be made.                          *)
LEMMA CallBegins ==
  ASSUME CallInv, NEW name, NEW value, IsCall(name, value), Control!Call(name,
         value)
  PROVE  /\ CallInv' /\ device_gain' = device_gain /\ call = Control!NoCall
         /\ call' = [name |-> name, value |-> value] /\ call' # Control!NoCall
         /\ current' = current /\ previous' = previous
<1>1. /\ call' = [name |-> name, value |-> value] /\ device_gain' = device_gain
      /\ todo' = Control!Transfers(name, value) /\ call = Control!NoCall
      /\ current' = current /\ previous' = previous
  BY DEF Control!Call
<1>2. call'.name = name /\ call'.value = value /\ call' # Control!NoCall
  BY <1>1 DEF IsCall, Control!NoCall, Registers, Kinds
<1> DEFINE T == Control!Transfers(name, value)
<1>3. T \in Seq(Registers \X Nat) /\ Len(T) \in Nat
  BY CallTransfers DEF IsTransfers
<1>4. Remains(T, 0)'
  BY <1>1, <1>3 DEF Remains
<1>5. (\E done \in 0 .. Len(T) : Remains(T, done))'
  BY <1>3, <1>4
<1>6. CallInv'
  BY <1>1, <1>2, <1>3, <1>5 DEF CallInv
<1> QED BY <1>1, <1>2, <1>6

(* A transfer writes its register and no other.                            *)
LEMMA TransferDoes ==
  ASSUME CallInv, Control!Transfer
  PROVE  /\ CallInv' /\ call' = call /\ call # Control!NoCall
         /\ current' = current /\ previous' = previous
         /\ LET T == Control!Transfers(call.name, call.value)
            IN  \E k \in 1 .. Len(T) : \A r \in Registers :
                  r # T[k][1] => device_gain'[r] = device_gain[r]
<1> DEFINE T == Control!Transfers(call.name, call.value)
<1>1. /\ todo # <<>> /\ todo' = Tail(todo) /\ call' = call
      /\ current' = current /\ previous' = previous
      /\ device_gain' = [device_gain EXCEPT ![Head(todo)[1]] = Head(todo)[2]]
  BY DEF Control!Transfer, Control!Perform
<1>2. call # Control!NoCall /\ IsCall(call.name, call.value)
      /\ device_gain \in [Registers -> Nat] /\ todo \in Seq(Registers \X Nat)
      /\ call = [name |-> call.name, value |-> call.value]
  BY <1>1 DEF CallInv
<1>3. IsTransfers(T)
  BY <1>2, CallTransfers
<1> HIDE DEF T
<1>4. PICK done \in 0 .. Len(T) : Remains(T, done)
  BY <1>2 DEF CallInv, T
<1>5. T \in Seq(Registers \X Nat) /\ Len(T) \in Nat
      /\ \A i \in 1 .. Len(T) : T[i] \in Registers \X Nat
  BY <1>3 DEF IsTransfers
<1>6. Len(todo) \in Nat /\ Len(todo) >= 1 /\ Head(todo) = todo[1]
  BY <1>1, <1>2
<1>7. PICK next \in 1 .. Len(T) : next = done + 1 /\ todo[1] = T[next]
  BY <1>4, <1>5, <1>6 DEF Remains
<1>8. device_gain' = [device_gain EXCEPT ![T[next][1]] = T[next][2]]
      /\ T[next] \in Registers \X Nat
  BY <1>1, <1>5, <1>6, <1>7
<1>9. device_gain' \in [Registers -> Nat]
      /\ device_gain'[T[next][1]] = T[next][2]
      /\ \A r \in Registers : r # T[next][1]
           => device_gain'[r] = device_gain[r]
  BY <1>2, <1>8
<1>10. todo' \in Seq(Registers \X Nat) /\ Len(todo') = Len(todo) - 1
       /\ \A k \in 1 .. Len(todo) - 1 : todo'[k] = todo[k + 1]
  BY <1>1, <1>2, HeadTailProperties
<1>11. \A i \in 1 .. next : device_gain'[T[i][1]] = T[i][2]
  <2> SUFFICES ASSUME NEW k \in 1 .. next PROVE device_gain'[T[k][1]] = T[k][2]
    OBVIOUS
  <2>1. CASE k = next
    BY <1>9, <2>1
  <2>2. CASE k # next
    <3>1. k \in 1 .. done /\ k \in 1 .. Len(T)
      BY <1>5, <1>7, <2>2
    <3>2. T[k][1] # T[next][1] /\ T[k][1] \in Registers
      BY <1>3, <1>5, <2>2, <3>1 DEF IsTransfers
    <3> QED BY <1>4, <1>9, <3>1, <3>2 DEF Remains
  <2> QED BY <2>1, <2>2
<1>12. Len(todo') = Len(T) - next
  BY <1>4, <1>5, <1>6, <1>7, <1>10 DEF Remains
<1>13. ASSUME NEW k \in 1 .. Len(todo') PROVE todo'[k] = T[next + k]
  <2>1. k \in 1 .. Len(todo) - 1 /\ k + 1 \in 1 .. Len(todo)
    BY <1>6, <1>10
  <2>2. todo'[k] = todo[k + 1] /\ todo[k + 1] = T[done + (k + 1)]
    BY <1>4, <1>10, <2>1 DEF Remains
  <2>3. done + (k + 1) = next + k
    BY <1>5, <1>7, <2>1
  <2> QED BY <2>2, <2>3
<1>14. Remains(T, next)'
  BY <1>1, <1>7, <1>11, <1>12, <1>13 DEF Remains, T
<1>15. T' = T
  BY <1>1 DEF T
<1>16. CallInv'
  BY <1>1, <1>2, <1>7, <1>9, <1>10, <1>14, <1>15 DEF CallInv, T
<1> QED BY <1>1, <1>2, <1>9, <1>16 DEF T

(* A call that ends, well or not, leaves none to run.                      *)
LEMMA CallEnds ==
  ASSUME CallInv, Control!CallSucceeds \/ Control!CallFails
  PROVE  CallInv' /\ call' = Control!NoCall /\ call # Control!NoCall
<1>1. CASE Control!CallSucceeds
  BY <1>1 DEF Control!CallSucceeds, CallInv
<1>2. CASE Control!CallFails
  <2>1. todo # <<>> /\ todo' = <<>> /\ call' = Control!NoCall
        /\ call # Control!NoCall
    BY <1>2 DEF Control!CallFails, CallInv
  <2>2. todo[1] \in Registers \X Nat /\ Head(todo) = todo[1]
    BY <2>1 DEF CallInv
  <2>3. device_gain' \in [Registers -> Nat]
    BY <1>2, <2>2 DEF Control!CallFails, Control!Perform, CallInv
  <2> QED BY <2>1, <2>3 DEF CallInv
<1> QED BY <1>1, <1>2

(* A call that succeeds has set all that it was to set.                    *)
LEMMA SuccessSets ==
  ASSUME CallInv, Control!CallSucceeds
  PROVE  IsSet(call.name, call.value) /\ IsCall(call.name, call.value)
         /\ device_gain' = device_gain
<1>1. call # Control!NoCall /\ todo = <<>> /\ device_gain' = device_gain
  BY DEF Control!CallSucceeds
<1>2. IsCall(call.name, call.value)
  BY <1>1 DEF CallInv
<1> DEFINE T == Control!Transfers(call.name, call.value)
<1>3. Len(T) \in Nat
  BY <1>2, CallTransfers DEF IsTransfers
<1>4. PICK done \in 0 .. Len(T) : Remains(T, done)
  BY <1>1 DEF CallInv
<1> HIDE DEF T
<1>5. done = Len(T)
  BY <1>1, <1>3, <1>4 DEF Remains
<1>6. \A i \in 1 .. Len(T) : device_gain[T[i][1]] = T[i][2]
  BY <1>4, <1>5 DEF Remains
<1> QED BY <1>1, <1>2, <1>6 DEF IsSet, T

-----------------------------------------------------------------------------
(* The total of a composite gain.                                          *)

(* A composite gain that was set, of a value that the header allows.       *)
HasTotal(g) ==
  \/ g = Control!NoGain
  \/ /\ g.name \in Kinds /\ g.value \in 0 .. 255
     /\ g.value < 22 => g.total = Totals[g.name][22 - g.value]

(* Both of the last two composite gains have the total of their row.       *)
TotalInv == HasTotal(current) /\ HasTotal(previous)

(* A step of a gain call, of airspy_rx or of another client.               *)
AnyGainCall ==
  \/ \E name, value : IsCall(name, value) /\ Control!Call(name, value)
  \/ Control!CallSteps

(* A composite gain that is set has the total of its row.                  *)
LEMMA TotalOfSet ==
  ASSUME NEW kind \in Kinds, NEW value \in 0 .. 255, IsSet(kind, value),
         value < 22
  PROVE  Control!Total(device_gain) = Totals[kind][22 - value]
<1>1. PICK row \in 1 .. 22 : row = Control!Row(value) /\ row = 22 - value
  BY RowOfValue
<1>2. PICK vga \in Nat, mixer \in Nat, lna \in Nat :
        /\ vga = Control!Table[kind].vga[row]
        /\ mixer = Control!Table[kind].mixer[row]
        /\ lna = Control!Table[kind].lna[row]
  BY RowTotal
<1>3. PICK T : T = << <<"mixer_agc", 0>>, <<"lna_agc", 0>>, <<"vga", vga>>,
                      <<"mixer", mixer>>, <<"lna", lna>> >>
  OBVIOUS
<1>4. Control!Transfers(kind, value) = T
  BY <1>1, <1>2, <1>3, CompositeTransfers
<1>5. \A i \in 1 .. Len(T) : device_gain[T[i][1]] = T[i][2]
  BY <1>4 DEF IsSet
<1>6. device_gain["vga"] = vga /\ device_gain["mixer"] = mixer
      /\ device_gain["lna"] = lna
  BY <1>3, <1>5
<1>7. Totals[kind][row] = vga + mixer + lna
  BY <1>2, RowTotal
<1> QED BY <1>1, <1>6, <1>7 DEF Control!Total

(* No composite gain was set yet.                                          *)
LEMMA TotalInit == Init => TotalInv
  BY DEF Init, Control!Init, TotalInv, HasTotal

(* No step of a gain call disturbs this.                                   *)
LEMMA TotalNext ==
  CallInv /\ TotalInv /\ [AnyGainCall]_gainvars => CallInv' /\ TotalInv'
<1> SUFFICES ASSUME CallInv, TotalInv, [AnyGainCall]_gainvars
             PROVE  CallInv' /\ TotalInv'
  OBVIOUS
<1>1. ASSUME NEW name, NEW value, IsCall(name, value), Control!Call(name,
             value)
      PROVE  CallInv' /\ TotalInv'
  BY <1>1, CallBegins DEF TotalInv, HasTotal
<1>2. CASE Control!Transfer
  BY <1>2, TransferDoes DEF TotalInv, HasTotal
<1>3. CASE Control!CallFails
  <2>1. current' = current /\ previous' = previous
    BY <1>3 DEF Control!CallFails
  <2> QED BY <1>3, <2>1, CallEnds DEF TotalInv, HasTotal
<1>4. CASE Control!CallSucceeds
  <2>1. CallInv' /\ IsSet(call.name, call.value)
        /\ IsCall(call.name, call.value)
    BY <1>4, CallEnds, SuccessSets
  <2>2. CASE call.name \in Kinds
    <3>1. /\ current' = [name |-> call.name, value |-> call.value,
                         total |-> Control!Total(device_gain)]
          /\ previous' \in {current, Control!NoGain}
      BY <1>4, <2>2, KindsOfTable DEF Control!CallSucceeds
    <3>2. /\ current'.name = call.name /\ current'.value = call.value
          /\ current'.total = Control!Total(device_gain)
      BY <3>1
    <3>3. call.value \in 0 .. 255
      BY <2>1 DEF IsCall
    <3>4. HasTotal(current')
      BY <2>1, <2>2, <3>2, <3>3, TotalOfSet DEF HasTotal
    <3>5. HasTotal(previous')
      BY <3>1 DEF TotalInv, HasTotal
    <3> QED BY <2>1, <3>4, <3>5 DEF TotalInv, HasTotal
  <2>3. CASE call.name \notin Kinds
    BY <1>4, <2>1, <2>3, KindsOfTable
       DEF Control!CallSucceeds, TotalInv, HasTotal
  <2> QED BY <2>2, <2>3
<1>5. CASE UNCHANGED gainvars
  BY <1>5 DEF gainvars, CallInv, Remains, TotalInv, HasTotal
<1> QED BY <1>1, <1>2, <1>3, <1>4, <1>5 DEF AnyGainCall, Control!CallSteps

(* A greater value has no less total, and the same one only for the values *)
(* 7 and 8 of linearity.                                                   *)
LEMMA GreaterIsMore ==
  ASSUME NEW kind \in Kinds, NEW more \in 0 .. 21, NEW less \in 0 .. 21,
         more > less
  PROVE  /\ Totals[kind][22 - more] >= Totals[kind][22 - less]
         /\ Totals[kind][22 - more] = Totals[kind][22 - less] =>
              kind = "linearity" /\ more = 8 /\ less = 7
<1>1. PICK row \in 1 .. 22, lower \in 1 .. 22 :
        row = 22 - more /\ lower = 22 - less /\ row < lower
  OBVIOUS
<1> QED BY <1>1, TotalsFall

(* MoreGainIsMore for one state.                                           *)
LEMMA MoreIsMore == TotalInv => MoreGainIsMore
<1> SUFFICES ASSUME TotalInv, current.name = previous.name,
                    current.value < 22, previous.value < 22
             PROVE  /\ current.value > previous.value =>
                         current.total >= previous.total
                    /\ current.value < previous.value =>
                         current.total <= previous.total
                    /\ current.total = previous.total =>
                         \/ current.value = previous.value
                         \/ current.name = "linearity"
                            /\ {current.value, previous.value} = {7, 8}
  BY DEF MoreGainIsMore, Control!MoreGainIsMore, Control!GAIN_COUNT
<1>1. CASE current = Control!NoGain
  <2>1. previous = Control!NoGain
    BY <1>1 DEF TotalInv, HasTotal, Control!NoGain, Kinds
  <2> QED BY <1>1, <2>1 DEF Control!NoGain
<1>2. CASE current # Control!NoGain
  <2>1. PICK kind \in Kinds : kind = current.name
    BY <1>2 DEF TotalInv, HasTotal
  <2>2. previous # Control!NoGain
    BY <2>1 DEF Control!NoGain, Kinds
  <2>3. PICK new \in 0 .. 21, old \in 0 .. 21 : new = current.value
        /\ old = previous.value
    BY <1>2, <2>2 DEF TotalInv, HasTotal
  <2>4. current.total = Totals[kind][22 - new]
        /\ previous.total = Totals[kind][22 - old]
    BY <1>2, <2>1, <2>2, <2>3 DEF TotalInv, HasTotal
  <2>5. CASE new > old
    <3>1. /\ Totals[kind][22 - new] >= Totals[kind][22 - old]
          /\ Totals[kind][22 - new] = Totals[kind][22 - old] =>
               kind = "linearity" /\ new = 8 /\ old = 7
      BY <2>5, GreaterIsMore
    <3> QED BY <2>1, <2>3, <2>4, <2>5, <3>1
  <2>6. CASE new < old
    <3>1. /\ Totals[kind][22 - old] >= Totals[kind][22 - new]
          /\ Totals[kind][22 - old] = Totals[kind][22 - new] =>
               kind = "linearity" /\ old = 8 /\ new = 7
      BY <2>6, GreaterIsMore
    <3>2. Totals[kind][22 - new] <= Totals[kind][22 - old]
      <4>1. PICK r \in 1 .. 22, l \in 1 .. 22 : r = 22 - old /\ l = 22 - new
            /\ r < l
        BY <2>6
      <4>2. Totals[kind][r] \in Nat /\ Totals[kind][l] \in Nat
        BY <4>1, TotalsFall
      <4> QED BY <3>1, <4>1, <4>2
    <3> QED BY <2>1, <2>3, <2>4, <2>6, <3>1, <3>2
  <2>7. CASE new = old
    <3>1. current.total = previous.total
      BY <2>4, <2>7
    <3> QED BY <2>3, <2>7, <3>1
  <2> QED BY <2>5, <2>6, <2>7
<1> QED BY <1>1, <1>2

-----------------------------------------------------------------------------
(* The gain calls of main().                                               *)

(* The calls that main() makes.                                            *)
CallOf(c) == [name |-> c[1], value |-> c[2]]

(* A list of calls of which no two write the same register.                *)
CallsFit(calls) ==
  /\ calls \in Seq((Registers \cup Kinds) \X Nat)
  /\ \A k \in 1 .. Len(calls) : IsCall(calls[k][1], calls[k][2])
  /\ \A i, k \in 1 .. Len(calls) :
       LET T == Control!Transfers(calls[i][1], calls[i][2])
           U == Control!Transfers(calls[k][1], calls[k][2])
       IN  i # k => /\ calls[i][1] # calls[k][1]
                    /\ \A a \in 1 .. Len(T), b \in 1 .. Len(U) :
                         T[a][1] # U[b][1]

(* The gains of an accepted command line.                                  *)
Accepted ==
  /\ linearity_gain \in BOOLEAN /\ sensitivity_gain \in BOOLEAN
  /\ gain.v \in 0 .. 15 /\ gain.m \in 0 .. 15 /\ gain.l \in 0 .. 14
  /\ gain.g \in 0 .. 21 /\ gain.h \in 0 .. 21

(* The checks of main() leave no other gains.                              *)
LEMMA AcceptedGains == LineInv /\ AcceptedInv /\ pc = "accepted" => Accepted
<1> SUFFICES ASSUME LineInv, AcceptedInv, pc = "accepted" PROVE Accepted
  OBVIOUS
<1>1. \A name \in Options!GainNames :
        gain[name] \in Nat /\ gain[name] <= Options!GainMax[name]
  BY DEF LineInv, AcceptedInv
<1> QED BY <1>1 DEF Accepted, LineInv, Options!GainNames, Options!GainMax

(* The one transfer of the gain of a stage.                                *)
LEMMA StageRegister ==
  ASSUME NEW name \in Control!Stages, NEW value
  PROVE  LET T == Control!Transfers(name, value)
         IN  Len(T) = 1 /\ T[1][1] = name
         /\ T[1][2] = Control!AtMost(value, Control!Limit[name])
<1>1. PICK v : v = Control!AtMost(value, Control!Limit[name])
  OBVIOUS
<1>2. Control!Transfers(name, value) = << <<name, v>> >>
  BY <1>1, StageTransfer
<1> QED BY <1>1, <1>2

(* The three calls for the stages write different registers.               *)
LEMMA StageCallsFit ==
  ASSUME NEW v \in 0 .. 255, NEW m \in 0 .. 255, NEW l \in 0 .. 255
  PROVE  CallsFit(<< <<"vga", v>>, <<"mixer", m>>, <<"lna", l>> >>)
<1>1. PICK calls : calls = << <<"vga", v>>, <<"mixer", m>>, <<"lna", l>> >>
  OBVIOUS
<1>2. /\ calls \in Seq((Registers \cup Kinds) \X Nat) /\ Len(calls) = 3
      /\ \A k \in 1 .. 3 : IsCall(calls[k][1], calls[k][2])
         /\ calls[k][1] \in Control!Stages
      /\ \A i, k \in 1 .. 3 : i # k => calls[i][1] # calls[k][1]
  BY <1>1 DEF IsCall, Registers, Control!Stages
<1>3. ASSUME NEW i \in 1 .. 3, NEW k \in 1 .. 3, i # k
      PROVE  LET T == Control!Transfers(calls[i][1], calls[i][2])
                 U == Control!Transfers(calls[k][1], calls[k][2])
             IN  \A a \in 1 .. Len(T), b \in 1 .. Len(U) : T[a][1] # U[b][1]
  <2>1. PICK T : T = Control!Transfers(calls[i][1], calls[i][2])
    OBVIOUS
  <2>2. PICK U : U = Control!Transfers(calls[k][1], calls[k][2])
    OBVIOUS
  <2>3. Len(T) = 1 /\ T[1][1] = calls[i][1]
    BY <1>2, <2>1, StageRegister
  <2>4. Len(U) = 1 /\ U[1][1] = calls[k][1]
    BY <1>2, <2>2, StageRegister
  <2>5. \A a \in 1 .. Len(T), b \in 1 .. Len(U) : T[a][1] # U[b][1]
    BY <1>2, <1>3, <2>3, <2>4
  <2> QED BY <2>1, <2>2, <2>5
<1>4. CallsFit(calls)
  BY <1>2, <1>3 DEF CallsFit
<1> QED BY <1>1, <1>4

(* A single composite call.                                                *)
LEMMA OneCallFits ==
  ASSUME NEW kind \in Kinds, NEW value \in 0 .. 255
  PROVE  CallsFit(<< <<kind, value>> >>)
<1>1. PICK calls : calls = << <<kind, value>> >>
  OBVIOUS
<1>2. /\ calls \in Seq((Registers \cup Kinds) \X Nat) /\ Len(calls) = 1
      /\ IsCall(calls[1][1], calls[1][2])
  BY <1>1 DEF IsCall
<1>3. CallsFit(calls)
  BY <1>2 DEF CallsFit
<1> QED BY <1>1, <1>3

(* The calls that main() makes for an accepted command line.               *)
LEMMA GainCallsFit == Accepted => CallsFit(GainCalls)
<1> SUFFICES ASSUME Accepted PROVE CallsFit(GainCalls)
  OBVIOUS
<1>1. CASE ~linearity_gain /\ ~sensitivity_gain
  <2>1. gain.v \in 0 .. 255 /\ gain.m \in 0 .. 255 /\ gain.l \in 0 .. 255
    BY DEF Accepted
  <2> QED BY <1>1, <2>1, StageCallsFit DEF GainCalls
<1>2. CASE linearity_gain
  <2>1. gain.g \in 0 .. 255 /\ "linearity" \in Kinds
    BY DEF Accepted, Kinds
  <2> QED BY <1>2, <2>1, OneCallFits DEF GainCalls
<1>3. CASE ~linearity_gain /\ sensitivity_gain
  <2>1. gain.h \in 0 .. 255 /\ "sensitivity" \in Kinds
    BY DEF Accepted, Kinds
  <2> QED BY <1>3, <2>1, OneCallFits DEF GainCalls
<1> QED BY <1>1, <1>2, <1>3 DEF Accepted

(* The calls that were begun, all of them done but the one that runs.      *)
MadeInv(calls, made) ==
  /\ made \in 0 .. Len(calls)
  /\ gain_calls \in Seq((Registers \cup Kinds) \X Nat)
  /\ Len(gain_calls) = Len(calls) - made
  /\ \A k \in 1 .. Len(gain_calls) : gain_calls[k] = calls[made + k]
  /\ ~gain_failed =>
       /\ call # Control!NoCall => made >= 1 /\ call = CallOf(calls[made])
       /\ \A k \in 1 .. made :
            call # CallOf(calls[k]) => IsSet(calls[k][1], calls[k][2])

(* A call is known by its name and its value.                              *)
LEMMA CallName ==
  ASSUME NEW calls, CallsFit(calls), NEW i \in 1 .. Len(calls)
  PROVE  /\ IsCall(calls[i][1], calls[i][2])
         /\ CallOf(calls[i]) # Control!NoCall
         /\ CallOf(calls[i]).name = calls[i][1]
            /\ CallOf(calls[i]).value = calls[i][2]
         /\ \A k \in 1 .. Len(calls) : i # k
              => CallOf(calls[i]) # CallOf(calls[k])
<1>1. CallOf(calls[i]).name = calls[i][1]
      /\ CallOf(calls[i]).value = calls[i][2]
  BY DEF CallOf
<1>2. IsCall(calls[i][1], calls[i][2])
  BY DEF CallsFit
<1>3. CallOf(calls[i]) # Control!NoCall
  BY <1>1, <1>2 DEF Control!NoCall, IsCall, Registers, Kinds
<1>4. ASSUME NEW k \in 1 .. Len(calls), i # k
      PROVE  CallOf(calls[i]) # CallOf(calls[k])
  <2>1. calls[i][1] # calls[k][1]
    BY <1>4 DEF CallsFit
  <2>2. CallOf(calls[k]).name = calls[k][1]
    BY DEF CallOf
  <2> QED BY <1>1, <2>1, <2>2
<1> QED BY <1>1, <1>2, <1>3, <1>4

(* main() makes the next call.                                             *)
LEMMA NextCall ==
  ASSUME NEW calls, CallsFit(calls), NEW made, MadeInv(calls, made), CallInv,
         gain_calls # <<>>, gain_calls' = Tail(gain_calls),
         gain_failed' = gain_failed,
         Control!Call(Head(gain_calls)[1], Head(gain_calls)[2])
  PROVE  CallInv' /\ MadeInv(calls, made + 1)'
<1>1. calls \in Seq((Registers \cup Kinds) \X Nat) /\ Len(calls) \in Nat
  BY DEF CallsFit
<1>2. /\ gain_calls \in Seq((Registers \cup Kinds) \X Nat)
      /\ Len(gain_calls) \in Nat /\ Len(gain_calls) >= 1
      /\ Head(gain_calls) = gain_calls[1]
  BY DEF MadeInv
<1>3. PICK next \in 1 .. Len(calls) : next = made + 1
      /\ Head(gain_calls) = calls[next]
  BY <1>1, <1>2 DEF MadeInv
<1>4. IsCall(calls[next][1], calls[next][2])
      /\ Control!Call(calls[next][1], calls[next][2])
  BY <1>3, CallName
<1>5. /\ CallInv' /\ device_gain' = device_gain /\ call = Control!NoCall
      /\ call' = CallOf(calls[next])
  BY <1>4, CallBegins DEF CallOf
<1>6. gain_calls' \in Seq((Registers \cup Kinds) \X Nat)
      /\ Len(gain_calls') = Len(gain_calls) - 1
       /\ \A k \in 1 .. Len(gain_calls) - 1 :
            gain_calls'[k] = gain_calls[k + 1]
  BY <1>2, HeadTailProperties
<1>7. Len(gain_calls') = Len(calls) - next
  BY <1>1, <1>2, <1>3, <1>6 DEF MadeInv
<1>8. ASSUME NEW k \in 1 .. Len(gain_calls')
      PROVE  gain_calls'[k] = calls[next + k]
  <2>1. k \in 1 .. Len(gain_calls) - 1 /\ k + 1 \in 1 .. Len(gain_calls)
    BY <1>2, <1>6
  <2>2. gain_calls'[k] = gain_calls[k + 1]
        /\ gain_calls[k + 1] = calls[made + (k + 1)]
    BY <1>6, <2>1 DEF MadeInv
  <2>3. made + (k + 1) = next + k
    BY <1>1, <1>3, <2>1 DEF MadeInv
  <2> QED BY <2>2, <2>3
<1>9. ASSUME ~gain_failed, NEW k \in 1 .. next, call' # CallOf(calls[k])
      PROVE  IsSet(calls[k][1], calls[k][2])'
  <2>1. k \in 1 .. made /\ k \in 1 .. Len(calls)
    BY <1>1, <1>3, <1>5, <1>9 DEF MadeInv
  <2>2. call # CallOf(calls[k])
    BY <1>5, <2>1, CallName
  <2>3. IsSet(calls[k][1], calls[k][2])
    BY <1>9, <2>1, <2>2 DEF MadeInv
  <2> QED BY <1>5, <2>3 DEF IsSet
<1>10. MadeInv(calls, next)'
  BY <1>1, <1>3, <1>5, <1>6, <1>7, <1>8, <1>9 DEF MadeInv
<1> QED BY <1>3, <1>5, <1>10

(* The running call takes a step: what the calls before it set stays.      *)
LEMMA RunningCall ==
  ASSUME NEW calls, CallsFit(calls), NEW made, MadeInv(calls, made), CallInv,
         gain_calls' = gain_calls, Control!CallSteps,
         gain_failed' = (gain_failed \/ Control!CallFails)
  PROVE  CallInv' /\ MadeInv(calls, made)'
<1>0. calls \in Seq((Registers \cup Kinds) \X Nat) /\ Len(calls) \in Nat
  BY DEF CallsFit
<1>1. CallInv'
  BY TransferDoes, CallEnds DEF Control!CallSteps
<1>2. SUFFICES ASSUME ~gain_failed'
      PROVE  /\ call' # Control!NoCall => made >= 1
                /\ call' = CallOf(calls[made])
             /\ \A k \in 1 .. made :
                  call' # CallOf(calls[k]) => IsSet(calls[k][1], calls[k][2])'
  BY <1>1 DEF MadeInv
<1>3. ~gain_failed /\ ~Control!CallFails
  BY <1>2
<1>4. PICK now \in 1 .. Len(calls) : now = made /\ call = CallOf(calls[now])
  <2>1. call # Control!NoCall
    BY <1>3, TransferDoes, CallEnds DEF Control!CallSteps
  <2> QED BY <1>0, <1>3, <2>1 DEF MadeInv
<1>5. CASE Control!Transfer
  <2>1. call' = call
    BY <1>5, TransferDoes
  <2>2. ASSUME NEW k \in 1 .. made, call # CallOf(calls[k])
        PROVE  IsSet(calls[k][1], calls[k][2])'
    <3>1. k \in 1 .. Len(calls) /\ k # now
      BY <1>0, <1>4, <2>2 DEF MadeInv
    <3>2. IsSet(calls[k][1], calls[k][2])
      BY <1>3, <2>2 DEF MadeInv
    <3>3. PICK T : T = Control!Transfers(calls[k][1], calls[k][2])
      OBVIOUS
    <3>4. PICK U : U = Control!Transfers(calls[now][1], calls[now][2])
      OBVIOUS
    <3>5. \A a \in 1 .. Len(T), b \in 1 .. Len(U) : T[a][1] # U[b][1]
      BY <3>1, <3>3, <3>4 DEF CallsFit
    <3>6. call.name = calls[now][1] /\ call.value = calls[now][2]
      BY <1>4, CallName
    <3>7. PICK b \in 1 .. Len(U) : \A r \in Registers :
            r # U[b][1] => device_gain'[r] = device_gain[r]
      BY <1>5, <3>4, <3>6, TransferDoes
    <3>8. \A a \in 1 .. Len(T) : T[a][1] \in Registers
          /\ device_gain[T[a][1]] = T[a][2]
      <4>1. IsTransfers(T)
        BY <3>1, <3>3, CallName, CallTransfers
      <4> QED BY <3>2, <3>3, <4>1 DEF IsTransfers, IsSet
    <3>9. \A a \in 1 .. Len(T) : device_gain'[T[a][1]] = T[a][2]
      BY <3>5, <3>7, <3>8
    <3> QED BY <3>3, <3>9 DEF IsSet
  <2> QED BY <1>3, <2>1, <2>2 DEF MadeInv
<1>6. CASE Control!CallSucceeds
  <2>1. /\ IsSet(call.name, call.value) /\ call' = Control!NoCall
        /\ device_gain' = device_gain
    BY <1>6, SuccessSets, CallEnds
  <2>2. call.name = calls[now][1] /\ call.value = calls[now][2]
    BY <1>4, CallName
  <2>3. ASSUME NEW k \in 1 .. made PROVE IsSet(calls[k][1], calls[k][2])
    <3>1. CASE k = now
      BY <2>1, <2>2, <3>1
    <3>2. CASE k # now
      <4>1. k \in 1 .. Len(calls) /\ now # k
        BY <1>0, <1>4, <2>3, <3>2 DEF MadeInv
      <4>2. CallOf(calls[now]) # CallOf(calls[k])
        BY <4>1, CallName
      <4>3. call # CallOf(calls[k])
        BY <1>4, <4>2
      <4> QED BY <1>3, <2>3, <4>3 DEF MadeInv
    <3> QED BY <3>1, <3>2
  <2>4. \A k \in 1 .. made : IsSet(calls[k][1], calls[k][2])'
    BY <2>1, <2>3 DEF IsSet
  <2> QED BY <2>1, <2>4
<1> QED BY <1>3, <1>5, <1>6 DEF Control!CallSteps

-----------------------------------------------------------------------------
(* The invariant of main().                                                *)

(* main() has the options when it opens the device, and makes no call      *)
(* before it sets the gains.                                               *)
MainInv ==
  /\ main \in {"options", "open", "type", "list", "header", "rate", "gains",
               "set", "failed"}
  /\ main # "options" => client = "airspy_rx"
  /\ main \notin {"options", "failed"} => pc = "accepted"
  /\ gain_failed \in BOOLEAN
  /\ client = "airspy_rx" /\ main \notin {"gains", "set"} =>
       call = Control!NoCall /\ ~gain_failed
  /\ main \in {"gains", "set"} =>
       \E made \in 0 .. Len(GainCalls) : MadeInv(GainCalls, made)
  /\ main = "set" => gain_calls = <<>> /\ call = Control!NoCall

(* What main() has of the sample rate at each point.                       *)
MainRateInv ==
  /\ main \in {"list", "header", "rate", "gains", "set"}
       => sample_type = TypeAsked
  /\ main \in {"header", "rate", "gains", "set"} =>
       list_type = TypeAsked /\ Len(list) = Len(supported_samplerates)
  /\ main \in {"rate", "gains", "set"} =>
       /\ ByIndex => ~(sample_rate_val >= Len(list))
       /\ wav_sample_per_sec = HeaderRate
  /\ main \in {"gains", "set"} =>
       adc_rate = Rates!DeviceRate(Rates!WIndex(sample_rate_val))

(* The inductive invariant.                                                *)
IInv ==
  /\ LineInv /\ AcceptedInv
  /\ RatesInv /\ RequestInv
  /\ CallInv /\ TotalInv
  /\ MainInv /\ MainRateInv

(* What the parts of the invariant need of a step.                         *)
LEMMA StepParts ==
  ASSUME IInv, [Next]_vars
  PROVE  /\ [Options!Next]_optionvars
         /\ [AnyRateCall]_ratevars
         /\ [AnyGainCall]_gainvars
<1>1. CASE client = "airspy_rx" /\ ReadOptions
  BY <1>1 DEF ReadOptions
<1>2. CASE client = "airspy_rx" /\ OpenDevice
  BY <1>2 DEF OpenDevice, AnyRateCall
<1>3. CASE client = "airspy_rx" /\ SetType
  BY <1>3 DEF SetType, AnyRateCall
<1>4. CASE client = "airspy_rx" /\ GetList
  BY <1>4 DEF GetList, AnyRateCall
<1>5. CASE client = "airspy_rx" /\ ChooseHeaderRate
  BY <1>5 DEF ChooseHeaderRate
<1>6. CASE client = "airspy_rx" /\ SetRate
  <2>1. sample_rate_val \in Nat
    BY DEF IInv, LineInv
  <2> QED BY <1>6, <2>1 DEF SetRate, AnyRateCall
<1>7. CASE client = "airspy_rx" /\ CallGain
  <2>1. PICK made \in 0 .. Len(GainCalls) : MadeInv(GainCalls, made)
    BY <1>7 DEF CallGain, IInv, MainInv
  <2>2. CallsFit(GainCalls)
    BY <1>7, AcceptedGains, GainCallsFit DEF CallGain, IInv, MainInv
  <2>3. PICK calls : calls = GainCalls
    OBVIOUS
  <2>4. gain_calls # <<>> /\ Len(calls) \in Nat /\ Len(gain_calls) \in Nat
        /\ Len(gain_calls) >= 1
        /\ Head(gain_calls) = gain_calls[1]
    BY <1>7, <2>1, <2>2, <2>3 DEF CallGain, MadeInv, CallsFit
  <2>5. PICK next \in 1 .. Len(calls) : Head(gain_calls) = calls[next]
    <3>1. made + 1 \in 1 .. Len(calls) /\ gain_calls[1] = calls[made + 1]
      BY <2>1, <2>3, <2>4 DEF MadeInv
    <3> QED BY <2>4, <3>1
  <2>6. IsCall(Head(gain_calls)[1], Head(gain_calls)[2])
    BY <2>2, <2>3, <2>5, CallName
  <2> QED BY <1>7, <2>6 DEF CallGain, AnyGainCall
<1>8. CASE client = "airspy_rx" /\ GainCallRuns
  BY <1>8 DEF GainCallRuns, AnyGainCall
<1>9. CASE client = "airspy_rx" /\ (GainsSet \/ Finished)
  BY <1>9 DEF GainsSet, Finished, vars
<1>10. CASE client = "rates" /\ Rates!Next
            /\ UNCHANGED <<optionvars, gainvars, client, mainvars>>
  <2>1. Values \subseteq Nat
    BY SettingsAssumption DEF SettingsAssumption, Rates!RatesAssumption
  <2> QED BY <1>10, <2>1 DEF Rates!Next, AnyRateCall
<1>11. CASE client = "gains" /\ Control!Next
            /\ UNCHANGED <<optionvars, ratevars, client, mainvars>>
  <2>1. GainValues \subseteq 0 .. 255
    BY SettingsAssumption DEF SettingsAssumption, Control!Byte
  <2>2. \A name \in Control!Stages \cup Control!Composites,
        value \in GainValues : IsCall(name, value)
    BY <2>1, NamesDiffer, KindsOfTable DEF IsCall
  <2>3. \A name \in Control!Agcs, value \in {0, 1} : IsCall(name, value)
    BY NamesDiffer DEF IsCall
  <2> QED BY <1>11, <2>2, <2>3 DEF Control!Next, AnyGainCall
<1>12. CASE UNCHANGED vars
  BY <1>12 DEF vars
<1> QED
  BY <1>1, <1>2, <1>3, <1>4, <1>5, <1>6, <1>7, <1>8, <1>9, <1>10, <1>11, <1>12
     DEF Next, AirspyRx

(* The invariant holds at first.                                           *)
LEMMA InvInit == Init => IInv
<1> SUFFICES ASSUME Init PROVE MainInv /\ MainRateInv
  BY LineInit, RatesInit, CallInit, TotalInit DEF IInv
<1>1. /\ main = "options" /\ ~gain_failed /\ gain_failed \in BOOLEAN
      /\ call = Control!NoCall
  BY Zenon DEF Init, Control!Init
<1> QED BY <1>1 DEF MainInv, MainRateInv

(* The parts about options, rates and gains, which other clients share.    *)
LEMMA PartsNext ==
  IInv /\ [Next]_vars => /\ LineInv' /\ AcceptedInv' /\ RatesInv'
  /\ RequestInv'
                         /\ CallInv' /\ TotalInv'
<1> SUFFICES ASSUME IInv, [Next]_vars
             PROVE  /\ LineInv' /\ AcceptedInv' /\ RatesInv' /\ RequestInv'
                    /\ CallInv' /\ TotalInv'
  OBVIOUS
<1> QED BY StepParts, LineNext, RatesNext, TotalNext DEF IInv

(* What main() computes from options that stay.                            *)
LEMMA OptionsKept ==
  ASSUME UNCHANGED optionvars
  PROVE  /\ pc' = pc /\ sample_rate_val' = sample_rate_val
         /\ TypeAsked' = TypeAsked /\ ByIndex' = ByIndex
            /\ GainCalls' = GainCalls
  BY DEF optionvars, TypeAsked, ByIndex, GainCalls

(* What main() set stays when nothing is called.                           *)
LEMMA MadeKept ==
  ASSUME NEW calls, NEW made, UNCHANGED <<gainvars, gain_calls, gain_failed>>
  PROVE  MadeInv(calls, made)' = MadeInv(calls, made)
  BY DEF MadeInv, IsSet, gainvars

(* main(), step by step: where it is and what it has called.               *)
LEMMA MainNext == IInv /\ [Next]_vars => MainInv'
<1> SUFFICES ASSUME IInv, [Next]_vars PROVE MainInv'
  OBVIOUS
<1>0. MainInv /\ pc \in {"options", "accepted", "rejected"}
      /\ pc' \in {"options", "accepted", "rejected"}
  BY PartsNext DEF IInv, LineInv
<1>1. CASE client = "airspy_rx" /\ ReadOptions
  <2>1. /\ main = "options" /\ client' = client /\ gain_failed' = gain_failed
        /\ call' = call
    BY <1>1 DEF ReadOptions, gainvars
  <2>2. /\ main' \in {"options", "open", "failed"}
        /\ main' = "open" => pc' = "accepted"
    <3>1. main' = CASE pc' = "accepted" -> "open"
                    [] pc' = "rejected" -> "failed"
                    [] OTHER -> "options"
      BY <1>1 DEF ReadOptions
    <3>2. CASE pc' = "accepted"
      <4>1. pc' # "rejected"
        BY <3>2
      <4> QED BY <3>1, <3>2, <4>1, Zenon
    <3>3. CASE pc' = "rejected"
      <4>1. pc' # "accepted"
        BY <3>3
      <4> QED BY <3>1, <3>3, <4>1, Zenon
    <3>4. CASE pc' # "accepted" /\ pc' # "rejected"
      BY <3>1, <3>4, Zenon
    <3> QED BY <3>2, <3>3, <3>4
  <2> QED BY <1>0, <1>1, <2>1, <2>2 DEF MainInv
<1>2. CASE client = "airspy_rx" /\ (OpenDevice \/ SetType \/ GetList
           \/ ChooseHeaderRate)
  <2>1. /\ UNCHANGED optionvars /\ UNCHANGED gainvars
        /\ client' = client /\ gain_failed' = gain_failed
        /\ main \in {"open", "type", "list", "header"}
        /\ main' \in {"type", "list", "header", "rate", "failed"}
    BY <1>2 DEF OpenDevice, SetType, GetList, ChooseHeaderRate
  <2>2. pc' = pc /\ call' = call
    BY <2>1 DEF optionvars, gainvars
  <2> QED BY <1>0, <1>2, <2>1, <2>2 DEF MainInv
<1>3. CASE client = "airspy_rx" /\ SetRate
  <2>1. /\ UNCHANGED optionvars /\ UNCHANGED gainvars
        /\ client' = client /\ gain_failed' = gain_failed /\ main = "rate"
        /\ \/ main' = "gains" /\ gain_calls' = GainCalls
           \/ main' = "failed"
    BY <1>3 DEF SetRate
  <2>2. pc' = pc /\ call' = call /\ pc = "accepted" /\ GainCalls' = GainCalls
        /\ call = Control!NoCall /\ ~gain_failed
    BY <1>0, <1>3, <2>1, OptionsKept DEF gainvars, MainInv
  <2>3. CallsFit(GainCalls)
    BY <2>2, AcceptedGains, GainCallsFit DEF IInv
  <2>4. main' = "gains" => MadeInv(GainCalls, 0)' /\ 0 \in 0 .. Len(GainCalls)
    BY <2>1, <2>2, <2>3 DEF MadeInv, CallsFit
  <2> QED BY <1>0, <1>3, <2>1, <2>2, <2>4 DEF MainInv
<1>4. CASE client = "airspy_rx" /\ CallGain
  <2>1. /\ UNCHANGED optionvars /\ client' = client
           /\ gain_failed' = gain_failed
        /\ main = "gains" /\ main' = main
        /\ gain_calls # <<>> /\ gain_calls' = Tail(gain_calls)
        /\ Control!Call(Head(gain_calls)[1], Head(gain_calls)[2])
    BY <1>4 DEF CallGain
  <2>2. pc' = pc /\ pc = "accepted" /\ GainCalls' = GainCalls
    BY <1>0, <2>1, OptionsKept DEF MainInv
  <2>3. CallsFit(GainCalls)
    BY <2>2, AcceptedGains, GainCallsFit DEF IInv
  <2>4. PICK made \in 0 .. Len(GainCalls) : MadeInv(GainCalls, made)
    BY <1>0, <2>1 DEF MainInv
  <2>5. PICK calls : calls = GainCalls
    OBVIOUS
  <2>6. MadeInv(calls, made + 1)'
    BY <2>1, <2>3, <2>4, <2>5, NextCall DEF IInv
  <2>7. made + 1 \in 0 .. Len(GainCalls)
    BY <2>5, <2>6 DEF MadeInv
  <2> QED BY <1>0, <1>4, <2>1, <2>2, <2>5, <2>6, <2>7 DEF MainInv, MadeInv
<1>5. CASE client = "airspy_rx" /\ GainCallRuns
  <2>1. /\ UNCHANGED optionvars /\ client' = client /\ gain_calls' = gain_calls
        /\ main = "gains" /\ main' = main /\ Control!CallSteps
        /\ gain_failed' = (gain_failed \/ Control!CallFails)
    BY <1>5 DEF GainCallRuns
  <2>2. pc' = pc /\ pc = "accepted" /\ GainCalls' = GainCalls
    BY <1>0, <2>1, OptionsKept DEF MainInv
  <2>3. CallsFit(GainCalls)
    BY <2>2, AcceptedGains, GainCallsFit DEF IInv
  <2>4. PICK made \in 0 .. Len(GainCalls) : MadeInv(GainCalls, made)
    BY <1>0, <2>1 DEF MainInv
  <2>5. PICK calls : calls = GainCalls
    OBVIOUS
  <2>6. MadeInv(calls, made)'
    BY <2>1, <2>3, <2>4, <2>5, RunningCall DEF IInv
  <2>7. gain_failed' \in BOOLEAN
    BY <1>0, <2>1, Zenon DEF MainInv
  <2> QED BY <1>0, <1>5, <2>1, <2>2, <2>4, <2>5, <2>6, <2>7
             DEF MainInv, MadeInv
<1>6. CASE client = "airspy_rx" /\ GainsSet
  <2>1. /\ UNCHANGED optionvars
           /\ UNCHANGED <<gainvars, gain_calls, gain_failed>>
        /\ client' = client /\ main = "gains" /\ main' = "set"
        /\ gain_calls = <<>> /\ call.name = "none"
    BY <1>6 DEF GainsSet
  <2>2. pc' = pc /\ pc = "accepted" /\ GainCalls' = GainCalls
    BY <1>0, <2>1, OptionsKept DEF MainInv
  <2>3. call = Control!NoCall /\ call' = call
    <3>1. call # Control!NoCall => call.name # "none"
      BY DEF IInv, CallInv, IsCall, Registers, Kinds
    <3> QED BY <2>1, <3>1 DEF gainvars
  <2>4. PICK made \in 0 .. Len(GainCalls) : MadeInv(GainCalls, made)
    BY <1>0, <2>1 DEF MainInv
  <2>5. PICK calls : calls = GainCalls
    OBVIOUS
  <2>6. MadeInv(calls, made)'
    BY <2>1, <2>4, <2>5, MadeKept
  <2> QED BY <1>0, <1>6, <2>1, <2>2, <2>3, <2>4, <2>5, <2>6
             DEF MainInv, MadeInv
<1>7. ASSUME UNCHANGED <<optionvars, client, mainvars>>, main \notin {"gains",
             "set"},
             client # "airspy_rx" \/ call' = call
      PROVE  MainInv'
  BY <1>0, <1>7 DEF MainInv, optionvars, mainvars
<1>8. ASSUME UNCHANGED vars PROVE MainInv'
  <2>1. /\ UNCHANGED optionvars
           /\ UNCHANGED <<gainvars, gain_calls, gain_failed>>
        /\ client' = client /\ main' = main /\ call' = call
           /\ gain_calls' = gain_calls
        /\ gain_failed' = gain_failed
    BY <1>8 DEF vars, mainvars, gainvars
  <2>2. pc' = pc /\ GainCalls' = GainCalls
    BY <2>1, OptionsKept
  <2>3. PICK calls : calls = GainCalls
    OBVIOUS
  <2>4. \A made : MadeInv(calls, made) => MadeInv(calls, made)'
    BY <2>1, MadeKept
  <2> QED BY <1>0, <2>1, <2>2, <2>3, <2>4 DEF MainInv
<1>9. CASE client # "airspy_rx"
  <2>1. main = "options"
    BY <1>0, <1>9 DEF MainInv
  <2>2. \/ UNCHANGED vars
        \/ UNCHANGED <<optionvars, client, mainvars>>
    BY <1>9 DEF Next
  <2> QED BY <1>7, <1>8, <1>9, <2>1, <2>2
<1> QED
  BY <1>1, <1>2, <1>3, <1>4, <1>5, <1>6, <1>8, <1>9
     DEF Next, AirspyRx, Finished

-----------------------------------------------------------------------------
(* The rate of the header, and the gains that were asked for.              *)

(* main(), step by step: what it has of the sample rate.                   *)
LEMMA MainRateNext == IInv /\ [Next]_vars => MainRateInv'
<1> SUFFICES ASSUME IInv, [Next]_vars PROVE MainRateInv'
  OBVIOUS
<1>0. MainInv /\ MainRateInv
  BY DEF IInv
<1>1. CASE client = "airspy_rx" /\ (ReadOptions \/ OpenDevice)
  <2>1. main' \in {"options", "open", "type", "failed"}
    <3>1. CASE ReadOptions
      <4>1. main' \in {"options", "open", "failed"}
        BY <3>1, Zenon DEF ReadOptions
      <4> QED BY <4>1
    <3>2. CASE OpenDevice
      BY <3>2 DEF OpenDevice
    <3> QED BY <1>1, <3>1, <3>2
  <2> QED BY <2>1 DEF MainRateInv
<1>2. CASE client = "airspy_rx" /\ SetType
  <2>1. UNCHANGED optionvars /\ main' = "list" /\ sample_type' = TypeAsked
    BY <1>2 DEF SetType
  <2> QED BY <2>1, OptionsKept DEF MainRateInv
<1>3. CASE client = "airspy_rx" /\ GetList
  <2>1. /\ UNCHANGED optionvars /\ main = "list" /\ main' = "header"
        /\ sample_type' = sample_type /\ list_type' = sample_type
        /\ supported_samplerates' = supported_samplerates
        /\ Len(list') = Len(supported_samplerates)
    BY <1>3 DEF GetList, Rates!GetSamplerates
  <2> QED BY <1>0, <2>1, OptionsKept DEF MainRateInv
<1>4. CASE client = "airspy_rx" /\ ChooseHeaderRate
  <2>1. /\ UNCHANGED optionvars /\ UNCHANGED ratevars /\ main = "header"
        /\ \/ main' = "failed"
           \/ /\ main' = "rate" /\ wav_sample_per_sec' = HeaderRate
              /\ ~(ByIndex /\ sample_rate_val >= Len(list))
    BY <1>4 DEF ChooseHeaderRate
  <2>2. /\ sample_type' = sample_type /\ list_type' = list_type /\ list' = list
        /\ supported_samplerates' = supported_samplerates
        /\ HeaderRate' = HeaderRate
    BY <2>1, OptionsKept DEF ratevars, HeaderRate
  <2> QED BY <1>0, <2>1, <2>2, OptionsKept DEF MainRateInv
<1>5. CASE client = "airspy_rx" /\ SetRate
  <2>1. /\ UNCHANGED optionvars /\ main = "rate"
        /\ wav_sample_per_sec' = wav_sample_per_sec
        /\ \/ main' = "failed"
           \/ main' = "gains" /\ Rates!SetSamplerate(sample_rate_val)
    BY <1>5 DEF SetRate
  <2>2. CASE main' = "failed"
    BY <2>2 DEF MainRateInv
  <2>3. CASE main' = "gains" /\ Rates!SetSamplerate(sample_rate_val)
    <3>1. /\ sample_type' = sample_type /\ list_type' = list_type
             /\ list' = list
          /\ supported_samplerates' = supported_samplerates
             /\ firmware' = firmware
          /\ adc_rate' = Rates!DeviceRate(Rates!WIndex(sample_rate_val))
      BY <2>3 DEF Rates!SetSamplerate
    <3>2. sample_rate_val' = sample_rate_val /\ HeaderRate' = HeaderRate
      BY <2>1, <3>1, OptionsKept DEF HeaderRate
    <3>3. adc_rate' = (Rates!DeviceRate(Rates!WIndex(sample_rate_val)))'
      BY <3>1, <3>2 DEF Rates!DeviceRate, Rates!WIndex, Rates!Places
    <3> QED BY <1>0, <2>1, <2>3, <3>1, <3>2, <3>3, OptionsKept DEF MainRateInv
  <2> QED BY <2>1, <2>2, <2>3
<1>6. ASSUME UNCHANGED optionvars, UNCHANGED ratevars,
             wav_sample_per_sec' = wav_sample_per_sec,
             main' = main \/ (main = "gains" /\ main' = "set")
      PROVE  MainRateInv'
  <2>1. /\ sample_type' = sample_type /\ list_type' = list_type /\ list' = list
        /\ supported_samplerates' = supported_samplerates
           /\ firmware' = firmware
        /\ adc_rate' = adc_rate /\ UNCHANGED optionvars
        /\ wav_sample_per_sec' = wav_sample_per_sec
    BY <1>6 DEF ratevars
  <2>2. sample_rate_val' = sample_rate_val /\ HeaderRate' = HeaderRate
    BY <2>1, OptionsKept DEF HeaderRate
  <2>3. (Rates!DeviceRate(Rates!WIndex(sample_rate_val)))'
          = Rates!DeviceRate(Rates!WIndex(sample_rate_val))
    BY <2>1, <2>2 DEF Rates!DeviceRate, Rates!WIndex, Rates!Places
  <2> QED BY <1>0, <1>6, <2>1, <2>2, <2>3, OptionsKept DEF MainRateInv
<1>7. CASE client = "airspy_rx" /\ (CallGain \/ GainCallRuns \/ GainsSet
           \/ Finished)
  <2>1. UNCHANGED optionvars /\ UNCHANGED ratevars
        /\ wav_sample_per_sec' = wav_sample_per_sec
    BY <1>7 DEF CallGain, GainCallRuns, GainsSet, Finished, vars, mainvars
  <2>2. main' = main \/ (main = "gains" /\ main' = "set")
    BY <1>7 DEF CallGain, GainCallRuns, GainsSet, Finished, vars, mainvars
  <2> QED BY <1>6, <2>1, <2>2
<1>8. CASE UNCHANGED vars
  <2>1. UNCHANGED optionvars /\ UNCHANGED ratevars
        /\ wav_sample_per_sec' = wav_sample_per_sec /\ main' = main
    BY <1>8 DEF vars, mainvars
  <2> QED BY <1>6, <2>1
<1>9. CASE client # "airspy_rx"
  <2>1. main = "options"
    BY <1>0, <1>9 DEF MainInv
  <2>2. main' = main
    BY <1>9 DEF Next, vars, mainvars
  <2> QED BY <2>1, <2>2 DEF MainRateInv
<1> QED
  BY <1>1, <1>2, <1>3, <1>4, <1>5, <1>7, <1>8, <1>9 DEF Next, AirspyRx

(* HeaderRateIsDeviceRate for one state.                                   *)
LEMMA HeaderRateFits == IInv => HeaderRateIsDeviceRate
<1> SUFFICES ASSUME IInv, main \in {"gains", "set"},
                    firmware = supported_samplerates,
                    Expressible
             PROVE  adc_rate = Rates!AdcRate(wav_sample_per_sec, TypeAsked)
  BY DEF HeaderRateIsDeviceRate
<1>1. /\ firmware \in FirmwareLists /\ ShowsFirmware(list, list_type)
      /\ list_type = TypeAsked /\ Len(list) = Len(firmware)
      /\ sample_type = TypeAsked /\ TypeAsked \in {"IQ", "REAL"}
      /\ wav_sample_per_sec = HeaderRate
      /\ adc_rate = Rates!DeviceRate(Rates!WIndex(sample_rate_val))
      /\ sample_rate_val \in Nat
      /\ ByIndex => ~(sample_rate_val >= Len(list))
  BY DEF IInv, RatesInv, MainRateInv, TypeAsked, LineInv
<1>2. /\ Len(firmware) \in Nat
         /\ \A i \in 1 .. Len(firmware) : firmware[i] \in Nat
      /\ MIN_SAMPLERATE_BY_VALUE \in Nat
         /\ DOMAIN firmware = 1 .. Len(firmware)
  BY <1>1, ListFacts
<1>3. CASE ByIndex
  <2>1. sample_rate_val \in 0 .. Len(firmware) - 1
    BY <1>1, <1>2, <1>3
  <2>2. PICK place \in 1 .. Len(firmware) : place = sample_rate_val + 1
    BY <1>2, <2>1
  <2>3. adc_rate = firmware[place] * 2 /\ firmware[place] \in Nat
    BY <1>1, <1>2, <2>1, <2>2, IndexIsSent
  <2>4. list[place] =
          IF TypeAsked = "IQ" THEN firmware[place] ELSE firmware[place] * 2
    BY <1>1 DEF ShowsFirmware
  <2>5. wav_sample_per_sec = list[place]
    BY <1>1, <1>3, <2>2 DEF HeaderRate
  <2> QED BY <2>3, <2>4, <2>5 DEF Rates!AdcRate
<1>4. ASSUME ~ByIndex, sample_rate_val \in Range(supported_samplerates),
             TypeAsked = "IQ"
      PROVE  adc_rate = Rates!AdcRate(wav_sample_per_sec, TypeAsked)
  <2>1. PICK place \in 1 .. Len(firmware) : sample_rate_val = firmware[place]
    BY <1>2, <1>4 DEF Range
  <2>2. adc_rate = sample_rate_val * 2
    BY <1>1, <2>1, ListedIsSent
  <2>3. wav_sample_per_sec = sample_rate_val
    BY <1>1, <1>4 DEF HeaderRate
  <2> QED BY <1>4, <2>2, <2>3 DEF Rates!AdcRate
<1>5. ASSUME ~ByIndex, sample_rate_val \notin Range(supported_samplerates),
             sample_rate_val % 1000 = 0,
             Rates!AdcRate(sample_rate_val, TypeAsked) < 65536 * 1000
      PROVE  adc_rate = Rates!AdcRate(wav_sample_per_sec, TypeAsked)
  <2>1. wav_sample_per_sec = sample_rate_val
    BY <1>1, <1>5 DEF HeaderRate
  <2>2. sample_rate_val > MIN_SAMPLERATE_BY_VALUE
    BY <1>1, <1>2, <1>5 DEF ByIndex
  <2>3. PICK type \in {"IQ", "REAL"} : type = TypeAsked
    BY <1>1
  <2>4. adc_rate = Rates!AdcRate(sample_rate_val, type)
    BY <1>1, <1>5, <2>2, <2>3, ValueIsSent
  <2> QED BY <2>1, <2>3, <2>4
<1> QED BY <1>3, <1>4, <1>5 DEF Expressible

(* GainsAsAsked for one state.                                             *)
LEMMA GainsAsked == IInv => GainsAsAsked
<1> SUFFICES ASSUME IInv, main = "set", ~gain_failed PROVE GainsAsAsked
  BY DEF GainsAsAsked
<1>1. pc = "accepted" /\ gain_calls = <<>> /\ call = Control!NoCall
  BY DEF IInv, MainInv
<1>2. Accepted
  BY <1>1, AcceptedGains DEF IInv
<1>3. CallsFit(GainCalls)
  BY <1>2, GainCallsFit
<1>4. \A k \in 1 .. Len(GainCalls) : IsSet(GainCalls[k][1], GainCalls[k][2])
  <2>1. PICK made \in 0 .. Len(GainCalls) : MadeInv(GainCalls, made)
    BY DEF IInv, MainInv
  <2>2. PICK calls : calls = GainCalls
    OBVIOUS
  <2>3. Len(calls) \in Nat /\ Len(gain_calls) = 0
    BY <1>1, <1>3, <2>2 DEF CallsFit
  <2>4. made = Len(calls)
    BY <2>1, <2>2, <2>3 DEF MadeInv
  <2>5. \A k \in 1 .. Len(calls) : IsSet(calls[k][1], calls[k][2])
    BY <1>1, <1>3, <2>1, <2>2, <2>3, <2>4, CallName DEF MadeInv
  <2> QED BY <2>2, <2>5
<1>5. CASE ~linearity_gain /\ ~sensitivity_gain
  <2>1. PICK calls : calls = GainCalls
    OBVIOUS
  <2>2. calls = << <<"vga", gain.v>>, <<"mixer", gain.m>>, <<"lna", gain.l>> >>
    BY <1>5, <2>1 DEF GainCalls
  <2>3. IsSet("vga", gain.v) /\ IsSet("mixer", gain.m) /\ IsSet("lna", gain.l)
    <3>1. /\ Len(calls) = 3 /\ calls[1][1] = "vga" /\ calls[1][2] = gain.v
          /\ calls[2][1] = "mixer" /\ calls[2][2] = gain.m
          /\ calls[3][1] = "lna" /\ calls[3][2] = gain.l
      BY <2>2
    <3> QED BY <1>4, <2>1, <3>1
  <2>4. ASSUME NEW name \in Control!Stages, NEW value \in 0 .. 15,
               IsSet(name, value), name = "lna" => value <= 14
        PROVE  device_gain[name] = value
    <3>1. Control!AtMost(value, Control!Limit[name]) = value
      BY <2>4 DEF Control!AtMost, Control!Limit, Control!Stages
    <3>2. PICK T : T = Control!Transfers(name, value)
      OBVIOUS
    <3>3. Len(T) = 1 /\ T[1][1] = name /\ T[1][2] = value
      BY <3>1, <3>2, StageRegister
    <3> QED BY <2>4, <3>2, <3>3 DEF IsSet
  <2>5. device_gain["vga"] = gain.v /\ device_gain["mixer"] = gain.m
        /\ device_gain["lna"] = gain.l
    BY <1>2, <2>3, <2>4 DEF Accepted, Control!Stages
  <2> QED BY <1>5, <2>5 DEF GainsAsAsked
<1>6. ASSUME NEW kind \in Kinds, NEW value \in 0 .. 21, IsSet(kind, value)
      PROVE  /\ \A agc \in Control!Agcs : device_gain[agc] = 0
             /\ \A stage \in Control!Stages :
                  device_gain[stage] = Control!Table[kind][stage][22 - value]
  <2>1. PICK row \in 1 .. 22 : row = Control!Row(value) /\ row = 22 - value
    BY RowOfValue
  <2>2. PICK vga \in Nat, mixer \in Nat, lna \in Nat :
          /\ vga = Control!Table[kind].vga[row]
          /\ mixer = Control!Table[kind].mixer[row]
          /\ lna = Control!Table[kind].lna[row]
    BY RowTotal
  <2>3. PICK T : T = << <<"mixer_agc", 0>>, <<"lna_agc", 0>>, <<"vga", vga>>,
                        <<"mixer", mixer>>, <<"lna", lna>> >>
    OBVIOUS
  <2>4. Control!Transfers(kind, value) = T
    BY <2>1, <2>2, <2>3, CompositeTransfers
  <2>5. \A i \in 1 .. Len(T) : device_gain[T[i][1]] = T[i][2]
    BY <1>6, <2>4 DEF IsSet
  <2>6. /\ device_gain["mixer_agc"] = 0 /\ device_gain["lna_agc"] = 0
        /\ device_gain["vga"] = vga /\ device_gain["mixer"] = mixer
        /\ device_gain["lna"] = lna
    BY <2>3, <2>5
  <2> QED BY <2>1, <2>2, <2>6 DEF Control!Stages, Control!Agcs
<1>7. CASE linearity_gain
  <2>1. PICK calls : calls = GainCalls
    OBVIOUS
  <2>2. Len(calls) = 1 /\ calls[1][1] = "linearity" /\ calls[1][2] = gain.g
    BY <1>7, <2>1 DEF GainCalls
  <2>3. IsSet("linearity", gain.g)
    BY <1>4, <2>1, <2>2
  <2> QED BY <1>2, <1>6, <1>7, <2>3 DEF GainsAsAsked, Accepted, Kinds
<1>8. CASE ~linearity_gain /\ sensitivity_gain
  <2>1. PICK calls : calls = GainCalls
    OBVIOUS
  <2>2. Len(calls) = 1 /\ calls[1][1] = "sensitivity" /\ calls[1][2] = gain.h
    BY <1>8, <2>1 DEF GainCalls
  <2>3. IsSet("sensitivity", gain.h)
    BY <1>4, <2>1, <2>2
  <2> QED BY <1>2, <1>6, <1>8, <2>3 DEF GainsAsAsked, Accepted, Kinds
<1> QED BY <1>2, <1>5, <1>7, <1>8 DEF Accepted

(* Every step keeps the invariant.                                         *)
LEMMA InvNext == IInv /\ [Next]_vars => IInv'
  BY PartsNext, MainNext, MainRateNext DEF IInv

(* The invariant holds in every reachable state.                           *)
THEOREM InductiveInvariant == Spec => []IInv
  BY InvInit, InvNext, PTL DEF Spec

(* The WAV format of an accepted command line is that of what              *)
(* rx_callback() writes, whatever the options and their order (main()).    *)
THEOREM FormatIsRight == Spec => []FormatFitsType
<1>1. IInv => FormatFitsType
  BY FormatFits DEF IInv
<1> QED BY <1>1, InductiveInvariant, PTL

(* The limit in bytes is what rx_callback() writes for the samples of -n,  *)
(* for every count that fits in 64 bits.                                   *)
THEOREM LimitIsRight == Spec => []LimitFitsType
<1>1. IInv => LimitFitsType
  BY LimitFits DEF IInv
<1> QED BY <1>1, InductiveInvariant, PTL

(* Whatever list of rates the firmware has, an index or a listed IQ rate   *)
(* sets the rate that the list shows (airspy_set_samplerate()).            *)
THEOREM ListedRateSet == Spec => []ListedRateIsSet
<1>1. IInv => ListedRateIsSet
  BY ListedIsSet DEF IInv
<1> QED BY <1>1, InductiveInvariant, PTL

(* A greater composite gain is no less gain, for any two values after any  *)
(* calls (airspy_set_linearity_gain() and its twin).                       *)
THEOREM MoreIsNoLess == Spec => []MoreGainIsMore
<1>1. IInv => MoreGainIsMore
  BY MoreIsMore DEF IInv
<1> QED BY <1>1, InductiveInvariant, PTL

(* The rate in the WAV header is the rate of the device, for every list of *)
(* the firmware and every argument of -a that can be expressed.            *)
THEOREM HeaderHasDeviceRate == Spec => []HeaderRateIsDeviceRate
  BY HeaderRateFits, InductiveInvariant, PTL

(* When no call fails, the registers hold the gains of the command line:   *)
(* no call undoes what another of main() has set.                          *)
THEOREM GainsAreAsAsked == Spec => []GainsAsAsked
  BY GainsAsked, InductiveInvariant, PTL
=============================================================================
