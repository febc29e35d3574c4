--------------------------- MODULE RegisterTools ---------------------------
(***************************************************************************)
(* airspy_si5351c, airspy_r820t, airspy_gpio and airspy_gpiodir: one run   *)
(* of one of them on a device.  Each goes through its options in order and *)
(* obeys each at once, by one or more control transfers, up to the first   *)
(* that does not succeed.  A transfer that fails may have been performed.  *)
(*                                                                         *)
(* All four address the device by a byte, the number of a register, or the *)
(* port in its upper and the pin in its lower bits.                        *)
(***************************************************************************)
EXTENDS Integers

CONSTANTS
  MaxOptions,            \* bound: options on a command line
  Bytes,                 \* values of a byte: 256
  Ports, Pins,           \* 8 and 32
  R820T_REGISTERS,       \* 32
  CONF_R820T_START_REG,  \* first register that airspy_r820t -c writes: 5
  MsFirst, MsLast        \* registers of the multisynths: 42 and 92

RegistersAssumption ==
  /\ MaxOptions \in Nat
  /\ Bytes \in Nat \ {0} /\ Ports \in Nat \ {0} /\ Pins \in Nat \ {0}
  /\ Ports * Pins = Bytes
  /\ R820T_REGISTERS \in 1 .. Bytes - 1
  /\ CONF_R820T_START_REG \in 0 .. R820T_REGISTERS - 1
  /\ MsFirst \in 0 .. Bytes - 1 /\ MsLast \in MsFirst .. Bytes - 1

VARIABLES
  tool,
  main,          \* "open", "options" or "exited"
  result,        \* "other" before the first option
  options_read,
  number, port,  \* of -n and -p
  asked_number, asked_port,  \* history: the text of the last -n, the last -p
  access,        \* the option that is being obeyed
  registers,     \* of the device
  printed        \* history: what this access has printed

choice == <<number, port, asked_number, asked_port>>
rtvars == <<tool, main, result, options_read, choice, access, registers,
            printed>>

RegisterToolNames == {"si5351c", "r820t"}
PinToolNames      == {"gpio", "gpiodir"}

Addresses == 0 .. Bytes - 1

None     == -1  \* the number's initial value, for which 255 stands
Nothing  == Bytes + 2
NoAccess == [op |-> "none", at |-> 0, first |-> 0, last |-> 0, value |-> 0]

(* A register's content tells apart what it had, 0, 1, and what -c writes. *)
Init ==
  /\ tool \in RegisterToolNames \cup PinToolNames
  /\ main = "open"
  /\ result = "other"
  /\ options_read = 0
  /\ number = None /\ port = None
  /\ asked_number = Nothing /\ asked_port = Nothing
  /\ access = NoAccess
  /\ registers = [a \in Addresses |-> "before"]
  /\ printed = {}

(* The first pass over the options looks for -s only.                      *)
Open ==
  /\ main = "open"
  /\ main' \in {"options", "exited"}
  /\ UNCHANGED <<tool, result, options_read, choice, access, registers,
                 printed>>

-----------------------------------------------------------------------------
(* Options.  One that does not succeed is the last.                        *)

NextOption ==
  /\ main = "options" /\ access = NoAccess
  /\ options_read = 0 \/ result = "success"
  /\ options_read < MaxOptions
  /\ options_read' = options_read + 1
  /\ UNCHANGED <<tool, main, registers>>

Chosen(outcome) ==
  /\ result' = outcome
  /\ UNCHANGED <<access, printed>>

(* A number in or out of a byte's range, or a text that is none.           *)
NotANumber == Bytes + 1
Texts      == -1 .. NotANumber

(* Mutation of SiNumber: the number is parsed and not stored.              *)
SiNumberNotStored ==
  /\ NextOption
  /\ \E text \in Texts :
       /\ asked_number' = text
       /\ Chosen(IF text = NotANumber THEN "error" ELSE "success")
  /\ UNCHANGED <<number, port, asked_port>>

(* airspy_si5351c: the number is cut to a byte.                            *)
SiNumber ==
  /\ NextOption
  /\ \E text \in Texts :
       /\ asked_number' = text
       /\ IF text = NotANumber
            THEN Chosen("error") /\ UNCHANGED number
            ELSE Chosen("success") /\ number' = text % Bytes
  /\ UNCHANGED <<port, asked_port>>

(* airspy_r820t: a number out of range is forgotten.                       *)
R820tNumber ==
  /\ NextOption
  /\ \E text \in Texts :
       /\ asked_number' = text
       /\ IF text \in 0 .. R820T_REGISTERS - 1
            THEN Chosen("success") /\ number' = text
            ELSE Chosen("error") /\ number' = None
  /\ UNCHANGED <<port, asked_port>>

(* The pin tools: out of range is an error, after which nothing is done.   *)
PinNumber ==
  /\ NextOption
  /\ \E text \in Texts :
       /\ asked_number' = text
       /\ IF text \in 0 .. Pins - 1
            THEN Chosen("success") /\ number' = text
            ELSE Chosen("error") /\ UNCHANGED number
  /\ UNCHANGED <<port, asked_port>>

PinPort ==
  /\ NextOption
  /\ \E text \in Texts :
       /\ asked_port' = text
       /\ IF text \in 0 .. Ports - 1
            THEN Chosen("success") /\ port' = text
            ELSE Chosen("error") /\ UNCHANGED port
  /\ UNCHANGED <<number, asked_number>>

(* An option that getopt does not know leaves the result: the -s of the    *)
(* first pass, for all tools but airspy_si5351c, is one.                   *)
Unknown ==
  /\ NextOption
  /\ Chosen(result)
  /\ UNCHANGED choice

SiSerial ==
  /\ NextOption
  /\ Chosen("success") \/ Chosen("error")
  /\ UNCHANGED choice

Access(op, first, last, value) ==
  /\ NextOption
  /\ access' = [op |-> op, at |-> first, first |-> first, last |-> last,
                value |-> value]
  /\ printed' = {}
  /\ UNCHANGED <<result, choice>>

(* port << 5 | pin in 8 bits.  Without -n it is 255, without -p the last   *)
(* port is meant.                                                          *)
PortPin ==
  IF number = None THEN Bytes - 1
  ELSE ((IF port = None THEN Ports - 1 ELSE port) * Pins + number) % Bytes

Address ==
  CASE tool = "si5351c"     -> IF number = None THEN 0 ELSE number
    [] tool = "r820t"       -> IF number = None THEN Bytes - 1 ELSE number
    [] tool \in PinToolNames -> PortPin

(* -w, with a value or with a text that is none.                           *)
Write ==
  \/ \E value \in {"0", "1"} : Access("write", Address, Address, value)
  \/ NextOption /\ Chosen("error") /\ UNCHANGED choice

SiRead ==
  IF number = None THEN Access("read", 0, Bytes - 1, "")
                   ELSE Access("read", Address, Address, "")

R820tRead ==
  IF number = None THEN Access("read", 0, R820T_REGISTERS - 1, "")
                   ELSE Access("read", Address, Address, "")

PinRead ==
  IF port = None THEN Access("read", 0, Bytes - 1, "")
  ELSE IF number = None
    THEN Access("read", port * Pins, port * Pins + Pins - 1, "")
  ELSE Access("read", Address, Address, "")

(* All multisynths; the registers that two of them share are read twice.   *)
SiConfiguration == Access("read", MsFirst, MsLast, "")

R820tConfigure ==
  Access("config", CONF_R820T_START_REG, R820T_REGISTERS - 1, "conf")

Si5351c ==
  /\ tool = "si5351c"
  /\ SiNumber \/ Write \/ SiRead \/ SiConfiguration \/ SiSerial \/ Unknown

R820t ==
  /\ tool = "r820t"
  /\ R820tNumber \/ Write \/ R820tRead \/ R820tConfigure \/ Unknown

PinTool(name) ==
  /\ tool = name
  /\ PinNumber \/ PinPort \/ Write \/ PinRead \/ Unknown

Gpio    == PinTool("gpio")
Gpiodir == PinTool("gpiodir")

-----------------------------------------------------------------------------
(* Obeying an option.                                                      *)

(* Of a control transfer, with a register number or PortPin as its index.  *)
Outcomes == {"success", "error"}

(* Mutation of StopsAt: a dump goes on and reports its last register.      *)
StopsAtEnd(outcome) == access.at = access.last

(* Registers are dumped and configured up to the first error.  A port is   *)
(* dumped to its end whatever happens, and its result is its last pin's.   *)
StopsAt(outcome) ==
  \/ access.at = access.last
  \/ /\ outcome = "error"
     /\ tool \in PinToolNames => access.at % Pins = Pins - 1

(* Mutation of Advance: the register number is a byte and wraps.           *)
AdvanceByte(outcome) ==
  IF outcome = "error" \/ (access.at = access.last /\ access.last # Bytes - 1)
    THEN access' = NoAccess /\ result' = outcome
    ELSE access' = [access EXCEPT !.at = (@ + 1) % Bytes] /\ UNCHANGED result

Advance(outcome) ==
  IF StopsAt(outcome)
    THEN access' = NoAccess /\ result' = outcome
    ELSE access' = [access EXCEPT !.at = @ + 1] /\ UNCHANGED result

(* One register, or one pin: airspy_gpio reads its value and, if that      *)
(* succeeds, its direction; both must succeed.                             *)
ReadOne ==
  /\ access.op = "read"
  /\ \E outcome \in Outcomes :
       /\ Advance(outcome)
       /\ printed' = IF outcome = "success" THEN printed \cup {access.at}
                                            ELSE printed
  /\ UNCHANGED <<tool, main, options_read, choice, registers>>

WriteOne ==
  /\ access.op \in {"write", "config"}
  /\ \E outcome \in Outcomes :
       /\ Advance(outcome)
       /\ \/ registers' = [registers EXCEPT ![access.at] = access.value]
          \/ outcome = "error" /\ UNCHANGED registers
  /\ UNCHANGED <<tool, main, options_read, choice, printed>>

(* airspy_close(), and 0 whatever the result was.                          *)
Exit ==
  /\ main = "options" /\ access = NoAccess
  /\ main' = "exited"
  /\ UNCHANGED <<tool, result, options_read, choice, access, registers,
                 printed>>

Next ==
  \/ Open
  \/ Si5351c \/ R820t \/ Gpio \/ Gpiodir
  \/ ReadOne \/ WriteOne \/ Exit

-----------------------------------------------------------------------------
(* Properties.                                                             *)

(* The register or pin that -w changes is the one that the text of the     *)
(* last -n, and for pins that of the last -p, gave, if there was one; a    *)
(* text that gives none changes nothing.  Only airspy_si5351c cuts numbers *)
(* beyond a byte and writes another register than it was told to.          *)
NamedIsWritten ==
  [][\A a \in Addresses :
       registers'[a] # registers[a] /\ access.op = "write" /\ asked_number # Nothing =>
         IF tool \in RegisterToolNames
           THEN a = asked_number \/ (tool = "si5351c" /\ asked_number \notin Addresses)
           ELSE /\ a % Pins = asked_number
                /\ asked_port # Nothing => a \div Pins = asked_port]_rtvars

(* What succeeds is complete: a read has printed all the registers it was  *)
(* asked for, airspy_r820t -c has written all of its own.  (Of ports only  *)
(* the last pin tells whether the read succeeded.)                         *)
SuccessIsComplete ==
  [][access # NoAccess /\ access' = NoAccess /\ result' = "success" =>
       \A a \in access.first .. access.last :
         CASE access.op = "config" -> registers'[a] = access.value
           [] access.op = "read" ->
                \/ a \in printed'
                \/ tool \in PinToolNames /\ a % Pins # Pins - 1
           [] OTHER -> TRUE]_rtvars
=============================================================================
