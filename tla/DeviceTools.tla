---------------------------- MODULE DeviceTools ----------------------------
(***************************************************************************)
(* The tools that change a device's registers (RegisterTools) and its      *)
(* flash (SpiFlash).  A device is claimed by one program at a time, and no *)
(* tool touches what the other kind changes: it is enough to look at each  *)
(* kind by itself.                                                         *)
(***************************************************************************)
EXTENDS Integers, Sequences

CONSTANTS  \* of RegisterTools and of SpiFlash
  MaxOptions, Bytes, Ports, Pins, R820T_REGISTERS, CONF_R820T_START_REG,
  MsFirst, MsLast,
  MaxRuns, MAX_LENGTH, EraseSize, ChunkSize, StartAddresses, Lengths, Bits,
  Images

VARIABLES
  kind,    \* "registers" or "flash"
  tool, main, result, options_read, number, port, asked_number, asked_port,
  access, registers, printed,
  flash, runs, step, read, address, length, data, done, command, outcome

Registers == INSTANCE RegisterTools
Spi       == INSTANCE SpiFlash

ASSUME ToolsAssumption ==
  Registers!RegistersAssumption /\ Spi!FlashAssumption

rtvars    == <<tool, main, result, options_read, number, port, asked_number,
               asked_port, access, registers, printed>>
flashvars == <<flash, runs, step, read, address, length, data, done, command,
               outcome>>
vars      == <<kind, rtvars, flashvars>>

Init ==
  /\ kind \in {"registers", "flash"}
  /\ Registers!Init /\ (kind = "flash" => tool = "gpio")
  /\ Spi!Init

RegisterStep ==
  /\ kind = "registers" /\ main # "exited"
  /\ Registers!Next
  /\ UNCHANGED <<kind, flashvars>>

FlashStep ==
  /\ kind = "flash"
  /\ Spi!Next
  /\ UNCHANGED <<kind, rtvars>>

Finished ==
  /\ main = "exited" \/ (kind = "flash" /\ step = "idle" /\ runs = MaxRuns)
  /\ UNCHANGED vars

Next == RegisterStep \/ FlashStep \/ Finished

Spec == Init /\ [][Next]_vars

(* A tool that runs goes on: it waits for nothing but the device's answer. *)
FairSpec == Spec /\ WF_vars(RegisterStep)

-----------------------------------------------------------------------------
(* Properties.                                                             *)

(* -w changes the register or the pin that -n and -p named.                *)
NamedIsWritten == Registers!NamedIsWritten

(* A dump, or airspy_r820t -c, that succeeds has done all it was asked for. *)
SuccessIsComplete == Registers!SuccessIsComplete

(* A written image is in the flash, after whatever failed attempts.        *)
WrittenIsThere == Spi!WrittenIsThere

(* A file that was read is what the flash holds.                           *)
ReadIsFlash == Spi!ReadIsFlash

(* Nothing but the first 64 KB and the place of the image changes.         *)
OthersAreKept == Spi!OthersAreKept

(* A register tool ends: no dump of all registers, up to the last number   *)
(* that a byte holds, goes round for ever.                                 *)
ToolEnds == kind = "registers" ~> main = "exited"
=============================================================================
