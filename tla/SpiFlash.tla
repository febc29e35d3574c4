------------------------------ MODULE SpiFlash ------------------------------
(***************************************************************************)
(* airspy_spiflash and the functions of libairspy that it calls: runs of   *)
(* the tool, one after another, on one device.  A run may fail at any      *)
(* transfer, or be killed, and be tried again.                             *)
(*                                                                         *)
(* The flash is external.  Erasing sets all bits of its first part, and    *)
(* writing can only clear bits.  A byte is the set of its bits that are 1. *)
(***************************************************************************)
EXTENDS Integers, Sequences

CONSTANTS
  MaxRuns,        \* bound: runs of the tool
  MAX_LENGTH,     \* bytes of the flash: 0x100000
  EraseSize,      \* bytes that airspy_spiflash_erase() erases: 64 KB
  ChunkSize,      \* bytes of a transfer: 256
  StartAddresses, \* arguments of -a
  Lengths,        \* arguments of -l, and sizes of image files
  Bits, Images    \* bits of a byte; contents of image files, of which a
                  \* file of some length holds the first bytes

FlashAssumption ==
  /\ MaxRuns \in Nat /\ MAX_LENGTH \in Nat \ {0} /\ ChunkSize \in Nat \ {0}
  /\ EraseSize \in ChunkSize .. MAX_LENGTH
  /\ StartAddresses \subseteq Nat /\ Lengths \subseteq Nat
  /\ Bits # {} /\ Images \subseteq Seq(SUBSET Bits)
  /\ \A image \in Images, len \in Lengths : len <= Len(image)

VARIABLES
  flash,     \* the device's
  runs,
  step,      \* of main(): "idle" between runs
  read,      \* -r rather than -w
  address, length,  \* of the next chunk, and of what remains
  data, done,       \* the buffer, and how much of it has been transferred
  command,   \* history: what this run was asked for
  outcome    \* history: how the last run ended

flashvars == <<flash, runs, step, read, address, length, data, done, command,
               outcome>>

NoCommand == [read |-> FALSE, address |-> 0, length |-> 0, image |-> <<>>]

FlashAddresses == 0 .. MAX_LENGTH - 1

Erased == Bits

Init ==
  /\ flash = [a \in FlashAddresses |-> {CHOOSE b \in Bits : TRUE}]
  /\ runs = 0
  /\ step = "idle"
  /\ read = FALSE
  /\ address = 0 /\ length = 0
  /\ data = <<>> /\ done = 0
  /\ command = NoCommand
  /\ outcome = "none"

End(result) ==
  /\ step' = "idle"
  /\ outcome' = result
  /\ address' = 0 /\ length' = 0 /\ data' = <<>> /\ done' = 0

(* The options.  -w takes the length of the file for -l.  Refused are a    *)
(* length of 0 and one that exceeds the flash, whatever the address; both  *)
(* -r and -w, or none; an option that cannot be parsed.                    *)
Start ==
  /\ step = "idle" /\ runs < MaxRuns
  /\ runs' = runs + 1
  /\ read' \in BOOLEAN
  /\ \E a \in StartAddresses, len \in Lengths, image \in Images :
       IF len = 0 \/ len > MAX_LENGTH
         THEN /\ End("refused")
              /\ command' = NoCommand
         ELSE /\ step' = "open" /\ outcome' = "none"
              /\ address' = a /\ length' = len
              /\ data' = IF read' THEN <<>> ELSE SubSeq(image, 1, len)
              /\ command' = [read |-> read', address |-> a, length |-> len,
                             image |-> data']
              /\ done' = 0
  /\ UNCHANGED flash

(* Then reading into the buffer, or erasing.                               *)
Open ==
  /\ step = "open"
  /\ step' = IF read THEN "chunks" ELSE "erase"
  /\ UNCHANGED <<flash, runs, read, address, length, data, done, command,
                 outcome>>

EraseFirst == flash' = [a \in FlashAddresses |-> IF a < EraseSize THEN Erased
                                                 ELSE flash[a]]

(* Mutation of Erase: an erase that fails is ignored.                      *)
EraseUnchecked ==
  /\ step = "erase"
  /\ EraseFirst \/ UNCHANGED flash
  /\ step' = "chunks"
  /\ UNCHANGED <<runs, read, address, length, data, done, command, outcome>>

(* airspy_spiflash_erase(): the first 64 KB, wherever -a points.           *)
Erase ==
  /\ step = "erase"
  /\ EraseFirst
  /\ step' = "chunks"
  /\ UNCHANGED <<runs, read, address, length, data, done, command, outcome>>

XferLen == IF length > ChunkSize THEN ChunkSize ELSE length

(* The buffer has MAX_LENGTH bytes; beyond the file's they are 0.          *)
BufferAt(i) == IF i < Len(data) THEN data[i + 1] ELSE {}

(* The first n bytes of the chunk reach the flash, whose addresses wrap.   *)
Program(n) ==
  flash' = [a \in FlashAddresses |->
              IF \E i \in 0 .. n - 1 : (address + i) % MAX_LENGTH = a
                THEN flash[a] \cap BufferAt(done + ((a - address) % MAX_LENGTH))
                ELSE flash[a]]

(* Mutation of WriteChunk: the last chunk is not cut.                      *)
WriteChunkWhole ==
  /\ step = "chunks" /\ ~read /\ length > 0
  /\ address < MAX_LENGTH
  /\ Program(ChunkSize)
  /\ address' = address + XferLen
  /\ done' = done + XferLen
  /\ length' = length - XferLen
  /\ UNCHANGED <<runs, step, read, data, command, outcome>>

(* airspy_spiflash_write() refuses a chunk that starts beyond the flash.   *)
WriteChunk ==
  /\ step = "chunks" /\ ~read /\ length > 0
  /\ address < MAX_LENGTH
  /\ Program(XferLen)
  /\ address' = address + XferLen
  /\ done' = done + XferLen
  /\ length' = length - XferLen
  /\ UNCHANGED <<runs, step, read, data, command, outcome>>

(* airspy_spiflash_read() takes any address.                               *)
FlashBytes(n) == [i \in 1 .. n |-> flash[(address + i - 1) % MAX_LENGTH]]

(* Mutation of ReadChunk: each chunk is put where the first one was.       *)
ReadChunkInPlace ==
  /\ step = "chunks" /\ read /\ length > 0
  /\ LET chunk == FlashBytes(XferLen)
     IN data' = chunk \o SubSeq(data \o chunk, XferLen + 1, done + XferLen)
  /\ address' = address + XferLen
  /\ done' = done + XferLen
  /\ length' = length - XferLen
  /\ UNCHANGED <<flash, runs, step, read, command, outcome>>

ReadChunk ==
  /\ step = "chunks" /\ read /\ length > 0
  /\ data' = data \o FlashBytes(XferLen)
  /\ address' = address + XferLen
  /\ done' = done + XferLen
  /\ length' = length - XferLen
  /\ UNCHANGED <<flash, runs, step, read, command, outcome>>

(* fwrite() of the whole buffer, airspy_close().  The file that was read   *)
(* is kept in command.image.                                               *)
Finish ==
  /\ step = "chunks" /\ length = 0
  /\ End("success")
  /\ command' = IF read THEN [command EXCEPT !.image = data] ELSE command
  /\ UNCHANGED <<flash, runs, read>>

(* A call fails, or the user kills the tool; a transfer that was under way *)
(* may have reached the flash, in part.                                    *)
Fail ==
  /\ step # "idle"
  /\ End("failure")
  /\ \/ UNCHANGED flash
     \/ step = "erase" /\ EraseFirst
     \/ /\ step = "chunks" /\ ~read /\ length > 0 /\ address < MAX_LENGTH
        /\ \E n \in 1 .. XferLen : Program(n)
  /\ UNCHANGED <<runs, read, command>>

Next ==
  \/ Start \/ Open \/ Erase \/ WriteChunk \/ ReadChunk \/ Finish \/ Fail

-----------------------------------------------------------------------------
(* Properties.                                                             *)

(* A write that succeeds inside what is erased first leaves its image in   *)
(* the flash, whatever runs before it were refused, failed or were killed. *)
WrittenIsThere ==
  outcome = "success" /\ ~command.read
    /\ command.address + command.length <= EraseSize =>
      \A i \in 1 .. command.length :
        flash[command.address + i - 1] = command.image[i]

(* A file that was read is the flash's content from the address on.        *)
ReadIsFlash ==
  outcome = "success" /\ command.read
    /\ command.address + command.length <= MAX_LENGTH =>
      /\ Len(command.image) = command.length
      /\ \A i \in 1 .. command.length :
           flash[command.address + i - 1] = command.image[i]

(* No step changes a byte outside the first 64 KB and the place that the   *)
(* run was asked to write.                                                 *)
OthersAreKept ==
  [][\A a \in FlashAddresses :
       flash'[a] # flash[a] =>
         /\ ~command.read
         /\ \/ a < EraseSize
            \/ a \in command.address .. command.address + command.length - 1]_flashvars
=============================================================================
