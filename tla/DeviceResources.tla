-------------------------- MODULE DeviceResources --------------------------
(***************************************************************************)
(* What a libairspy device holds: the libusb context, the handle and the   *)
(* claimed interface that airspy_open_device() acquires while it goes      *)
(* through the bus, and the memory that open, airspy_set_packing() and     *)
(* airspy_set_conversion_filter_*() allocate and airspy_close() frees.     *)
(* Each step may fail.                                                     *)
(*                                                                         *)
(* Memory is a pool of blocks.  ptr is what the fields of the device point *)
(* to, live the blocks that are allocated; a live block that no field      *)
(* points to is lost.                                                      *)
(***************************************************************************)
EXTENDS Integers, Sequences, FiniteSets, SequencesExt, FiniteSetsExt

CONSTANTS
  Bus,               \* the USB devices, in the order of the list
  RAW_BUFFER_COUNT, transfer_count,
  Pool               \* bound: blocks of memory, a set of numbers

ASSUME ResourcesAssumption ==
  /\ Bus \in Seq([airspy : BOOLEAN, serial : Nat])
  /\ RAW_BUFFER_COUNT \in Nat \ {0} /\ transfer_count \in Nat \ {0}
  /\ Pool \subseteq Nat \ {0}

VARIABLES
  pc,
  serial_number,    \* the serial number asked for, 0 for any
  i,                \* the device of the bus that is looked at
  opened, claimed,  \* devices of which this process has the handle, interface
  usb_device,       \* device->usb_device, 0 for NULL
  usb_context,
  ptr, live,
  size,             \* the packing for which each block was allocated
  todo,             \* what allocate_transfers() has still to allocate
  packing_enabled,
  streaming,
  starved           \* history: memory ran out where nothing is freed

usb    == <<i, opened, claimed, usb_device, usb_context>>
memory == <<ptr, live, size, todo, starved>>
vars   == <<pc, serial_number, usb, memory, packing_enabled, streaming>>

NULL == 0

QueueSlots == {<<"queue", q>> : q \in 1 .. RAW_BUFFER_COUNT}
Structs    == {<<"transfer", t>> : t \in 1 .. transfer_count}
UsbBuffers == {<<"buffer", t>> : t \in 1 .. transfer_count}
Array      == <<"transfers", 0>>
Output     == <<"output_buffer", 0>>
Unpacked   == <<"unpacked_samples", 0>>
Cnv        == <<"cnv", 0>>  \* either converter
Rates      == <<"supported_samplerates", 0>>

TransferFields == QueueSlots \cup Structs \cup UsbBuffers
                  \cup {Array, Output, Unpacked}
Fields         == TransferFields \cup {Cnv, Rates}

Used(fields) == {ptr[f] : f \in fields} \ {NULL}

(* The order of allocate_transfers().                                      *)
Allocations(packing) ==
  [q \in 1 .. RAW_BUFFER_COUNT |-> <<"queue", q>>]
  \o <<Output>> \o (IF packing THEN <<Unpacked>> ELSE <<>>) \o <<Array>>
  \o [k \in 1 .. 2 * transfer_count |->
        <<IF k % 2 = 1 THEN "transfer" ELSE "buffer", (k + 1) \div 2>>]

Init ==
  /\ pc = "open"
  /\ serial_number \in {0} \cup {Bus[d].serial : d \in DOMAIN Bus}
  /\ i = 0
  /\ opened = {} /\ claimed = {}
  /\ usb_device = NULL
  /\ usb_context = FALSE
  /\ ptr = [f \in Fields |-> NULL]
  /\ live = {}
  /\ size = [b \in Pool |-> FALSE]
  /\ todo = <<>>
  /\ packing_enabled = FALSE
  /\ streaming = FALSE
  /\ starved = FALSE

Goto(from, to) == pc = from /\ pc' = to

(* malloc() into a field; another block that the field points to is lost.  *)
Allocate(field) ==
  \E b \in Pool \ live :
    /\ b = Min(Pool \ live)
    /\ ptr' = [ptr EXCEPT ![field] = b]
    /\ live' = live \cup {b}
    /\ size' = [size EXCEPT ![b] = packing_enabled]

-----------------------------------------------------------------------------
(* airspy_open_device()                                                    *)

(* libusb_init() may fail, and so may the list of devices.                 *)
InitContext ==
  /\ \/ Goto("open", "closed") /\ UNCHANGED <<i, usb_context>>
     \/ Goto("open", "look") /\ i' = 1 /\ usb_context' = TRUE
     \/ Goto("open", "not_found") /\ usb_context' = TRUE /\ UNCHANGED i
  /\ UNCHANGED <<serial_number, opened, claimed, usb_device, memory,
                 packing_enabled, streaming>>

Candidate(d) ==
  Bus[d].airspy /\ (serial_number # 0 => Bus[d].serial # 0)

(* A device that is not looked for, or cannot be opened, is skipped.       *)
Look ==
  /\ pc = "look"
  /\ \/ /\ i > Len(Bus)
        /\ pc' = "not_found"
        /\ UNCHANGED <<i, opened, usb_device>>
     \/ /\ i <= Len(Bus)
        /\ i' = i + 1
        /\ UNCHANGED <<pc, opened, usb_device>>
     \/ /\ i <= Len(Bus) /\ Candidate(i)
        /\ pc' = IF serial_number = 0 THEN "configure" ELSE "serial"
        /\ opened' = opened \cup {i}
        /\ usb_device' = i
        /\ UNCHANGED i
  /\ UNCHANGED <<serial_number, claimed, usb_context, memory, packing_enabled,
                 streaming>>

(* Mutation of Skip: the handle is forgotten.                              *)
SkipUnclosed ==
  /\ pc' = "look"
  /\ i' = i + 1
  /\ usb_device' = NULL
  /\ UNCHANGED <<opened, claimed>>

(* The handle is closed and the next device looked at.                     *)
Skip ==
  /\ pc' = "look"
  /\ i' = i + 1
  /\ opened' = opened \ {usb_device}
  /\ usb_device' = NULL
  /\ UNCHANGED claimed

(* The serial number is read (or not), and compared.                       *)
CompareSerial ==
  /\ pc = "serial"
  /\ \/ Skip
     \/ /\ Bus[i].serial = serial_number
        /\ pc' = "configure"
        /\ UNCHANGED <<i, opened, claimed, usb_device>>
  /\ UNCHANGED <<serial_number, usb_context, memory, packing_enabled,
                 streaming>>

(* libusb_set_configuration() and libusb_claim_interface().                *)
Claim ==
  /\ \/ pc = "configure" /\ Skip
     \/ Goto("configure", "claim") /\ UNCHANGED <<i, opened, claimed, usb_device>>
     \/ pc = "claim" /\ Skip
     \/ /\ Goto("claim", "rates")
        /\ claimed' = claimed \cup {i}
        /\ UNCHANGED <<i, opened, usb_device>>
  /\ UNCHANGED <<serial_number, usb_context, memory, packing_enabled,
                 streaming>>

NotFound ==
  /\ Goto("not_found", "closed")
  /\ usb_context' = FALSE
  /\ UNCHANGED <<serial_number, i, opened, claimed, usb_device, memory,
                 packing_enabled, streaming>>

-----------------------------------------------------------------------------
(* The rest of airspy_open_init(), and what it shares with set_packing.    *)

ReadRates ==
  /\ Goto("rates", "allocate")
  /\ Allocate(Rates)
  /\ todo' = Allocations(FALSE)
  /\ UNCHANGED <<serial_number, usb, starved, packing_enabled, streaming>>

(* allocate_transfers(), one allocation at a time.                         *)
AllocateNext ==
  /\ pc \in {"allocate", "reallocate"}
  /\ todo # <<>>
  /\ Allocate(Head(todo))
  /\ todo' = Tail(todo)
  /\ UNCHANGED <<pc, serial_number, usb, starved, packing_enabled, streaming>>

(* airspy_open_exit()                                                      *)
OpenExit ==
  /\ opened' = opened \ {usb_device}
  /\ claimed' = claimed \ {usb_device}
  /\ usb_device' = NULL
  /\ usb_context' = FALSE
  /\ UNCHANGED i

(* Memory runs out, here or in libusb: the field is NULL.  open() gives up *)
(* the handle and frees the rates, but not the transfers; set_packing()    *)
(* leaves the device as it is.                                             *)
AllocateFails ==
  /\ todo # <<>>
  /\ todo' = <<>>
  /\ \/ /\ Goto("allocate", "closed")
        /\ OpenExit
        /\ live' = live \ {ptr[Rates]}
        /\ ptr' = [ptr EXCEPT ![Rates] = NULL, ![Head(todo)] = NULL]
        /\ starved' = TRUE
     \/ /\ Goto("reallocate", "ready")
        /\ ptr' = [ptr EXCEPT ![Head(todo)] = NULL]
        /\ starved' = (starved \/ ptr[Array] = NULL)
        /\ UNCHANGED <<usb, live>>
  /\ UNCHANGED <<serial_number, size, packing_enabled, streaming>>

AllocateDone ==
  /\ todo = <<>>
  /\ \/ Goto("allocate", "ready") /\ Allocate(Cnv)
     \/ Goto("reallocate", "ready") /\ UNCHANGED <<ptr, live, size>>
  /\ UNCHANGED <<serial_number, usb, todo, starved, packing_enabled, streaming>>

-----------------------------------------------------------------------------
(* A device in use.                                                        *)

(* Everything a stream needs is there.                                     *)
Complete == {Array, Output} \cup QueueSlots \cup Structs \cup UsbBuffers
              \subseteq {f \in Fields : ptr[f] # NULL}

StartStop ==
  /\ pc = "ready"
  /\ Complete \/ streaming
  /\ streaming' = ~streaming
  /\ UNCHANGED <<pc, serial_number, usb, memory, packing_enabled>>

(* Mutation of Exchange: the transfer keeps the buffer.                    *)
ExchangeCopied ==
  /\ streaming
  /\ \E q \in QueueSlots, b \in UsbBuffers :
       ptr' = [ptr EXCEPT ![q] = ptr[b]]
  /\ UNCHANGED <<pc, serial_number, usb, live, size, todo, starved,
                 packing_enabled, streaming>>

(* The transfer callback exchanges its buffer with the one of a slot.      *)
Exchange ==
  /\ streaming
  /\ \E q \in QueueSlots, b \in UsbBuffers :
       ptr' = [ptr EXCEPT ![q] = ptr[b], ![b] = ptr[q]]
  /\ UNCHANGED <<pc, serial_number, usb, live, size, todo, starved,
                 packing_enabled, streaming>>

(* Mutation of FreeTransfers: the queue's buffers are forgotten.           *)
FreeTransfersOnly(fields) ==
  IF ptr[Array] = NULL THEN {} ELSE (fields \cap TransferFields) \ QueueSlots

(* free_transfers(): the fields that it frees and sets to NULL.            *)
FreeTransfers(fields) ==
  IF ptr[Array] = NULL THEN {} ELSE fields \cap TransferFields

Free(fields) ==
  /\ live' = live \ Used(fields)
  /\ ptr' = [f \in Fields |-> IF f \in fields THEN NULL ELSE ptr[f]]
  /\ size' = [b \in Pool |-> b \in live' /\ size[b]]

(* Mutation of SetPacking: what is needed is judged by the old mode.       *)
SetPackingOldMode ==
  /\ ~streaming
  /\ Goto("ready", "reallocate")
  /\ Free(FreeTransfers(Fields))
  /\ packing_enabled' = ~packing_enabled
  /\ todo' = Allocations(packing_enabled)
  /\ UNCHANGED <<serial_number, usb, starved, streaming>>

(* airspy_set_packing() with a new mode.                                   *)
SetPacking ==
  /\ ~streaming
  /\ Goto("ready", "reallocate")
  /\ Free(FreeTransfers(Fields))
  /\ packing_enabled' = ~packing_enabled
  /\ todo' = Allocations(~packing_enabled)
  /\ UNCHANGED <<serial_number, usb, starved, streaming>>

(* The old converter is freed, and a new one created in its place.         *)
SetConversionFilter ==
  /\ pc = "ready"
  /\ ~streaming
  /\ \E b \in Pool \ (live \ {ptr[Cnv]}) :
       /\ b = Min(Pool \ (live \ {ptr[Cnv]}))
       /\ live' = (live \ {ptr[Cnv]}) \cup {b}
       /\ ptr' = [ptr EXCEPT ![Cnv] = b]
       /\ size' = [size EXCEPT ![ptr[Cnv]] = FALSE, ![b] = packing_enabled]
  /\ UNCHANGED <<pc, serial_number, usb, todo, starved, packing_enabled,
                 streaming>>

(* airspy_close(), after airspy_stop_rx().                                 *)
Close ==
  /\ Goto("ready", "closed")
  /\ streaming' = FALSE
  /\ OpenExit
  /\ Free(FreeTransfers(Fields) \cup {Cnv, Rates})
  /\ UNCHANGED <<serial_number, todo, starved, packing_enabled>>

Finished == pc = "closed" /\ UNCHANGED vars

(* The pool is too small for what comes next: the end of the model.        *)
Exhausted == live = Pool /\ UNCHANGED vars

Next ==
  \/ InitContext \/ Look \/ CompareSerial \/ Claim \/ NotFound
  \/ ReadRates \/ AllocateNext \/ AllocateFails \/ AllocateDone
  \/ StartStop \/ Exchange \/ SetPacking \/ SetConversionFilter \/ Close
  \/ Finished \/ Exhausted

Spec == Init /\ [][Next]_vars

-----------------------------------------------------------------------------
(* Properties.                                                             *)

(* Whatever failed on the way through the bus, the process holds no handle *)
(* but the device's and no interface but this one's; a device that is      *)
(* ready has the serial number asked for, and one that is closed or was    *)
(* not opened holds neither handle nor context.                            *)
OneHandle ==
  /\ opened \subseteq {usb_device} /\ claimed \subseteq opened
  /\ pc = "ready" =>
       /\ claimed = {usb_device} /\ Bus[usb_device].airspy
       /\ serial_number \in {0, Bus[usb_device].serial}
  /\ pc = "closed" => opened = {} /\ ~usb_context

(* No two fields point to one block and none to a block that was freed, so *)
(* that none is freed twice, however often buffers were exchanged between  *)
(* the queue and the transfers and whatever allocation failed.             *)
EachFreedOnce ==
  pc # "closed" =>
    /\ Used(Fields) \subseteq live
    /\ \A f, g \in Fields : f # g /\ ptr[f] = ptr[g] => ptr[f] = NULL

(* Unless memory ran out while the device was opened or before the array   *)
(* of transfers was allocated anew, no block is lost: close frees all.     *)
NothingLost == ~starved => live = Used(Fields)

(* A stream runs on buffers that were allocated for the present packing,   *)
(* and has one to unpack into when samples are packed.                     *)
BuffersFit ==
  streaming =>
    /\ Complete
    /\ \A f \in QueueSlots \cup UsbBuffers \cup {Output} :
         size[ptr[f]] = packing_enabled
    /\ packing_enabled => ptr[Unpacked] # NULL
=============================================================================
