------------------------------ MODULE AirspyRx ------------------------------
(***************************************************************************)
(* The airspy_rx program from the moment its device is open: main(), the   *)
(* rx_callback() that the library's consumer thread runs for every block,  *)
(* and the signal handler, on top of the library as StreamControl models   *)
(* it.  Main and callback share the output file and the number of bytes    *)
(* that are still to be transferred; nothing but airspy_stop_rx() waiting  *)
(* for the consumer thread keeps them apart.                               *)
(***************************************************************************)
EXTENDS Integers

CONSTANTS
  transfer_count,  \* transfers of a session
  BlockBytes,      \* bytes of a block, after conversion
  Limits,          \* values of bytes_to_xfer that the options ask for
  MaxBlocks,       \* bound: blocks handed to the callback
  SizeModulus      \* 2^32: file_pos and the sizes in the header are uint32_t

ASSUME RxAssumption ==
  /\ transfer_count \in Nat \ {0}
  /\ BlockBytes \in Nat \ {0}
  /\ Limits \subseteq Nat
  /\ MaxBlocks \in Nat
  /\ SizeModulus \in Nat \ {0}

VARIABLES  \* of the library, see StreamControl
  streaming, stop_requested, packing_enabled, transfers, converter, session,
  consumer, transfer, consumer_thread, transfer_thread, apc, closing, next,
  packing, derailed

VARIABLES
  pc,                 \* main()
  ok,                 \* the library call that main() waits for succeeded
  do_exit,
  fd,                 \* "null", "open", or "closed" (by fclose, not yet NULL)
  limit_num_samples,
  bytes_to_xfer,
  cb,                 \* rx_callback(), "none" outside it
  bytes_to_write, bytes_written,
  blocks,             \* blocks handed to the callback so far
  data,               \* history: bytes of samples in the file
  chunkSize,          \* the size of the data chunk in the header, or None
  file_pos,           \* what ftell() said, without the header's bytes
  limit, interrupted, failed  \* history: bytes asked for; signal; short write

Lib == INSTANCE StreamControl WITH MaxStarts <- 1

libvars  == <<streaming, stop_requested, packing_enabled, transfers, converter,
              session, consumer, transfer, consumer_thread, transfer_thread,
              apc, closing, next, packing, derailed>>
file     == <<fd, data, chunkSize, file_pos>>
callback == <<cb, bytes_to_write, bytes_written, blocks, bytes_to_xfer, failed>>
options  == <<limit_num_samples, limit>>
sig      == <<do_exit, interrupted>>
tool     == <<pc, ok, file, callback, options, sig>>
vars     == <<libvars, tool>>

None == -1

Init ==
  /\ Lib!Init
  /\ pc = "configure"
  /\ ok = FALSE
  /\ do_exit = FALSE
  /\ fd = "null"
  /\ limit_num_samples \in BOOLEAN
  /\ bytes_to_xfer \in IF limit_num_samples THEN Limits ELSE {0}
  /\ limit = bytes_to_xfer
  /\ cb = "none"
  /\ bytes_to_write = 0 /\ bytes_written = 0
  /\ blocks = 0
  /\ data = 0
  /\ chunkSize = None
  /\ file_pos = 0
  /\ interrupted = FALSE
  /\ failed = FALSE

(* The process is there and its threads run.                               *)
Alive == pc \notin {"exited", "killed"} /\ apc # "crashed"

-----------------------------------------------------------------------------
(* main() up to the stream.  Every failure closes the device and exits.    *)

Goto(from, to) == pc = from /\ pc' = to

(* Sample type, sample rate and serial number.                             *)
Configure ==
  /\ Goto("configure", "packing") \/ Goto("configure", "fail")
  /\ UNCHANGED <<libvars, ok, file, callback, options, sig>>

(* Only with option -p.                                                    *)
SetPacking ==
  /\ \/ Goto("packing", "packing_result") /\ Lib!SetPacking
     \/ Goto("packing", "rf_bias") /\ UNCHANGED libvars
  /\ UNCHANGED <<ok, file, callback, options, sig>>

PackingResult ==
  /\ apc = "idle"
  /\ Goto("packing_result", IF ok THEN "rf_bias" ELSE "fail")
  /\ UNCHANGED <<libvars, ok, file, callback, options, sig>>

RfBias ==
  /\ Goto("rf_bias", "fopen") \/ Goto("rf_bias", "fail")
  /\ UNCHANGED <<libvars, ok, file, callback, options, sig>>

(* fopen(), setvbuf() and the header with its sizes still 0.               *)
OpenFile ==
  /\ \/ Goto("fopen", "setvbuf") /\ fd' = "open" /\ UNCHANGED chunkSize
     \/ Goto("fopen", "fail") /\ UNCHANGED <<fd, chunkSize>>
     \/ Goto("setvbuf", "signals") /\ chunkSize' = 0 /\ UNCHANGED fd
     \/ Goto("setvbuf", "fail") /\ UNCHANGED <<fd, chunkSize>>
  /\ UNCHANGED <<libvars, ok, data, file_pos, callback, options, sig>>

(* The handler is installed; errors of the gain calls are only printed,    *)
(* one of airspy_set_freq() is fatal.                                      *)
InstallHandler ==
  /\ Goto("signals", "tune")
  /\ UNCHANGED <<libvars, ok, file, callback, options, sig>>

Tune ==
  /\ Goto("tune", "start") \/ Goto("tune", "fail")
  /\ UNCHANGED <<libvars, ok, file, callback, options, sig>>

StartRx ==
  /\ Goto("start", "start_result")
  /\ Lib!StartRx
  /\ ok' = FALSE
  /\ UNCHANGED <<file, callback, options, sig>>

StartResult ==
  /\ apc = "idle"
  /\ Goto("start_result", IF ok THEN "poll" ELSE "fail")
  /\ UNCHANGED <<libvars, ok, file, callback, options, sig>>

(* Mutation of Fail: the device stays open.                                *)
FailWithoutClose ==
  /\ Goto("fail", "exited")
  /\ UNCHANGED <<libvars, ok, file, callback, options, sig>>

(* airspy_close() on the way out.                                          *)
Fail ==
  /\ Goto("fail", "failing")
  /\ Lib!StopRx /\ closing' = TRUE
  /\ UNCHANGED <<ok, file, callback, options, sig>>

ExitFailure ==
  /\ apc = "closed"
  /\ Goto("failing", "exited")
  /\ UNCHANGED <<libvars, ok, file, callback, options, sig>>

-----------------------------------------------------------------------------
(* main() while the stream runs, and after it.                             *)

(* The condition of the loop: airspy_is_streaming() and do_exit.           *)
Poll ==
  /\ Goto("poll", IF streaming /\ ~do_exit THEN "limit" ELSE "stop")
  /\ UNCHANGED <<libvars, ok, file, callback, options, sig>>

(* Mutation of PollLimit: the loop relies on airspy_is_streaming().        *)
PollForever ==
  /\ Goto("limit", "poll")
  /\ UNCHANGED <<libvars, ok, file, callback, options, sig>>

(* The body of the loop: everything is transferred, or sleep(1).           *)
PollLimit ==
  /\ Goto("limit", "poll")
  /\ do_exit' = (do_exit \/ (limit_num_samples /\ bytes_to_xfer = 0))
  /\ UNCHANGED <<libvars, ok, file, callback, options, interrupted>>

(* Mutation of StopRx: the file is finished while the stream still runs.   *)
StopRxLate ==
  /\ Goto("stop", "ftell")
  /\ UNCHANGED <<libvars, ok, file, callback, options, sig>>

StopRx ==
  /\ Goto("stop", "stopping")
  /\ Lib!StopRx /\ ~closing'
  /\ UNCHANGED <<ok, file, callback, options, sig>>

CloseDevice ==
  /\ apc = "idle"
  /\ Goto("stopping", "closing")
  /\ Lib!StopRx /\ closing'
  /\ UNCHANGED <<ok, file, callback, options, sig>>

DeviceClosed ==
  /\ apc = "closed"
  /\ Goto("closing", "ftell")
  /\ UNCHANGED <<libvars, ok, file, callback, options, sig>>

(* ftell(), the header with the final sizes, fclose(), fd = NULL.          *)
TakeSize ==
  /\ Goto("ftell", "header")
  /\ file_pos' = data % SizeModulus
  /\ UNCHANGED <<libvars, ok, fd, data, chunkSize, callback, options, sig>>

WriteHeader ==
  /\ Goto("header", "fclose")
  /\ chunkSize' = file_pos
  /\ UNCHANGED <<libvars, ok, fd, data, file_pos, callback, options, sig>>

CloseFile ==
  /\ \/ Goto("fclose", "forget") /\ fd' = "closed"
     \/ Goto("forget", "exited") /\ fd' = "null"
  /\ UNCHANGED <<libvars, ok, data, chunkSize, file_pos, callback, options,
                 sig>>

(* The header is written right before the handler is installed.            *)
HandlerInstalled == chunkSize # None /\ pc # "signals"

(* SIGINT, SIGTERM and others: before the handler is there they end the    *)
(* process.                                                                *)
Signal ==
  /\ IF ~HandlerInstalled
       THEN pc' = "killed" /\ UNCHANGED sig
       ELSE do_exit' = TRUE /\ interrupted' = TRUE /\ UNCHANGED pc
  /\ UNCHANGED <<libvars, ok, file, callback, options>>

-----------------------------------------------------------------------------
(* rx_callback(), in the consumer thread.                                  *)

CallbackMoves(from, to) == cb = from /\ cb' = to

(* The consumer thread hands over a block.                                 *)
CallbackEnter ==
  /\ cb = "none"
  /\ blocks < MaxBlocks
  /\ Lib!ConsumerLoop(1)
  /\ consumer'[1] = "process"
  /\ cb' = "enter"
  /\ blocks' = blocks + 1
  /\ UNCHANGED <<pc, ok, file, bytes_to_write, bytes_written, bytes_to_xfer,
                 failed, options, sig>>

CallbackFd ==
  /\ CallbackMoves("enter", IF fd = "null" THEN "abort" ELSE "count")
  /\ UNCHANGED <<libvars, pc, ok, file, bytes_to_write, bytes_written, blocks,
                 bytes_to_xfer, failed, options, sig>>

(* Mutation of CallbackCount: the last block is not cut.                   *)
CallbackCountWhole ==
  /\ CallbackMoves("count", "write")
  /\ bytes_to_write' = BlockBytes
  /\ bytes_to_xfer' = IF limit_num_samples
                        THEN bytes_to_xfer - BlockBytes
                        ELSE bytes_to_xfer
  /\ UNCHANGED <<libvars, pc, ok, file, bytes_written, blocks, failed, options,
                 sig>>

(* The bytes are counted before they are written.                          *)
CallbackCount ==
  /\ CallbackMoves("count", "write")
  /\ bytes_to_write' = IF limit_num_samples /\ BlockBytes >= bytes_to_xfer
                         THEN bytes_to_xfer
                         ELSE BlockBytes
  /\ bytes_to_xfer' = IF limit_num_samples
                        THEN bytes_to_xfer - bytes_to_write'
                        ELSE bytes_to_xfer
  /\ UNCHANGED <<libvars, pc, ok, file, bytes_written, blocks, failed, options,
                 sig>>

(* fwrite() may write less.  On a file that main() has closed it is        *)
(* undefined: here nothing is written.                                     *)
CallbackWrite ==
  /\ CallbackMoves("write", "return")
  /\ bytes_written' \in IF fd = "open" THEN 0 .. bytes_to_write ELSE {0}
  /\ data' = data + bytes_written'
  /\ failed' = (failed \/ bytes_written' # bytes_to_write)
  /\ UNCHANGED <<libvars, pc, ok, fd, chunkSize, file_pos, bytes_to_write,
                 blocks, bytes_to_xfer, options, sig>>

CallbackResult ==
  \/ bytes_written # bytes_to_write
  \/ limit_num_samples /\ bytes_to_xfer = 0

(* A result other than 0 makes the consumer thread ask for a stop.         *)
CallbackReturn ==
  /\ cb \in {"abort", "return"}
  /\ Lib!ClientReturns(1)
  /\ stop_requested' = (stop_requested \/ cb = "abort" \/ CallbackResult)
  /\ cb' = "none"
  /\ UNCHANGED <<pc, ok, file, bytes_to_write, bytes_written, blocks,
                 bytes_to_xfer, failed, options, sig>>

-----------------------------------------------------------------------------
(* The library's own steps.                                                *)

(* airspy_start_rx() succeeded when both threads exist.                    *)
LibStart ==
  /\ Lib!StartSteps
  /\ ok' = (transfer_thread' # 0)
  /\ UNCHANGED <<pc, file, callback, options, sig>>

(* airspy_set_packing() may fail in the control transfer or for want of    *)
(* memory; packing that is already set as asked needs no memory.           *)
LibPacking ==
  /\ Lib!OtherSteps
  /\ \/ ok' = FALSE
     \/ /\ packing_enabled' = packing /\ transfers' = Lib!AllIdle
        /\ ok' = TRUE
  /\ apc = "reallocate" => ok' = (transfers' = Lib!AllIdle)
  /\ UNCHANGED <<pc, file, callback, options, sig>>

LibStop ==
  /\ Lib!StopSteps
  /\ UNCHANGED tool

ConsumerWaits ==
  /\ Lib!ConsumerLoop(1) /\ consumer'[1] # "process"
  /\ UNCHANGED tool

LibThreads ==
  /\ \/ Lib!ConsumerWakes(1) \/ Lib!TransferExits(1)
     \/ Lib!StreamEnds \/ Lib!TransferEnds
  /\ UNCHANGED tool

-----------------------------------------------------------------------------
MainStep ==
  \/ Configure \/ SetPacking \/ PackingResult \/ RfBias \/ OpenFile
  \/ InstallHandler \/ Tune \/ StartRx \/ StartResult \/ Fail \/ ExitFailure
  \/ Poll \/ PollLimit \/ StopRx \/ CloseDevice \/ DeviceClosed
  \/ TakeSize \/ WriteHeader \/ CloseFile
LibCall == LibStart \/ LibPacking \/ LibStop
CallbackStep == CallbackFd \/ CallbackCount \/ CallbackWrite \/ CallbackReturn

Finished == ~Alive /\ UNCHANGED vars

Next ==
  \/ Alive /\ (\/ MainStep \/ Signal \/ LibCall
               \/ CallbackEnter \/ CallbackStep
               \/ ConsumerWaits \/ LibThreads)
  \/ Finished

Spec == Init /\ [][Next]_vars

(* Main, the calls it makes, the callback and the two threads run.         *)
Fairness ==
  /\ WF_vars(Alive /\ MainStep)
  /\ WF_vars(Alive /\ LibCall)
  /\ WF_vars(Alive /\ CallbackStep)
  /\ WF_vars(Alive /\ ConsumerWaits /\ consumer'[1] = "done")
  /\ WF_vars(Alive /\ Lib!TransferExits(1) /\ UNCHANGED tool)

FairSpec == Spec /\ Fairness

-----------------------------------------------------------------------------
(* Properties.                                                             *)

TypeOK ==
  /\ Lib!TypeOK
  /\ ok \in BOOLEAN /\ do_exit \in BOOLEAN
  /\ fd \in {"null", "open", "closed"}
  /\ limit_num_samples \in BOOLEAN
  /\ bytes_to_xfer \in Nat
  /\ cb \in {"none", "enter", "count", "write", "return", "abort"}
  /\ cb # "none" <=> consumer[1] = "process"
  /\ bytes_to_write \in 0 .. BlockBytes
  /\ bytes_written \in 0 .. bytes_to_write \/ cb # "return"
  /\ data \in 0 .. blocks * BlockBytes
  /\ blocks \in 0 .. MaxBlocks
  /\ chunkSize \in {None} \cup 0 .. SizeModulus - 1
  /\ file_pos \in 0 .. SizeModulus - 1

(* When airspy_rx has finished its file, the header gives the size of the  *)
(* data, modulo 2^32: no block is written after main() took the size,      *)
(* unless the stream ended by itself and nobody waits for the consumer.    *)
HeaderMatchesFile ==
  fd = "null" /\ pc = "exited" /\ chunkSize # None /\ ~derailed =>
    chunkSize = data % SizeModulus

(* The file never gets more than was asked for, and a run that ends by     *)
(* itself has all of it: main() may see bytes_to_xfer reach 0 while the    *)
(* callback is still writing, but the bytes are in the file before main()  *)
(* closes it.                                                              *)
ExactCount ==
  limit_num_samples =>
    /\ data <= limit
    /\ pc = "exited" /\ chunkSize # None /\ fd = "null"
       /\ ~derailed /\ ~interrupted /\ ~failed => data = limit

(* However main() ends, it has closed the device, and every thread of the  *)
(* library is gone unless the stream ended by itself.                      *)
ExitClosesDevice ==
  pc = "exited" =>
    /\ apc = "closed"
    /\ ~derailed => Lib!LiveConsumers \cup Lib!LiveTransfers = {}

(* Once a signal or the limit has set do_exit the program ends.            *)
StopsWhenAsked == do_exit ~> ~Alive

(* Once the callback has counted the last byte the program ends by itself, *)
(* although airspy_is_streaming() does not tell that the callback ended    *)
(* the stream.  (After a short write it is the only way to tell, and with  *)
(* bytes left main() waits for a signal.)                                  *)
LimitEndsRun ==
  (pc \in {"poll", "limit"} /\ limit_num_samples /\ bytes_to_xfer = 0)
    ~> ~Alive
=============================================================================
