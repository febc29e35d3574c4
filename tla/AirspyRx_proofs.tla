-------------------------- MODULE AirspyRx_proofs --------------------------
(***************************************************************************)
(* Proofs about AirspyRx, for blocks of any size, any limit and any number *)
(* of blocks and transfers.                                                *)
(*                                                                         *)
(* That the file is complete when airspy_rx writes its sizes rests on what *)
(* StreamControl_proofs proves of the library: airspy_stop_rx() leaves no  *)
(* thread behind unless the stream was derailed.  So the proof shows first *)
(* that every step of the program is one of the library or none, and takes *)
(* the library's invariant over.                                           *)
(***************************************************************************)
EXTENDS AirspyRx, TLAPS

LibP == INSTANCE StreamControl_proofs WITH MaxStarts <- 1

-----------------------------------------------------------------------------
(* Main's position and the library's: where each call may be.              *)
CallInv ==
  /\ pc \in {"configure", "packing", "packing_result", "rf_bias", "fopen", "setvbuf",
             "signals", "tune", "start", "start_result", "poll", "limit", "stop",
             "stopping", "closing", "ftell", "header", "fclose", "forget", "fail",
             "failing", "exited", "killed"}
  /\ pc \in {"configure", "packing", "rf_bias", "fopen", "setvbuf", "signals",
             "tune", "start", "poll", "limit", "stop", "fail"} => apc = "idle"
  /\ pc = "packing_result" => apc \in {"idle", "set_packing", "reallocate"}
  /\ pc = "start_result" =>
       apc \in {"idle", "start_off", "start_on", "create", "submit",
                "create_consumer", "create_transfer", "crashed"}
  /\ pc = "stopping" =>
       /\ ~closing
       /\ apc \in {"idle", "signal", "join_transfer", "join_consumer", "stop_off",
                   "crashed"}
  /\ pc \in {"closing", "failing"} =>
       /\ closing
       /\ apc \in {"signal", "join_transfer", "join_consumer", "stop_off", "close",
                   "closed", "crashed"}
  /\ pc \in {"ftell", "header", "fclose", "forget", "exited"} => apc = "closed"

(* The stream main() believes in: it has not begun before start_rx(), and  *)
(* it runs while main() waits for its end.                                 *)
NotStarted == session = 0 /\ transfer_thread = 0 /\ consumer[1] = "none"

StreamInv ==
  /\ pc \in {"configure", "packing", "packing_result", "rf_bias", "fopen",
             "setvbuf", "signals", "tune", "start"} => NotStarted
  /\ pc = "start_result" /\ apc # "idle" => transfer_thread = 0
  /\ pc = "start_result" /\ apc \in {"start_off", "start_on", "create", "submit",
                                     "create_consumer"} => consumer[1] = "none"
  /\ pc = "start_result" /\ apc = "idle" /\ ok /\ ~derailed => streaming
  /\ pc \in {"poll", "limit"} /\ ~derailed => streaming

(* The header is in the file from setvbuf() on, and the file is open until *)
(* main() closes it.                                                       *)
FileInv ==
  /\ file_pos \in Nat
  /\ pc = "setvbuf" => fd = "open"
  /\ pc \in {"configure", "packing", "packing_result", "rf_bias", "fopen",
             "setvbuf"} => chunkSize = None
  /\ pc \in {"signals", "tune", "start", "start_result", "poll", "limit", "stop",
             "stopping", "closing", "ftell", "header", "fclose"} =>
       chunkSize # None /\ fd = "open"
  /\ pc = "forget" => chunkSize # None
  /\ pc \in {"fail", "failing"} => chunkSize = None \/ fd = "open"

(* Every byte asked for is in the file, on its way there, or still to be   *)
(* counted.                                                                *)
Counted == data + bytes_to_xfer + (IF cb = "write" THEN bytes_to_write ELSE 0)

CountInv ==
  /\ data \in Nat /\ bytes_to_xfer \in Nat /\ bytes_to_write \in Nat
  /\ bytes_written \in Nat /\ limit \in Nat
  /\ limit_num_samples => Counted <= limit
  /\ limit_num_samples /\ ~failed => Counted = limit

(* The callback is at work exactly while the library's consumer is.        *)
CallbackInv ==
  /\ cb \in {"none", "enter", "count", "write", "return", "abort"}
  /\ cb # "none" <=> consumer[1] = "process"

(* Nothing but a signal, a derailed stream, or the last byte counted makes *)
(* main() stop.                                                            *)
ReasonInv ==
  /\ limit_num_samples /\ do_exit /\ ~interrupted => bytes_to_xfer = 0
  /\ limit_num_samples /\ ~derailed /\ ~interrupted
     /\ pc \in {"stop", "stopping", "closing", "ftell", "header", "fclose", "forget"}
       => bytes_to_xfer = 0

(* The sizes main() takes and writes.                                      *)
SizeInv ==
  /\ pc \in {"header", "fclose", "forget"} /\ ~derailed =>
       file_pos = data % SizeModulus
  /\ pc \in {"fclose", "forget"} /\ ~derailed => chunkSize = data % SizeModulus

Claims == HeaderMatchesFile /\ ExactCount /\ ExitClosesDevice

RxInv ==
  /\ CallInv /\ StreamInv /\ FileInv /\ CountInv /\ CallbackInv /\ ReasonInv
  /\ SizeInv /\ Claims

IInv == LibP!IInv /\ RxInv

-----------------------------------------------------------------------------
(* The library.                                                            *)

(* One start and any number of transfers are an instance of StreamControl. *)
LEMMA LibAssumption == LibP!ControlAssumption
BY RxAssumption DEF LibP!ControlAssumption

(* The library whose invariant is proved is the one airspy_rx calls.       *)
LEMMA SameLibrary == Lib!Next <=> LibP!Next
BY DEF Lib!flags, LibP!flags, Lib!buffers, LibP!buffers,
       Lib!threads, LibP!threads, Lib!call, LibP!call, Lib!vars, LibP!vars,
       Lib!Sessions, LibP!Sessions, Lib!TransferStates, LibP!TransferStates,
       Lib!ConsumerStates, LibP!ConsumerStates,
       Lib!ThreadStates, LibP!ThreadStates, Lib!Running, LibP!Running,
       Lib!LiveConsumers, LibP!LiveConsumers,
       Lib!LiveTransfers, LibP!LiveTransfers, Lib!InControl, LibP!InControl,
       Lib!Stopping, LibP!Stopping, Lib!AllIdle, LibP!AllIdle,
       Lib!AppMoves, LibP!AppMoves, Lib!StartRx, LibP!StartRx,
       Lib!ReceiverMode, LibP!ReceiverMode, Lib!CreateTest, LibP!CreateTest,
       Lib!CreateFails, LibP!CreateFails,
       Lib!SubmitTransfer, LibP!SubmitTransfer,
       Lib!NoTransfers, LibP!NoTransfers,
       Lib!CreateConsumer, LibP!CreateConsumer,
       Lib!CreateTransfer, LibP!CreateTransfer, Lib!StopRx, LibP!StopRx,
       Lib!Signal, LibP!Signal, Lib!Joinable, LibP!Joinable,
       Lib!JoinTransfer, LibP!JoinTransfer, Lib!ClearFlags, LibP!ClearFlags,
       Lib!JoinConsumer, LibP!JoinConsumer, Lib!StopOff, LibP!StopOff,
       Lib!Close, LibP!Close, Lib!SetPacking, LibP!SetPacking,
       Lib!PackingSet, LibP!PackingSet, Lib!Allocations, LibP!Allocations,
       Lib!Reallocate, LibP!Reallocate,
       Lib!SetConversionFilter, LibP!SetConversionFilter,
       Lib!ConsumerMoves, LibP!ConsumerMoves,
       Lib!ThreadsOnly, LibP!ThreadsOnly,
       Lib!ConsumerLoop, LibP!ConsumerLoop,
       Lib!ConsumerWakes, LibP!ConsumerWakes,
       Lib!ClientReturns, LibP!ClientReturns,
       Lib!TransferExits, LibP!TransferExits,
       Lib!EventsHandled, LibP!EventsHandled,
       Lib!StreamEnds, LibP!StreamEnds, Lib!TransferEnds, LibP!TransferEnds,
       Lib!StartSteps, LibP!StartSteps, Lib!StopSteps, LibP!StopSteps,
       Lib!OtherSteps, LibP!OtherSteps, Lib!Calls, LibP!Calls,
       Lib!Thread, LibP!Thread, Lib!Finished, LibP!Finished,
       Lib!Next, LibP!Next

(* Every step of the program is a step of the library or leaves it alone.  *)
LEMMA LibraryStep == [Next]_vars => Lib!Next \/ UNCHANGED libvars
<1> SUFFICES ASSUME [Next]_vars PROVE Lib!Next \/ UNCHANGED libvars
  OBVIOUS
<1> USE DEF Lib!Next, Lib!Calls
<1>1. CASE MainStep
  BY <1>1 DEF MainStep, Configure, SetPacking, PackingResult, RfBias, OpenFile,
     InstallHandler, Tune, StartRx, StartResult, Fail, ExitFailure, Poll, PollLimit,
     StopRx, CloseDevice, DeviceClosed, TakeSize, WriteHeader, CloseFile
<1>2. CASE Signal
  BY <1>2 DEF Signal
<1>3. CASE LibCall
  BY <1>3 DEF LibCall, LibStart, LibPacking, LibStop
<1>4. ASSUME Lib!ConsumerLoop(1) \/ Lib!ClientReturns(1) \/ Lib!TransferExits(1)
             \/ Lib!ConsumerWakes(1)
      PROVE  Lib!Next
  BY <1>4 DEF Lib!Thread, Lib!Sessions
<1>5. CASE CallbackEnter
  BY <1>4, <1>5 DEF CallbackEnter
<1>6. CASE CallbackStep
  BY <1>4, <1>6 DEF CallbackStep, CallbackFd, CallbackCount, CallbackWrite, CallbackReturn
<1>7. CASE ConsumerWaits
  BY <1>4, <1>7 DEF ConsumerWaits
<1>8. CASE LibThreads
  BY <1>4, <1>8 DEF LibThreads
<1>9. CASE UNCHANGED vars
  BY <1>9 DEF vars
<1> QED
  BY <1>1, <1>2, <1>3, <1>5, <1>6, <1>7, <1>8, <1>9 DEF Next, Finished

(* The library's invariant holds of the library in airspy_rx.              *)
LEMMA LibraryInit == Init => LibP!IInv
<1>1. Init => LibP!Init
  BY DEF Init, Lib!Init, LibP!Init, Lib!AllIdle, LibP!AllIdle, Lib!Sessions,
     LibP!Sessions
<1> QED BY <1>1, LibAssumption, LibP!InvInit

(* The library keeps its invariant under every step of the program.        *)
LEMMA LibraryNext == LibP!IInv /\ [Next]_vars => LibP!IInv'
<1>1. UNCHANGED libvars => UNCHANGED LibP!vars
  BY DEF libvars, LibP!vars, LibP!flags, LibP!buffers, LibP!threads, LibP!call
<1> QED BY <1>1, LibraryStep, SameLibrary, LibAssumption, LibP!InvNext

(* Once airspy_close() has returned, no block is with the callback any     *)
(* more, unless the stream was derailed.                                   *)
LEMMA ClosedIsQuiet ==
  ASSUME LibP!IInv, CallbackInv, apc = "closed", ~derailed
  PROVE  cb = "none" /\ Lib!LiveConsumers \cup Lib!LiveTransfers = {}
<1>1. consumer[1] \in {"none", "joined"} /\ transfer[1] \in {"none", "joined"}
  BY DEF LibP!IInv, LibP!StreamInv, LibP!CallInv, LibP!NothingLeft, LibP!Stopping,
     LibP!Gone, LibP!Sessions
<1> QED BY <1>1 DEF CallbackInv, Lib!LiveConsumers, Lib!LiveTransfers, Lib!Sessions

-----------------------------------------------------------------------------
(* The program.                                                            *)

(* Nothing is written and nothing is called when the device is open.       *)
LEMMA RxInit == Init => RxInv
<1> SUFFICES ASSUME Init PROVE RxInv
  OBVIOUS
<1>1. /\ pc = "configure" /\ apc = "idle" /\ NotStarted /\ cb = "none"
      /\ chunkSize = None /\ file_pos = 0 /\ do_exit = FALSE /\ data = 0 /\ bytes_to_write = 0
      /\ bytes_written = 0 /\ bytes_to_xfer \in Nat /\ limit = bytes_to_xfer
  BY RxAssumption DEF Init, Lib!Init, NotStarted, Lib!Sessions
<1>2. CallInv /\ StreamInv /\ FileInv /\ ReasonInv /\ SizeInv /\ Claims
  BY <1>1 DEF CallInv, StreamInv, FileInv, ReasonInv, SizeInv, Claims,
     HeaderMatchesFile, ExactCount, ExitClosesDevice
<1>3. CountInv /\ CallbackInv
  BY <1>1 DEF CountInv, Counted, CallbackInv, NotStarted
<1> QED BY <1>2, <1>3 DEF RxInv

(* What a step that is main()'s alone, or a signal, leaves alone.          *)
MainOnly == UNCHANGED <<libvars, callback, data, options>>

(* main() up to the stream and on its way out after a failure.             *)
LEMMA FirstSteps ==
  ASSUME IInv,
         \/ Configure \/ SetPacking \/ PackingResult \/ RfBias \/ OpenFile
         \/ InstallHandler \/ Tune \/ StartRx \/ StartResult \/ Fail \/ ExitFailure
  PROVE  RxInv'
<1> USE DEF Configure, SetPacking, PackingResult, RfBias, OpenFile, InstallHandler,
        Tune, StartRx, StartResult, Fail, ExitFailure, Goto, file, callback, options,
        sig, libvars, IInv, RxInv
<1>1. /\ UNCHANGED <<callback, data, options, sig, consumer, transfer, session,
                      transfer_thread, streaming, derailed>>
      /\ pc' \notin {"limit", "stop", "stopping", "closing", "ftell", "header",
                      "fclose", "forget"}
  BY DEF Lib!SetPacking, Lib!StartRx, Lib!StopRx, Lib!AppMoves, Lib!threads, Lib!flags
<1>2. CallInv'
  BY DEF CallInv, Lib!SetPacking, Lib!StartRx, Lib!StopRx, Lib!AppMoves
<1>3. StreamInv'
  BY <1>1 DEF StreamInv, NotStarted, CallInv, Lib!StartRx, Lib!AppMoves
<1>4. FileInv'
  BY DEF FileInv, None
<1>5. CountInv' /\ CallbackInv' /\ ReasonInv' /\ SizeInv'
  BY <1>1 DEF CountInv, Counted, CallbackInv, ReasonInv, SizeInv
<1>6. Claims'
  <2>1. pc' = "exited" => pc = "failing" /\ UNCHANGED <<fd, chunkSize, apc>>
    OBVIOUS
  <2>2. pc' = "exited" => ~(fd' = "null" /\ chunkSize' # None)
    BY <2>1 DEF FileInv
  <2>3. ExitClosesDevice'
    BY <1>1, <2>1, ClosedIsQuiet DEF ExitClosesDevice, Lib!LiveConsumers,
       Lib!LiveTransfers
  <2>4. limit_num_samples' => data' <= limit'
    BY <1>1 DEF CountInv, Counted
  <2> QED BY <2>2, <2>3, <2>4 DEF Claims, HeaderMatchesFile, ExactCount
<1> QED BY <1>2, <1>3, <1>4, <1>5, <1>6

(* main() while the stream runs, and after it.                             *)
LEMMA LastSteps ==
  ASSUME IInv,
         \/ Poll \/ PollLimit \/ StopRx \/ CloseDevice \/ DeviceClosed
         \/ TakeSize \/ WriteHeader \/ CloseFile
  PROVE  RxInv'
<1> USE DEF Poll, PollLimit, StopRx, CloseDevice, DeviceClosed, TakeSize, WriteHeader,
        CloseFile, Goto, file, callback, options, sig, libvars, IInv, RxInv
<1>1. UNCHANGED <<callback, data, options, interrupted, consumer, transfer, streaming,
                  derailed>>
  BY DEF Lib!StopRx, Lib!threads
<1>2. CallInv'
  BY DEF CallInv, Lib!StopRx, Lib!AppMoves
<1>3. StreamInv'
  BY <1>1 DEF StreamInv, CallInv
<1>4. FileInv'
  <2>1. data % SizeModulus \in Nat
    BY RxAssumption DEF CountInv
  <2> QED BY <2>1 DEF FileInv, None
<1>5. CountInv' /\ CallbackInv'
  BY <1>1 DEF CountInv, Counted, CallbackInv
<1>6. ReasonInv'
  <2>1. CASE Poll
    <3>1. pc = "poll" /\ pc' \in {"limit", "stop"} /\ UNCHANGED <<do_exit, interrupted>>
      BY <2>1
    <3>2. pc' = "stop" => do_exit \/ derailed
      BY <2>1 DEF StreamInv
    <3> QED BY <1>1, <3>1, <3>2 DEF ReasonInv
  <2>2. CASE PollLimit
    <3>1. pc' = "poll" /\ (do_exit' <=> do_exit \/ (limit_num_samples /\ bytes_to_xfer = 0))
      BY <2>2
    <3> QED BY <1>1, <3>1 DEF ReasonInv
  <2>3. CASE StopRx \/ CloseDevice \/ DeviceClosed \/ TakeSize \/ WriteHeader \/ CloseFile
    BY <1>1, <2>3 DEF ReasonInv
  <2> QED BY <2>1, <2>2, <2>3
<1>7. SizeInv'
  BY <1>1 DEF SizeInv
<1>8. Claims'
  <2>1. pc' = "exited" => pc = "forget" /\ UNCHANGED <<chunkSize, apc, do_exit>>
    OBVIOUS
  <2>2. apc = "closed" /\ ~derailed =>
          cb = "none" /\ Lib!LiveConsumers \cup Lib!LiveTransfers = {}
    BY ClosedIsQuiet
  <2>3. ExitClosesDevice'
    BY <1>1, <2>1, <2>2 DEF CallInv, ExitClosesDevice, Lib!LiveConsumers,
       Lib!LiveTransfers
  <2>4. HeaderMatchesFile'
    BY <1>1, <2>1 DEF SizeInv, HeaderMatchesFile
  <2>5. ExactCount'
    BY <1>1, <2>1, <2>2 DEF CallInv, CountInv, Counted, ReasonInv, ExactCount
  <2> QED BY <2>3, <2>4, <2>5 DEF Claims
<1> QED BY <1>2, <1>3, <1>4, <1>5, <1>6, <1>7, <1>8

(* A signal ends the program before the handler is there, and is a reason  *)
(* to stop afterwards.                                                     *)
LEMMA SignalStep == ASSUME IInv, Alive, Signal PROVE RxInv'
<1> USE DEF Signal, file, callback, options, sig, libvars, IInv, RxInv
<1>1. UNCHANGED <<callback, file, options, libvars, ok>> /\ pc' \in {pc, "killed"}
  OBVIOUS
<1>2. CallInv' /\ StreamInv' /\ FileInv' /\ CountInv' /\ CallbackInv' /\ SizeInv'
  BY <1>1 DEF CallInv, StreamInv, NotStarted, FileInv, CountInv, Counted, CallbackInv,
     SizeInv
<1>3. ReasonInv'
  BY <1>1 DEF ReasonInv
<1>4. Claims'
  BY <1>1 DEF Alive, Claims, HeaderMatchesFile, ExactCount, ExitClosesDevice
<1> QED BY <1>2, <1>3, <1>4

(* Bytes that are in the file are among those counted.                     *)
LEMMA PartOfSum == \A d, x, w, l \in Nat : d + x + w <= l => d <= l
OBVIOUS

(* What a step of the library or of the callback leaves alone.             *)
NotMain == UNCHANGED <<pc, fd, chunkSize, file_pos, options, sig>>

(* Such a step keeps what main() knows of the file and why it stops, and   *)
(* main()'s claims, which are about a program that has ended.              *)
LEMMA NotMainKeeps ==
  ASSUME IInv, Alive, NotMain, derailed => derailed', CountInv'
  PROVE  /\ FileInv' /\ Claims'
         /\ (bytes_to_xfer = 0 => bytes_to_xfer' = 0) => ReasonInv'
         /\ data' = data => SizeInv'
<1> USE DEF NotMain, options, sig, IInv, RxInv
<1>1. pc # "exited"
  BY DEF Alive
<1>2. limit_num_samples => data' <= limit
  <2>1. data' \in Nat /\ bytes_to_xfer' \in Nat /\ bytes_to_write' \in Nat /\ limit \in Nat
    BY DEF CountInv
  <2>2. limit_num_samples =>
          data' + bytes_to_xfer' + (IF cb' = "write" THEN bytes_to_write' ELSE 0) <= limit
    BY DEF CountInv, Counted
  <2>3. (IF cb' = "write" THEN bytes_to_write' ELSE 0) \in Nat
    BY <2>1
  <2> QED BY <2>1, <2>2, <2>3, PartOfSum
<1>3. Claims'
  BY <1>1, <1>2 DEF Claims, HeaderMatchesFile, ExactCount, ExitClosesDevice
<1> QED BY <1>3 DEF FileInv, ReasonInv, SizeInv

(* rx_callback() counts a block and writes it; it is not there any more    *)
(* when main() takes the size of the file.                                 *)
LEMMA CallbackSteps ==
  ASSUME IInv, Alive, CallbackFd \/ CallbackCount \/ CallbackWrite
  PROVE  RxInv'
<1> USE DEF CallbackFd, CallbackCount, CallbackWrite, CallbackMoves, file, IInv, RxInv
<1>1. NotMain /\ UNCHANGED <<libvars, ok>>
  BY DEF NotMain
<1>2. CallInv' /\ StreamInv'
  BY <1>1 DEF NotMain, libvars, CallInv, StreamInv, NotStarted
<1>3. CallbackInv'
  BY <1>1 DEF libvars, CallbackInv
<1>4. CountInv' /\ (bytes_to_xfer = 0 => bytes_to_xfer' = 0)
  <2>1. CASE CallbackFd
    BY <2>1 DEF CountInv, Counted, options
  <2>2. CASE CallbackCount
    <3>1. BlockBytes \in Nat
      BY RxAssumption
    <3>2. /\ bytes_to_write' \in Nat
          /\ limit_num_samples =>
               bytes_to_xfer' \in Nat /\ bytes_to_xfer' + bytes_to_write' = bytes_to_xfer
          /\ ~limit_num_samples => bytes_to_xfer' = bytes_to_xfer
      BY <2>2, <3>1 DEF CountInv
    <3> QED BY <2>2, <3>2 DEF CountInv, Counted, options
  <2>3. CASE CallbackWrite
    <3>1. bytes_written' \in 0 .. bytes_to_write
      BY <2>3 DEF CountInv
    <3>2. ~failed' => ~failed /\ bytes_written' = bytes_to_write
      BY <2>3
    <3>3. /\ data' = data + bytes_written'
          /\ cb = "write" /\ cb' = "return"
          /\ UNCHANGED <<bytes_to_write, bytes_to_xfer, limit, limit_num_samples>>
      BY <2>3 DEF options
    <3>4. Counted = data + bytes_to_xfer + bytes_to_write
      BY <3>3 DEF Counted
    <3>5. Counted' = data + bytes_written' + bytes_to_xfer + 0
      BY <3>3 DEF Counted
    <3>6. /\ data + bytes_written' \in Nat
          /\ limit_num_samples => Counted' <= limit
          /\ limit_num_samples /\ ~failed' => Counted' = limit
      <4>1. data \in Nat /\ bytes_to_xfer \in Nat /\ bytes_to_write \in Nat /\ limit \in Nat
        BY DEF CountInv
      <4>2. \A n \in 0 .. bytes_to_write :
              /\ data + n \in Nat
              /\ Counted <= limit => data + n + bytes_to_xfer + 0 <= limit
              /\ Counted = limit /\ n = bytes_to_write =>
                   data + n + bytes_to_xfer + 0 = limit
        BY <3>4, <4>1
      <4>3. /\ limit_num_samples => Counted <= limit
            /\ limit_num_samples /\ ~failed => Counted = limit
        BY DEF CountInv
      <4>4. /\ data + bytes_written' \in Nat
            /\ Counted <= limit => Counted' <= limit
            /\ Counted = limit /\ bytes_written' = bytes_to_write => Counted' = limit
        BY <3>1, <3>5, <4>2, Zenon
      <4> QED BY <3>2, <4>3, <4>4
    <3>7. bytes_written' \in Nat
      BY <3>1 DEF CountInv
    <3> QED BY <3>3, <3>6, <3>7 DEF CountInv
  <2> QED BY <2>1, <2>2, <2>3
<1>5. FileInv' /\ Claims' /\ ReasonInv'
  BY <1>1, <1>4, NotMainKeeps DEF libvars
<1>6. SizeInv'
  <2>1. CASE CallbackWrite
    <3>1. pc \in {"header", "fclose", "forget"} => derailed
      BY <2>1, ClosedIsQuiet DEF CallInv
    <3> QED BY <1>1, <3>1 DEF NotMain, libvars, SizeInv
  <2>2. CASE CallbackFd \/ CallbackCount
    BY <1>1, <1>4, <2>2, NotMainKeeps DEF libvars
  <2> QED BY <2>1, <2>2
<1> QED BY <1>2, <1>3, <1>4, <1>5, <1>6

(* The threads and libusb: only a derailed stream ends while main() waits. *)
LEMMA ThreadSteps ==
  ASSUME IInv, Alive, CallbackEnter \/ CallbackReturn \/ ConsumerWaits \/ LibThreads
  PROVE  RxInv'
<1> USE DEF IInv, RxInv
<1>1. NotMain /\ UNCHANGED <<ok, data, bytes_to_xfer, bytes_to_write, limit, failed>>
  BY DEF CallbackEnter, CallbackReturn, ConsumerWaits, LibThreads, NotMain, tool, file,
     callback, options, sig
<1>2. /\ UNCHANGED <<apc, closing, session, transfer_thread>>
      /\ \/ UNCHANGED <<streaming, derailed>>
         \/ derailed' = (derailed \/ ~Lib!Stopping)
  BY DEF CallbackEnter, CallbackReturn, ConsumerWaits, LibThreads, Lib!ConsumerLoop,
     Lib!ClientReturns, Lib!ConsumerWakes, Lib!TransferExits, Lib!StreamEnds,
     Lib!TransferEnds, Lib!ThreadsOnly, Lib!call, Lib!threads, Lib!flags
<1>3. consumer \in [Lib!Sessions -> Lib!ConsumerStates] /\ 1 \in Lib!Sessions
  BY DEF LibP!IInv, LibP!TypeInv, LibP!TypeOK, LibP!Sessions, LibP!ConsumerStates,
     Lib!Sessions, Lib!ConsumerStates
<1>4. consumer[1] = "none" => consumer'[1] = "none"
  BY <1>3 DEF CallbackEnter, CallbackReturn, ConsumerWaits, LibThreads, Lib!ConsumerLoop,
     Lib!ClientReturns, Lib!ConsumerWakes, Lib!TransferExits, Lib!StreamEnds,
     Lib!TransferEnds, Lib!ConsumerMoves, Lib!threads
<1>5. (derailed => derailed') /\ CallInv' /\ StreamInv'
  <2>1. CASE UNCHANGED <<streaming, derailed>>
    BY <1>1, <1>2, <1>4, <2>1 DEF CallInv, StreamInv, NotStarted, NotMain
  <2>2. CASE derailed' = (derailed \/ ~Lib!Stopping)
    <3>1. derailed => derailed'
      BY <2>2
    <3>2. apc = "idle" => derailed'
      BY <2>2 DEF Lib!Stopping
    <3> QED BY <1>1, <1>2, <1>4, <3>1, <3>2 DEF CallInv, StreamInv, NotStarted, NotMain
  <2> QED BY <1>2, <2>1, <2>2
<1>6. CountInv'
  <2>1. cb' = "write" <=> cb = "write"
    BY DEF CallbackEnter, CallbackReturn, ConsumerWaits, LibThreads, tool, callback
  <2>2. bytes_written' = bytes_written
    BY DEF CallbackEnter, CallbackReturn, ConsumerWaits, LibThreads, tool, callback
  <2> QED BY <1>1, <2>1, <2>2 DEF CountInv, Counted, NotMain, options
<1>7. CallbackInv'
  <2>1. CASE CallbackEnter
    BY <2>1 DEF CallbackEnter, CallbackInv
  <2>2. CASE CallbackReturn
    BY <1>3, <2>2 DEF CallbackReturn, CallbackInv, Lib!ClientReturns, Lib!ConsumerMoves
  <2>3. CASE ConsumerWaits
    BY <1>3, <2>3 DEF ConsumerWaits, tool, callback, CallbackInv, Lib!ConsumerLoop,
       Lib!ConsumerMoves
  <2>4. CASE LibThreads
    BY <1>3, <2>4 DEF LibThreads, tool, callback, CallbackInv, Lib!ConsumerWakes,
       Lib!ConsumerMoves, Lib!TransferExits, Lib!StreamEnds, Lib!TransferEnds, Lib!threads
  <2> QED BY <2>1, <2>2, <2>3, <2>4
<1> QED BY <1>1, <1>5, <1>6, <1>7, NotMainKeeps

(* A call of the library that main() waits for.                            *)
LEMMA LibCalls == ASSUME IInv, Alive, LibCall PROVE RxInv'
<1> USE DEF IInv, RxInv
<1> DEFINE StartActions == Lib!ReceiverMode \/ Lib!CreateTest \/ Lib!SubmitTransfer
              \/ Lib!NoTransfers \/ Lib!CreateConsumer \/ Lib!CreateTransfer
<1>1. NotMain /\ UNCHANGED <<callback, data>>
  BY DEF LibCall, LibStart, LibPacking, LibStop, NotMain, tool, file
<1>2. /\ consumer \in [Lib!Sessions -> Lib!ConsumerStates] /\ 1 \in Lib!Sessions
      /\ apc \in {"submit", "create_consumer", "create_transfer"} => session = 1
      /\ apc = "create_transfer" /\ ~derailed => streaming
  BY DEF LibP!IInv, LibP!TypeInv, LibP!TypeOK, LibP!Sessions, LibP!ConsumerStates,
     Lib!Sessions, Lib!ConsumerStates, LibP!StreamInv, LibP!CallInv
<1>3. derailed => derailed'
  BY DEF LibCall, LibStart, LibPacking, LibStop, Lib!StartSteps, Lib!OtherSteps,
     Lib!StopSteps, Lib!ReceiverMode, Lib!CreateTest, Lib!SubmitTransfer,
     Lib!NoTransfers, Lib!CreateConsumer, Lib!CreateTransfer, Lib!CreateFails,
     Lib!PackingSet, Lib!Reallocate, Lib!Signal, Lib!JoinTransfer, Lib!JoinConsumer,
     Lib!StopOff, Lib!Close
<1>4. CountInv'
  BY <1>1 DEF NotMain, CountInv, Counted, options, callback
<1>5. FileInv' /\ Claims' /\ ReasonInv' /\ SizeInv'
  BY <1>1, <1>3, <1>4, NotMainKeeps DEF callback
<1>6. CASE LibStart
  <2>1. pc = "start_result" /\ StartActions
    BY <1>6 DEF LibStart, Lib!StartSteps, Lib!ReceiverMode, Lib!CreateTest, Lib!SubmitTransfer,
       Lib!NoTransfers, Lib!CreateConsumer, Lib!CreateTransfer, Lib!AppMoves, CallInv, Alive
  <2>2. CallInv' /\ StreamInv'
    BY <1>1, <1>2, <1>6, <2>1 DEF NotMain, LibStart, CallInv, StreamInv, Lib!ReceiverMode,
       Lib!CreateTest, Lib!SubmitTransfer, Lib!NoTransfers, Lib!CreateConsumer,
       Lib!CreateTransfer, Lib!CreateFails, Lib!AppMoves, Lib!threads, Lib!flags
  <2>3. CallbackInv'
    BY <1>1, <1>2, <2>1 DEF callback, CallbackInv, StreamInv, Lib!ReceiverMode, Lib!CreateTest,
       Lib!SubmitTransfer, Lib!NoTransfers, Lib!CreateConsumer, Lib!CreateTransfer,
       Lib!AppMoves, Lib!threads
  <2> QED BY <1>4, <1>5, <2>2, <2>3
<1>7. CASE LibPacking
  <2>1. pc = "packing_result" /\ UNCHANGED <<Lib!threads, streaming>>
        /\ apc' \in {"idle", "reallocate"}
    BY <1>7 DEF LibPacking, Lib!OtherSteps, Lib!PackingSet, Lib!Reallocate, Lib!flags,
       Lib!AppMoves, CallInv, Alive
  <2>2. CallInv' /\ StreamInv' /\ CallbackInv'
    BY <1>1, <2>1 DEF NotMain, callback, CallInv, StreamInv, NotStarted, CallbackInv, Lib!threads
  <2> QED BY <1>4, <1>5, <2>2
<1>8. CASE LibStop
  <2>1. /\ pc \in {"stopping", "closing", "failing"}
        /\ UNCHANGED closing
        /\ apc' \in {"join_transfer", "join_consumer", "stop_off", "close", "closed",
                     "idle", "crashed"}
        /\ apc' = "idle" => ~closing
        /\ apc' \in {"close", "closed"} => closing
    BY <1>8 DEF LibStop, Lib!StopSteps, Lib!Signal, Lib!JoinTransfer, Lib!JoinConsumer,
       Lib!StopOff, Lib!Close, Lib!AppMoves, CallInv, Alive
  <2>2. CallInv' /\ StreamInv'
    BY <1>1, <2>1 DEF NotMain, CallInv, StreamInv
  <2>3. consumer'[1] = "process" <=> consumer[1] = "process"
    BY <1>2, <1>8 DEF LibStop, Lib!StopSteps, Lib!Signal, Lib!JoinTransfer,
       Lib!JoinConsumer, Lib!StopOff, Lib!Close, Lib!threads, Lib!Sessions
  <2>4. CallbackInv'
    BY <1>1, <2>3 DEF callback, CallbackInv
  <2> QED BY <1>4, <1>5, <2>2, <2>4
<1> QED BY <1>6, <1>7, <1>8 DEF LibCall

(* Every step of the program keeps the invariant.                          *)
LEMMA NextInv == IInv /\ [Next]_vars => IInv'
<1> SUFFICES ASSUME IInv, [Next]_vars PROVE RxInv'
  BY LibraryNext DEF IInv
<1>1. CASE UNCHANGED vars
  BY <1>1 DEF IInv, RxInv, vars, libvars, tool, file, callback, options, sig, CallInv,
     StreamInv, NotStarted, FileInv, CountInv, Counted, CallbackInv, ReasonInv, SizeInv,
     Claims, HeaderMatchesFile, ExactCount, ExitClosesDevice, Lib!LiveConsumers,
     Lib!LiveTransfers
<1>2. CASE Alive /\ MainStep
  BY <1>2, FirstSteps, LastSteps DEF MainStep
<1>3. CASE Alive /\ (LibCall \/ Signal)
  BY <1>3, LibCalls, SignalStep
<1>4. CASE Alive /\ (CallbackEnter \/ CallbackStep \/ ConsumerWaits \/ LibThreads)
  BY <1>4, CallbackSteps, ThreadSteps DEF CallbackStep
<1> QED BY <1>1, <1>2, <1>3, <1>4 DEF Next, Finished

-----------------------------------------------------------------------------
(* The invariant holds throughout.                                         *)
LEMMA Invariance == Spec => []IInv
<1>1. Init => IInv
  BY LibraryInit, RxInit DEF IInv
<1> QED BY <1>1, NextInv, PTL DEF Spec

(* The header of a finished file gives the size of its data, whatever the  *)
(* order in which main(), the callback and the library's threads went on,  *)
(* unless the stream was derailed.                                         *)
THEOREM HeaderIsRight == Spec => []HeaderMatchesFile
<1>1. IInv => HeaderMatchesFile
  BY DEF IInv, RxInv, Claims
<1> QED BY <1>1, Invariance, PTL

(* No file gets more than was asked for, and one whose run was neither     *)
(* interrupted nor derailed nor failed has exactly that much.              *)
THEOREM CountIsExact == Spec => []ExactCount
<1>1. IInv => ExactCount
  BY DEF IInv, RxInv, Claims
<1> QED BY <1>1, Invariance, PTL

(* However the program ends, it has closed the device first.               *)
THEOREM DeviceIsClosed == Spec => []ExitClosesDevice
<1>1. IInv => ExitClosesDevice
  BY DEF IInv, RxInv, Claims
<1> QED BY <1>1, Invariance, PTL

-----------------------------------------------------------------------------
(* The types of the variables.                                             *)

(* The bytes of the blocks that were handed over are in the file, in the   *)
(* block that the callback holds, or cut off.                              *)
Held == IF cb \in {"enter", "count"} THEN BlockBytes
        ELSE IF cb = "write" THEN bytes_to_write ELSE 0

ToolInv ==
  /\ ok \in BOOLEAN /\ do_exit \in BOOLEAN
  /\ fd \in {"null", "open", "closed"}
  /\ limit_num_samples \in BOOLEAN
  /\ bytes_to_write \in 0 .. BlockBytes
  /\ bytes_written \in 0 .. bytes_to_write \/ cb # "return"
  /\ data + Held <= blocks * BlockBytes
  /\ blocks \in 0 .. MaxBlocks
  /\ chunkSize \in {None} \cup 0 .. SizeModulus - 1
  /\ file_pos \in 0 .. SizeModulus - 1

(* Nothing was handed over yet.                                            *)
LEMMA ToolInit == Init => ToolInv
<1> SUFFICES ASSUME Init PROVE ToolInv
  OBVIOUS
<1>1. /\ cb = "none" /\ blocks = 0 /\ data = 0 /\ bytes_to_write = 0
      /\ file_pos = 0 /\ chunkSize = None /\ fd = "null"
      /\ limit_num_samples \in BOOLEAN
  BY DEF Init
<1>2. ok \in BOOLEAN /\ do_exit \in BOOLEAN
  BY Zenon DEF Init
<1>3. data + Held <= blocks * BlockBytes
  BY <1>1, RxAssumption DEF Held
<1> QED BY <1>1, <1>2, <1>3, RxAssumption DEF ToolInv

(* main() changes the file's state, and asks for the end.                  *)
LEMMA ToolMain == IInv /\ ToolInv /\ (MainStep \/ Signal) => ToolInv'
<1> SUFFICES ASSUME IInv, ToolInv, MainStep \/ Signal PROVE ToolInv'
  OBVIOUS
<1>1. /\ UNCHANGED <<callback, data, options>>
      /\ fd' \in {fd, "null", "open", "closed"}
      /\ chunkSize' \in {chunkSize, 0, file_pos}
      /\ file_pos' \in {file_pos, data % SizeModulus}
      /\ ok' \in {ok, FALSE}
  BY DEF MainStep, Signal, Configure, SetPacking, PackingResult, RfBias,
         OpenFile, InstallHandler, Tune, StartRx, StartResult, Fail,
         ExitFailure, Poll, PollLimit, StopRx, CloseDevice, DeviceClosed,
         TakeSize, WriteHeader, CloseFile, file, options, sig
<1>2. do_exit' \in BOOLEAN
  <2>1. \/ do_exit' = do_exit
        \/ do_exit' = TRUE
        \/ do_exit' = (do_exit \/ (limit_num_samples /\ bytes_to_xfer = 0))
    BY Zenon
       DEF MainStep, Signal, Configure, SetPacking, PackingResult, RfBias,
           OpenFile, InstallHandler, Tune, StartRx, StartResult, Fail,
           ExitFailure, Poll, PollLimit, StopRx, CloseDevice, DeviceClosed,
           TakeSize, WriteHeader, CloseFile, sig
  <2> QED BY <2>1, Zenon DEF ToolInv
<1>3. data % SizeModulus \in 0 .. SizeModulus - 1 /\ 0 \in 0 .. SizeModulus - 1
  BY RxAssumption DEF IInv, RxInv, CountInv
<1>4. Held' = Held /\ blocks' = blocks /\ data' = data
  BY <1>1 DEF callback, Held
<1>5. ok' \in BOOLEAN
  BY <1>1, Zenon DEF ToolInv
<1> QED BY <1>1, <1>2, <1>3, <1>4, <1>5 DEF callback, options, ToolInv

(* Less of the same.                                                       *)
LEMMA LessOfSum ==
  \A d, h, less, sum \in Nat : d + h <= sum /\ less <= h => d + less <= sum
OBVIOUS

(* The callback takes a block, cuts it, and writes no more than it cut.    *)
LEMMA ToolCallback ==
  IInv /\ ToolInv /\ (CallbackEnter \/ CallbackStep) => ToolInv'
<1> SUFFICES ASSUME IInv, ToolInv, CallbackEnter \/ CallbackStep PROVE ToolInv'
  OBVIOUS
<1>1. /\ BlockBytes \in Nat /\ MaxBlocks \in Nat /\ blocks \in Nat
      /\ data \in Nat /\ bytes_to_xfer \in Nat /\ bytes_to_write \in Nat
  BY RxAssumption DEF IInv, RxInv, CountInv, ToolInv
<1>2. PICK total \in Nat : total = blocks * BlockBytes
  BY <1>1
<1>3. (blocks + 1) * BlockBytes = total + BlockBytes
  BY <1>1, <1>2
<1>4. data + Held <= total
  BY <1>2 DEF ToolInv
<1>5. UNCHANGED <<ok, do_exit, fd, limit_num_samples, chunkSize, file_pos>>
  BY DEF CallbackEnter, CallbackStep, CallbackFd, CallbackCount, CallbackWrite,
         CallbackReturn, file, options, sig
<1>6. CASE CallbackEnter
  <2>1. /\ cb = "none" /\ cb' = "enter" /\ data' = data
        /\ blocks' = blocks + 1 /\ blocks < MaxBlocks
        /\ bytes_to_write' = bytes_to_write
    BY <1>6 DEF CallbackEnter, file
  <2>2. data + 0 <= total
    BY <1>4, <2>1 DEF Held
  <2>3. Held' = BlockBytes /\ blocks' * BlockBytes = total + BlockBytes
    BY <1>3, <2>1 DEF Held
  <2>4. data' + Held' <= blocks' * BlockBytes
    BY <1>1, <2>1, <2>2, <2>3
  <2> QED BY <1>1, <1>5, <2>1, <2>4 DEF ToolInv
<1>7. CASE CallbackFd
  <2>1. /\ cb = "enter" /\ cb' \in {"abort", "count"} /\ data' = data
        /\ blocks' = blocks /\ bytes_to_write' = bytes_to_write
    BY <1>7 DEF CallbackFd, CallbackMoves, file
  <2>2. Held' \in {0, BlockBytes} /\ Held = BlockBytes
    BY <2>1 DEF Held
  <2>3. Held' \in Nat /\ Held' <= Held
    BY <1>1, <2>2
  <2>4. data' + Held' <= total
    BY <1>1, <1>4, <2>1, <2>2, <2>3, LessOfSum
  <2> QED BY <1>2, <1>5, <2>1, <2>4 DEF ToolInv
<1>8. CASE CallbackCount
  <2>1. /\ cb = "count" /\ cb' = "write" /\ data' = data /\ blocks' = blocks
        /\ bytes_to_write' = IF limit_num_samples /\ BlockBytes >= bytes_to_xfer
                               THEN bytes_to_xfer ELSE BlockBytes
    BY <1>8 DEF CallbackCount, CallbackMoves, file
  <2>2. bytes_to_write' \in 0 .. BlockBytes
    BY <1>1, <2>1
  <2>3. Held' = bytes_to_write' /\ Held = BlockBytes
    BY <2>1 DEF Held
  <2>4. Held' \in Nat /\ Held' <= Held
    BY <1>1, <2>2, <2>3
  <2>5. data' + Held' <= total
    BY <1>1, <1>4, <2>1, <2>3, <2>4, LessOfSum
  <2> QED BY <1>2, <1>5, <2>1, <2>2, <2>5 DEF ToolInv
<1>9. CASE CallbackWrite
  <2>1. /\ cb = "write" /\ cb' = "return" /\ data' = data + bytes_written'
        /\ blocks' = blocks /\ bytes_to_write' = bytes_to_write
        /\ bytes_written' \in 0 .. bytes_to_write
    BY <1>1, <1>9 DEF CallbackWrite, CallbackMoves
  <2>2. Held' = 0 /\ Held = bytes_to_write
    BY <2>1 DEF Held
  <2>3. data + bytes_to_write <= total
    BY <1>4, <2>2
  <2>4. \A n \in 0 .. bytes_to_write : data + n + 0 <= total
    BY <1>1, <2>3
  <2>5. data' + Held' <= total
    BY <2>1, <2>2, <2>4, Zenon
  <2> QED BY <1>2, <1>5, <2>1, <2>5 DEF ToolInv
<1>10. CASE CallbackReturn
  <2>1. /\ cb \in {"abort", "return"} /\ cb' = "none" /\ data' = data
        /\ blocks' = blocks /\ bytes_to_write' = bytes_to_write
    BY <1>10 DEF CallbackReturn, file
  <2>2. Held' = 0 /\ Held = 0
    BY <2>1 DEF Held
  <2> QED BY <1>5, <2>1, <2>2 DEF ToolInv
<1> QED BY <1>6, <1>7, <1>8, <1>9, <1>10 DEF CallbackStep

(* A call of the library has a result, and nothing else of the program     *)
(* changes.                                                                *)
LEMMA ToolOther ==
  ToolInv /\ (LibCall \/ ConsumerWaits \/ LibThreads \/ UNCHANGED vars)
    => ToolInv'
<1> SUFFICES ASSUME ToolInv,
                    LibCall \/ ConsumerWaits \/ LibThreads \/ UNCHANGED vars
             PROVE  ToolInv'
  OBVIOUS
<1>1. UNCHANGED <<file, callback, options, sig>>
  BY DEF LibCall, LibStart, LibPacking, LibStop, ConsumerWaits, LibThreads,
         tool, vars
<1>2. ok' \in BOOLEAN
  <2>1. CASE LibStart
    BY <2>1, Zenon DEF LibStart
  <2>2. CASE LibPacking
    BY <2>2, Zenon DEF LibPacking
  <2>3. CASE LibStop \/ ConsumerWaits \/ LibThreads \/ UNCHANGED vars
    <3>1. ok' = ok
      BY <2>3 DEF LibStop, ConsumerWaits, LibThreads, tool, vars
    <3> QED BY <3>1, Zenon DEF ToolInv
  <2> QED BY <2>1, <2>2, <2>3 DEF LibCall
<1>3. Held' = Held /\ blocks' = blocks /\ data' = data
  BY <1>1 DEF file, callback, Held
<1> QED BY <1>1, <1>2, <1>3 DEF file, callback, options, sig, ToolInv

(* Every variable keeps its type, whatever the sizes: the callback never   *)
(* has more to write than a block, and the file never more than the blocks *)
(* handed over.                                                            *)
THEOREM TypeCorrect == Spec => []TypeOK
<1>1. Init => ToolInv
  BY ToolInit
<1>2. IInv /\ ToolInv /\ [Next]_vars => ToolInv'
  BY ToolMain, ToolCallback, ToolOther DEF Next, Finished
<1>3. IInv /\ ToolInv => TypeOK
  <2> SUFFICES ASSUME IInv, ToolInv PROVE TypeOK
    OBVIOUS
  <2>1. Lib!TypeOK
    BY DEF IInv, LibP!IInv, LibP!TypeInv, LibP!TypeOK, Lib!TypeOK,
           LibP!Sessions, Lib!Sessions, LibP!ConsumerStates,
           Lib!ConsumerStates, LibP!ThreadStates, Lib!ThreadStates,
           LibP!TransferStates, Lib!TransferStates
  <2>2. /\ BlockBytes \in Nat /\ blocks \in Nat /\ data \in Nat
        /\ bytes_to_xfer \in Nat /\ bytes_to_write \in Nat
    BY RxAssumption DEF IInv, RxInv, CountInv, ToolInv
  <2>3. PICK total \in Nat : total = blocks * BlockBytes
    BY <2>2
  <2>4. data + Held <= total /\ Held \in Nat
    BY <2>2, <2>3 DEF ToolInv, Held
  <2>5. data \in 0 .. blocks * BlockBytes
    BY <2>2, <2>3, <2>4
  <2> QED BY <2>1, <2>2, <2>5 DEF ToolInv, TypeOK, IInv, RxInv, CallbackInv
<1> QED BY <1>1, <1>2, <1>3, Invariance, PTL DEF Spec
=============================================================================
