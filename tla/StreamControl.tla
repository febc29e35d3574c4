--------------------------- MODULE StreamControl ---------------------------
(***************************************************************************)
(* The life of an open libairspy device: airspy_start_rx(), the threads it *)
(* creates, airspy_stop_rx(), airspy_set_packing() and the buffers it      *)
(* reallocates, airspy_set_conversion_filter_*(), airspy_close(), with the *)
(* errors each of them may return on the way.                              *)
(*                                                                         *)
(* The blocks themselves are the subject of SampleQueue.  Here a consumer  *)
(* is between two blocks, blocked on the condition variable or working on  *)
(* a block, and transfers are idle or in flight.  Every call of the        *)
(* application is a sequence of steps; the threads of the session, and     *)
(* those an earlier session left behind, run between them.                 *)
(***************************************************************************)
EXTENDS Integers, Sequences

CONSTANTS
  transfer_count,  \* transfers of a session (16 in the code)
  MaxStarts        \* bound: calls of start_rx that get past the BUSY test

ASSUME ControlAssumption ==
  /\ transfer_count \in Nat \ {0}
  /\ MaxStarts \in Nat \ {0}

VARIABLES
  streaming, stop_requested,
  packing_enabled,
  transfers,          \* <<>> for NULL, else the state of each transfer
  converter,          \* which of two IQ converters the device uses
  session,            \* create_io_threads calls that passed the BUSY test
  consumer, transfer, \* the threads that each session created
  consumer_thread,    \* device->consumer_thread: the session it belongs to
  transfer_thread,    \* device->transfer_thread
  apc,                \* where the application is in a call
  closing,            \* stop_rx was called by close
  next,               \* the next transfer to submit
  packing,            \* the argument of set_packing
  derailed            \* history: a stream failed to start or ended by itself

flags   == <<streaming, stop_requested>>
buffers == <<packing_enabled, transfers, converter>>
threads == <<session, consumer, transfer, consumer_thread, transfer_thread>>
call    == <<apc, closing, next, packing>>
vars    == <<flags, buffers, threads, call, derailed>>

Sessions       == 1 .. MaxStarts
TransferStates == {"null", "bare", "idle", "inflight"}
ConsumerStates == {"none", "running", "blocked", "process", "done", "joined"}
ThreadStates   == {"none", "running", "done", "joined"}

Running == streaming /\ ~stop_requested

LiveConsumers == {k \in Sessions : consumer[k] \in {"running", "blocked", "process"}}
LiveTransfers == {k \in Sessions : transfer[k] = "running"}

(* The application waits in libusb_control_transfer(), which handles the   *)
(* events of the other transfers too.                                      *)
InControl == apc \in {"start_off", "start_on", "stop_off", "set_packing"}

(* From the moment kill_io_threads() has seen streaming set.               *)
Stopping == apc \in {"signal", "join_transfer", "join_consumer"}

AllIdle == [t \in 1 .. transfer_count |-> "idle"]

(* State after airspy_open(): packing off, everything allocated.           *)
Init ==
  /\ streaming = FALSE
  /\ stop_requested = FALSE
  /\ packing_enabled = FALSE
  /\ transfers = AllIdle
  /\ converter = 0
  /\ session = 0
  /\ consumer = [k \in Sessions |-> "none"]
  /\ transfer = [k \in Sessions |-> "none"]
  /\ consumer_thread = 0
  /\ transfer_thread = 0
  /\ apc = "idle"
  /\ closing = FALSE
  /\ next = 1
  /\ packing = FALSE
  /\ derailed = FALSE

-----------------------------------------------------------------------------
(* airspy_start_rx()                                                       *)

AppMoves(from, to) == apc = from /\ apc' = to

(* Converters and loss counters are reset before anything is tested.       *)
StartRx ==
  /\ session < MaxStarts
  /\ AppMoves("idle", "start_off")
  /\ UNCHANGED <<flags, buffers, threads, closing, next, packing, derailed>>

(* airspy_set_receiver_mode(OFF), then (RX): an error ends the call.       *)
ReceiverMode ==
  /\ \/ AppMoves("start_off", "start_on")
     \/ AppMoves("start_on", "create")
     \/ AppMoves("start_off", "idle")
     \/ AppMoves("start_on", "idle")
  /\ UNCHANGED <<flags, buffers, threads, closing, next, packing, derailed>>

(* Mutation of CreateTest: a stream that is running is not refused.        *)
CreateTestUnguarded ==
  /\ apc = "create"
  /\ IF session < MaxStarts
       THEN /\ streaming' = TRUE
            /\ session' = session + 1
            /\ next' = 1
            /\ apc' = "submit"
       ELSE /\ apc' = "idle"
            /\ UNCHANGED <<streaming, session, next>>
  /\ UNCHANGED <<stop_requested, buffers, consumer, transfer, consumer_thread,
                 transfer_thread, closing, packing, derailed>>

(* The test at the top of create_io_threads().                             *)
CreateTest ==
  /\ apc = "create"
  /\ IF ~streaming /\ ~stop_requested
       THEN /\ streaming' = TRUE
            /\ session' = session + 1
            /\ next' = 1
            /\ apc' = "submit"
       ELSE /\ apc' = "idle"    \* AIRSPY_ERROR_BUSY
            /\ UNCHANGED <<streaming, session, next>>
  /\ UNCHANGED <<stop_requested, buffers, consumer, transfer, consumer_thread,
                 transfer_thread, closing, packing, derailed>>

(* An error from here on returns with streaming still set.                 *)
CreateFails ==
  /\ apc' = "idle"
  /\ derailed' = TRUE

(* prepare_transfers(), one transfer at a time.  A NULL transfer is        *)
(* dereferenced; libusb refuses one that is still in flight; submitting    *)
(* one that has no buffer, or any, may fail.                               *)
SubmitTransfer ==
  /\ apc = "submit"
  /\ transfers # <<>>
  /\ \/ /\ transfers[next] = "idle"
        /\ transfers' = [transfers EXCEPT ![next] = "inflight"]
        /\ next' = next + 1
        /\ apc' = IF next = transfer_count THEN "create_consumer" ELSE "submit"
        /\ UNCHANGED derailed
     \/ /\ transfers[next] \in {"idle", "inflight", "bare"}
        /\ CreateFails
        /\ UNCHANGED <<transfers, next>>
     \/ /\ transfers[next] = "null"
        /\ apc' = "crashed"
        /\ UNCHANGED <<transfers, next, derailed>>
  /\ UNCHANGED <<flags, packing_enabled, converter, threads,
                 closing, packing>>

(* "This shouldn't happen."                                                *)
NoTransfers ==
  /\ apc = "submit"
  /\ transfers = <<>>
  /\ CreateFails
  /\ UNCHANGED <<flags, buffers, threads, closing, next, packing>>

CreateConsumer ==
  /\ apc = "create_consumer"
  /\ \/ /\ consumer' = [consumer EXCEPT ![session] = "running"]
        /\ consumer_thread' = session
        /\ apc' = "create_transfer"
        /\ UNCHANGED derailed
     \/ /\ CreateFails
        /\ UNCHANGED <<consumer, consumer_thread>>
  /\ UNCHANGED <<flags, buffers, session, transfer, transfer_thread, closing,
                 next, packing>>

CreateTransfer ==
  /\ apc = "create_transfer"
  /\ \/ /\ transfer' = [transfer EXCEPT ![session] = "running"]
        /\ transfer_thread' = session
        /\ apc' = "idle"
        /\ UNCHANGED derailed
     \/ /\ CreateFails
        /\ UNCHANGED <<transfer, transfer_thread>>
  /\ UNCHANGED <<flags, buffers, session, consumer, consumer_thread, closing,
                 next, packing>>

-----------------------------------------------------------------------------
(* airspy_stop_rx() and airspy_close()                                     *)

(* kill_io_threads() does nothing unless streaming; else it asks the       *)
(* threads to stop and cancels the transfers, which end later.             *)
StopRx ==
  /\ AppMoves("idle", IF streaming THEN "signal" ELSE "stop_off")
  /\ closing' \in BOOLEAN
  /\ stop_requested' = (stop_requested \/ streaming)
  /\ UNCHANGED <<streaming, buffers, threads, next, packing, derailed>>

(* Mutation of Signal: the consumer is not woken.                          *)
NoSignal ==
  /\ AppMoves("signal", "join_transfer")
  /\ UNCHANGED <<flags, buffers, threads, closing, next, packing, derailed>>

(* pthread_cond_signal() wakes one thread that waits.                      *)
Signal ==
  /\ AppMoves("signal", "join_transfer")
  /\ IF \E k \in Sessions : consumer[k] = "blocked"
       THEN \E k \in Sessions :
              /\ consumer[k] = "blocked"
              /\ consumer' = [consumer EXCEPT ![k] = "running"]
       ELSE UNCHANGED consumer
  /\ UNCHANGED <<flags, buffers, session, transfer, consumer_thread,
                 transfer_thread, closing, next, packing, derailed>>

(* Joining a thread that was never created or is joined already is         *)
(* undefined: here it returns or crashes.                                  *)
Joinable(handle, thread) == handle # 0 /\ thread[handle] # "joined"

JoinTransfer ==
  /\ apc = "join_transfer"
  /\ IF Joinable(transfer_thread, transfer)
       THEN /\ transfer[transfer_thread] = "done"
            /\ transfer' = [transfer EXCEPT ![transfer_thread] = "joined"]
            /\ apc' = "join_consumer"
       ELSE /\ apc' \in {"join_consumer", "crashed"}
            /\ UNCHANGED transfer
  /\ UNCHANGED <<flags, buffers, session, consumer, consumer_thread,
                 transfer_thread, closing, next, packing, derailed>>

(* Mutation of ClearFlags: the stop request stays.                         *)
ClearStreaming == streaming' = FALSE /\ UNCHANGED stop_requested

ClearFlags == stop_requested' = FALSE /\ streaming' = FALSE

(* Mutation of JoinConsumer: the thread is not waited for.                 *)
JoinConsumerSkipped ==
  /\ AppMoves("join_consumer", "stop_off")
  /\ ClearFlags
  /\ UNCHANGED <<buffers, threads, closing, next, packing, derailed>>

JoinConsumer ==
  /\ apc = "join_consumer"
  /\ IF Joinable(consumer_thread, consumer)
       THEN /\ consumer[consumer_thread] = "done"
            /\ consumer' = [consumer EXCEPT ![consumer_thread] = "joined"]
            /\ apc' = "stop_off"
       ELSE /\ apc' \in {"stop_off", "crashed"}
            /\ UNCHANGED consumer
  /\ ClearFlags
  /\ UNCHANGED <<buffers, session, transfer, consumer_thread, transfer_thread,
                 closing, next, packing, derailed>>

(* airspy_set_receiver_mode(OFF): close goes on whatever it returns.       *)
StopOff ==
  /\ AppMoves("stop_off", IF closing THEN "close" ELSE "idle")
  /\ UNCHANGED <<flags, buffers, threads, closing, next, packing, derailed>>

(* Converters, condition variable and mutex are destroyed, the device is   *)
(* closed and the memory freed.                                            *)
Close ==
  /\ AppMoves("close", "closed")
  /\ transfers' = <<>>
  /\ converter' = -1
  /\ UNCHANGED <<flags, packing_enabled, threads, closing, next, packing,
                 derailed>>

-----------------------------------------------------------------------------
(* airspy_set_packing() and airspy_set_conversion_filter_*()               *)

SetPacking ==
  /\ ~streaming
  /\ AppMoves("idle", "set_packing")
  /\ packing' \in BOOLEAN
  /\ UNCHANGED <<flags, buffers, threads, closing, next, derailed>>

(* The control transfer; only a change of mode reallocates.                *)
PackingSet ==
  /\ \/ AppMoves("set_packing", "idle")  \* AIRSPY_ERROR_LIBUSB, or no change
     \/ packing # packing_enabled /\ AppMoves("set_packing", "reallocate")
  /\ UNCHANGED <<flags, buffers, threads, closing, next, packing, derailed>>

(* Mutation of Allocations: the array is one transfer short.               *)
AllocationsOneShort ==
  {<<>>, [t \in 1 .. transfer_count - 1 |-> "idle"]}

(* What allocate_transfers() may leave: everything, nothing, or an array   *)
(* that ends early, at a transfer that is NULL or has no buffer.           *)
Allocations ==
  {<<>>, AllIdle} \cup
  {[u \in 1 .. transfer_count |->
      IF u < t THEN "idle" ELSE IF u = t THEN s ELSE "null"] :
     t \in 1 .. transfer_count, s \in {"null", "bare"}}

(* cancel_transfers(), free_transfers(), allocate_transfers().             *)
Reallocate ==
  /\ AppMoves("reallocate", "idle")
  /\ packing_enabled' = packing
  /\ transfers' \in Allocations
  /\ UNCHANGED <<flags, converter, threads, closing, next, packing, derailed>>

(* AIRSPY_ERROR_BUSY while streaming; else the converter is replaced.      *)
SetConversionFilter ==
  /\ apc = "idle"
  /\ ~streaming
  /\ converter' = 1 - converter
  /\ UNCHANGED <<flags, packing_enabled, transfers, threads, call,
                 derailed>>

-----------------------------------------------------------------------------
(* The threads.                                                            *)

ConsumerMoves(k, from, to) ==
  /\ consumer[k] = from
  /\ consumer' = [consumer EXCEPT ![k] = to]

ThreadsOnly ==
  UNCHANGED <<streaming, buffers, session, consumer_thread, transfer_thread,
              call, derailed>>

(* The loops of consumer_threadproc(): wait for a block, work on one, or   *)
(* leave.  The flags are read under the mutex under which they are         *)
(* signalled, so that reading them and blocking are one step.              *)
ConsumerLoop(k) ==
  /\ \/ Running /\ ConsumerMoves(k, "running", "blocked")
     \/ Running /\ ConsumerMoves(k, "running", "process")
     \/ ~Running /\ ConsumerMoves(k, "running", "done")
  /\ ThreadsOnly
  /\ UNCHANGED <<stop_requested, transfer>>

(* The transfer callback signals a block, or the thread wakes up by itself.*)
ConsumerWakes(k) ==
  /\ ConsumerMoves(k, "blocked", "running")
  /\ ThreadsOnly
  /\ UNCHANGED <<stop_requested, transfer>>

(* The client callback returns; a result other than 0 asks for a stop.     *)
ClientReturns(k) ==
  /\ ConsumerMoves(k, "process", "running")
  /\ UNCHANGED stop_requested \/ stop_requested' = TRUE
  /\ ThreadsOnly
  /\ UNCHANGED transfer

(* The while condition of transfer_threadproc().                           *)
TransferExits(k) ==
  /\ transfer[k] = "running"
  /\ ~Running
  /\ transfer' = [transfer EXCEPT ![k] = "done"]
  /\ ThreadsOnly
  /\ UNCHANGED <<stop_requested, consumer>>

-----------------------------------------------------------------------------
(* libusb events.                                                          *)

EventsHandled == LiveTransfers # {} \/ InControl

(* The stream ends by itself: a transfer does not complete or cannot be    *)
(* submitted again (in the transfer callback, which may have seen the      *)
(* stream running before a stop was asked for), or the event loop fails.   *)
(* Nobody signals the consumer.                                            *)
StreamEnds ==
  /\ streaming
  /\ \/ /\ EventsHandled
        /\ \E t \in DOMAIN transfers :
             /\ transfers[t] = "inflight"
             /\ transfers' = [transfers EXCEPT ![t] = "idle"]
     \/ LiveTransfers # {} /\ UNCHANGED transfers
  /\ streaming' = FALSE
  /\ derailed' = (derailed \/ ~Stopping)
  /\ UNCHANGED <<stop_requested, packing_enabled, converter,
                 threads, call>>

(* The callback of a transfer that ended once the stream is being stopped  *)
(* returns without submitting it again.                                    *)
TransferEnds ==
  /\ ~Running /\ EventsHandled
  /\ \E t \in DOMAIN transfers :
       /\ transfers[t] = "inflight"
       /\ transfers' = [transfers EXCEPT ![t] = "idle"]
  /\ UNCHANGED <<flags, packing_enabled, converter, threads, call,
                 derailed>>

-----------------------------------------------------------------------------
StartSteps == ReceiverMode \/ CreateTest \/ SubmitTransfer \/ NoTransfers
              \/ CreateConsumer \/ CreateTransfer
StopSteps  == Signal \/ JoinTransfer \/ JoinConsumer \/ StopOff \/ Close
OtherSteps == PackingSet \/ Reallocate
Calls      == StartRx \/ StopRx \/ SetPacking \/ SetConversionFilter

Thread(k) == ConsumerLoop(k) \/ ClientReturns(k) \/ TransferExits(k)

Finished == apc \in {"closed", "crashed"} /\ UNCHANGED vars

Next ==
  \/ Calls
  \/ StartSteps
  \/ StopSteps
  \/ OtherSteps
  \/ \E k \in Sessions : Thread(k) \/ ConsumerWakes(k)
  \/ StreamEnds
  \/ TransferEnds
  \/ Finished

Spec == Init /\ [][Next]_vars

(* A call runs to its end, a thread that is not blocked runs and the       *)
(* client callback returns.                                                *)
Fairness ==
  /\ WF_vars(StartSteps) /\ WF_vars(StopSteps) /\ WF_vars(OtherSteps)
  /\ \A k \in Sessions :
       /\ WF_vars(ConsumerLoop(k) \/ ClientReturns(k))
       /\ WF_vars(TransferExits(k))

FairSpec == Spec /\ Fairness

-----------------------------------------------------------------------------
(* Properties.                                                             *)

TypeOK ==
  /\ streaming \in BOOLEAN /\ stop_requested \in BOOLEAN
  /\ packing_enabled \in BOOLEAN /\ packing \in BOOLEAN
  /\ transfers = <<>> \/ transfers \in [1 .. transfer_count -> TransferStates]
  /\ converter \in {-1, 0, 1}
  /\ session \in 0 .. MaxStarts
  /\ consumer \in [Sessions -> ConsumerStates]
  /\ transfer \in [Sessions -> ThreadStates]
  /\ consumer_thread \in 0 .. session
  /\ transfer_thread \in 0 .. session
  /\ apc \in {"idle", "start_off", "start_on", "create", "submit",
              "create_consumer", "create_transfer", "signal", "join_transfer",
              "join_consumer", "stop_off", "close", "closed", "set_packing",
              "reallocate", "crashed"}
  /\ closing \in BOOLEAN /\ derailed \in BOOLEAN
  /\ next \in 1 .. transfer_count + 1

(* Unless a stream failed to start or ended by itself, the threads alive   *)
(* are those of the latest session, and kill_io_threads() joins them while *)
(* they are joinable.                                                      *)
OneStream ==
  ~derailed =>
    /\ LiveConsumers \cup LiveTransfers \subseteq {session}
    /\ apc \in {"join_transfer", "join_consumer"} =>
         /\ consumer_thread = session /\ Joinable(consumer_thread, consumer)
         /\ transfer_thread = session
         /\ apc = "join_transfer" => Joinable(transfer_thread, transfer)

(* ... and a device that does not stream has no threads and no stop        *)
(* request left over: the next start_rx() is not refused.                  *)
Restartable ==
  ~derailed /\ ~streaming /\ ~Stopping =>
    /\ ~stop_requested
    /\ LiveConsumers \cup LiveTransfers = {}

(* ... and no converter, buffer, mutex or condition variable is freed or   *)
(* replaced under a live thread: the streaming flag guards them.           *)
NoFreeInUse ==
  [][\/ converter' # converter
     \/ apc = "reallocate" /\ apc' = "idle"
     => derailed \/ LiveConsumers \cup LiveTransfers = {}]_vars

(* ... and a call of stop_rx() or close() comes to its end.                *)
StopReturns ==
  (Stopping /\ ~derailed) ~> (apc \in {"idle", "closed"})

(* prepare_transfers(), of a device without transfers: "This shouldn't     *)
(* happen."                                                                *)
PrepareHasTransfers == apc = "submit" => transfers # <<>>

(* free_transfers(): "libusb_close() should free all transfers referenced  *)
(* from this array."  When it is called, after a stream that was stopped   *)
(* without any error, libusb has none of them any more.                    *)
FreedTransfersEnded ==
  apc = "reallocate" /\ ~derailed =>
    \A t \in DOMAIN transfers : transfers[t] # "inflight"
=============================================================================
