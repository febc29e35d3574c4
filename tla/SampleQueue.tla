---------------------------- MODULE SampleQueue ----------------------------
(***************************************************************************)
(* The received-samples queue of libairspy during one streaming session:   *)
(* from the moment create_io_threads() has succeeded until stop_rx() has   *)
(* returned.  Four actors share the device structure:                      *)
(*                                                                         *)
(*  - the USB device and libusb, which fill the buffers of the submitted   *)
(*    transfers (external);                                                *)
(*  - the event handler: the thread inside libusb's event loop, which runs *)
(*    airspy_libusb_transfer_callback().  That is transfer_threadproc(), or*)
(*    the application thread while it waits in libusb_control_transfer();  *)
(*    libusb lets one thread at a time handle events;                      *)
(*  - consumer_threadproc(), which hands each block to the client callback;*)
(*  - the application thread, which ends in airspy_stop_rx().              *)
(*                                                                         *)
(* A block is what one completed transfer carries; blocks are numbered in  *)
(* the order in which the device completes them.                           *)
(***************************************************************************)
EXTENDS Integers

CONSTANTS
  RAW_BUFFER_COUNT, \* number of queue slots (8 in the code)
  Transfers,        \* the libusb transfers (transfer_count = 16 in the code)
  MaxBlocks         \* bound: blocks the device delivers in a behaviour

Slots == 0 .. RAW_BUFFER_COUNT - 1

(* A buffer is named after the place it was allocated for.                 *)
Buffers == Slots \cup Transfers

ASSUME QueueAssumption ==
  /\ RAW_BUFFER_COUNT \in Nat \ {0}
  /\ Transfers \cap Slots = {}
  /\ MaxBlocks \in Nat

VARIABLES
  streaming, stop_requested,     \* the two volatile flags
  received_samples_queue,        \* the buffer in each slot
  dropped_buffers_queue,         \* blocks lost just before the one in a slot
  queue_head, queue_tail,        \* received_samples_queue_head, _tail
  received_buffer_count,
  dropped_buffers,               \* blocks lost since the last one accepted
  uncleared,                     \* slots that a start_rx() has still to clear
  buffer,                        \* usb_transfer->buffer
  usb,                           \* what libusb knows of each transfer
  content,                       \* the block each buffer holds, 0 for none
  produced,                      \* blocks completed by the device so far
  handler,                       \* the thread that runs the transfer callback
  cb,                            \* where the callback is
  cur,                           \* the transfer it was called for
  tpc, cpc, apc,                 \* transfer, consumer, application thread
  input_samples, gap,            \* consumer locals input_samples, dropped_buffers
  last,                          \* history: last block handed to the client
  handled,                       \* history: last block accepted or dropped
  disturbed                      \* history: start_rx was called while streaming

flags    == <<streaming, stop_requested>>
queue    == <<received_samples_queue, dropped_buffers_queue, queue_head,
              queue_tail, received_buffer_count, dropped_buffers,
              uncleared>>
usbVars  == <<buffer, usb, content, produced>>
callback == <<handler, cb, cur>>
consumer == <<cpc, input_samples, gap, last>>
history  == <<handled, disturbed>>
vars     == <<flags, queue, usbVars, callback, consumer, tpc, apc, history>>

UsbStates == {"idle", "submitted", "completed", "failed"}
CbStates  == {"none", "enter", "lock", "submit"}
TPcs      == {"loop", "events", "exited"}
CPcs      == {"start", "outer", "inner", "wait", "blocked", "relock", "test",
              "process", "release", "leave", "done"}
APcs      == {"idle", "clear", "control", "cancel", "signal",
              "join_transfer", "join_consumer", "off", "stopped"}

(* consumer_mp: only the consumer keeps the mutex across steps; the other  *)
(* two critical sections are single actions.                               *)
Holding   == {"outer", "inner", "wait", "test", "leave"}
MutexFree == cpc \notin Holding

Running == streaming /\ ~stop_requested

(* index & (RAW_BUFFER_COUNT - 1), RAW_BUFFER_COUNT being a power of two.   *)
Succ(i) == (i + 1) % RAW_BUFFER_COUNT

(* pthread_cond_signal: only the consumer ever waits.                      *)
Signalled == IF cpc = "blocked" THEN "relock" ELSE cpc

(* State after a successful create_io_threads(): the transfers have been   *)
(* submitted, the queue reset and both threads created.                    *)
Init ==
  /\ streaming = TRUE
  /\ stop_requested = FALSE
  /\ received_samples_queue = [s \in Slots |-> s]
  /\ dropped_buffers_queue = [s \in Slots |-> 0]
  /\ queue_head = 0
  /\ queue_tail = 0
  /\ received_buffer_count = 0
  /\ dropped_buffers = 0
  /\ uncleared = {}
  /\ buffer = [t \in Transfers |-> t]
  /\ usb = [t \in Transfers |-> "submitted"]
  /\ content = [b \in Buffers |-> 0]
  /\ produced = 0
  /\ handler = "none"
  /\ cb = "none"
  /\ cur \in Transfers
  /\ tpc = "loop"
  /\ cpc = "start"
  /\ apc = "idle"
  /\ input_samples = 0
  /\ gap = 0
  /\ last = 0
  /\ handled = 0
  /\ disturbed = FALSE

-----------------------------------------------------------------------------
(* The device and libusb (external).                                       *)

(* The device fills the buffer of a submitted transfer with the next block.*)
DeviceFill(t) ==
  /\ usb[t] = "submitted"
  /\ produced < MaxBlocks
  /\ usb' = [usb EXCEPT ![t] = "completed"]
  /\ content' = [content EXCEPT ![buffer[t]] = produced + 1]
  /\ produced' = produced + 1
  /\ UNCHANGED <<flags, queue, buffer, callback, consumer, tpc, apc, history>>

(* A transfer ends otherwise: error, stall, unplugged device, short read.  *)
DeviceFail(t) ==
  /\ usb[t] = "submitted"
  /\ usb' = [usb EXCEPT ![t] = "failed"]
  /\ content' = [content EXCEPT ![buffer[t]] = 0]
  /\ UNCHANGED <<flags, queue, buffer, produced, callback, consumer, tpc, apc,
                 history>>

-----------------------------------------------------------------------------
(* The event loop and airspy_libusb_transfer_callback().                   *)

(* The while condition of transfer_threadproc().                           *)
TransferLoop ==
  /\ tpc = "loop"
  /\ tpc' = IF Running THEN "events" ELSE "exited"
  /\ UNCHANGED <<flags, queue, usbVars, callback, consumer, apc, history>>

(* libusb_handle_events_timeout_completed() returns, in time or after its  *)
(* timeout; any error other than LIBUSB_ERROR_INTERRUPTED ends the stream. *)
EventsReturn ==
  /\ tpc = "events"
  /\ handler # "transfer"
  /\ tpc' = "loop"
  /\ UNCHANGED streaming \/ streaming' = FALSE
  /\ UNCHANGED <<stop_requested, queue, usbVars, callback, consumer, apc,
                 history>>

(* libusb calls the callback of the transfer that ended first.             *)
CallbackEnter(t) ==
  /\ handler = "none"
  /\ usb[t] \in {"completed", "failed"}
  /\ usb[t] = "completed" =>
       \A u \in Transfers :
         usb[u] = "completed" => content[buffer[t]] <= content[buffer[u]]
  /\ \/ tpc = "events" /\ handler' = "transfer"
     \/ apc \in {"control", "off"} /\ handler' = "app"
  /\ cb' = "enter"
  /\ cur' = t
  /\ UNCHANGED <<flags, queue, usbVars, consumer, tpc, apc, history>>

(* The callback's tests: it leaves the transfer alone once the stream is   *)
(* being stopped, and ends the stream unless the transfer is complete.     *)
CallbackTest ==
  /\ cb = "enter"
  /\ IF Running /\ usb[cur] = "completed"
       THEN /\ cb' = "lock"
            /\ UNCHANGED <<streaming, usb, handler>>
       ELSE /\ streaming' = (streaming /\ ~Running)
            /\ usb' = [usb EXCEPT ![cur] = "idle"]
            /\ cb' = "none"
            /\ handler' = "none"
  /\ UNCHANGED <<stop_requested, queue, buffer, content, produced, cur,
                 consumer, tpc, apc, history>>

(* Mutations of Enqueue: the transfer keeps its buffer; the loss counter is *)
(* not reset; the consumer is not woken.                                   *)
EnqueueNoExchange ==
  /\ received_samples_queue' =
       [received_samples_queue EXCEPT ![queue_head] = buffer[cur]]
  /\ dropped_buffers_queue' =
       [dropped_buffers_queue EXCEPT ![queue_head] = dropped_buffers]
  /\ dropped_buffers' = 0
  /\ queue_head' = Succ(queue_head)
  /\ received_buffer_count' = received_buffer_count + 1
  /\ cpc' = Signalled
  /\ UNCHANGED buffer

EnqueueNoReset ==
  /\ received_samples_queue' =
       [received_samples_queue EXCEPT ![queue_head] = buffer[cur]]
  /\ buffer' = [buffer EXCEPT ![cur] = received_samples_queue[queue_head]]
  /\ dropped_buffers_queue' =
       [dropped_buffers_queue EXCEPT ![queue_head] = dropped_buffers]
  /\ queue_head' = Succ(queue_head)
  /\ received_buffer_count' = received_buffer_count + 1
  /\ cpc' = Signalled
  /\ UNCHANGED dropped_buffers

EnqueueNoSignal ==
  /\ received_samples_queue' =
       [received_samples_queue EXCEPT ![queue_head] = buffer[cur]]
  /\ buffer' = [buffer EXCEPT ![cur] = received_samples_queue[queue_head]]
  /\ dropped_buffers_queue' =
       [dropped_buffers_queue EXCEPT ![queue_head] = dropped_buffers]
  /\ dropped_buffers' = 0
  /\ queue_head' = Succ(queue_head)
  /\ received_buffer_count' = received_buffer_count + 1
  /\ UNCHANGED cpc

(* The callback's critical section: the filled buffer is exchanged with    *)
(* the one in the head slot, or the block is counted as dropped.           *)
Enqueue ==
  /\ received_samples_queue' =
       [received_samples_queue EXCEPT ![queue_head] = buffer[cur]]
  /\ buffer' = [buffer EXCEPT ![cur] = received_samples_queue[queue_head]]
  /\ dropped_buffers_queue' =
       [dropped_buffers_queue EXCEPT ![queue_head] = dropped_buffers]
  /\ dropped_buffers' = 0
  /\ queue_head' = Succ(queue_head)
  /\ received_buffer_count' = received_buffer_count + 1
  /\ cpc' = Signalled

Drop ==
  /\ dropped_buffers' = dropped_buffers + 1
  /\ UNCHANGED <<received_samples_queue, buffer, dropped_buffers_queue,
                 queue_head, received_buffer_count, cpc>>

(* Mutation of QueueOrDrop: the bound is off by one.                       *)
QueueOrDropOffByOne ==
  /\ cb = "lock"
  /\ MutexFree
  /\ IF received_buffer_count <= RAW_BUFFER_COUNT THEN Enqueue ELSE Drop
  /\ cb' = "submit"
  /\ handled' = content[buffer[cur]]
  /\ UNCHANGED <<flags, queue_tail, uncleared, usb, content, produced, handler,
                 cur, input_samples, gap, last, tpc, disturbed>>

QueueOrDrop ==
  /\ cb = "lock"
  /\ MutexFree
  /\ IF received_buffer_count < RAW_BUFFER_COUNT THEN Enqueue ELSE Drop
  /\ cb' = "submit"
  /\ handled' = content[buffer[cur]]
  /\ UNCHANGED <<flags, queue_tail, uncleared, usb, content, produced, handler,
                 cur, input_samples, gap, last, tpc, disturbed>>

CallbackQueue == QueueOrDrop /\ UNCHANGED apc

(* libusb_submit_transfer(); a failure ends the stream.                    *)
CallbackSubmit ==
  /\ cb = "submit"
  /\ \/ /\ usb' = [usb EXCEPT ![cur] = "submitted"]
        /\ UNCHANGED streaming
     \/ /\ usb' = [usb EXCEPT ![cur] = "idle"]
        /\ streaming' = FALSE
  /\ cb' = "none"
  /\ handler' = "none"
  /\ UNCHANGED <<stop_requested, queue, buffer, content, produced, cur,
                 consumer, tpc, apc, history>>

-----------------------------------------------------------------------------
(* consumer_threadproc().                                                  *)

ConsumerMoves(from, to) == cpc = from /\ cpc' = to

(* pthread_mutex_lock at the start of the thread, and again when           *)
(* pthread_cond_wait returns.                                              *)
ConsumerLock ==
  /\ \/ ConsumerMoves("start", "outer")
     \/ ConsumerMoves("relock", "inner")
  /\ UNCHANGED <<flags, queue, usbVars, callback, input_samples, gap, last, tpc,
                 apc, history>>

(* while (streaming && !stop_requested)                                    *)
ConsumerOuter ==
  /\ ConsumerMoves("outer", IF Running THEN "inner" ELSE "leave")
  /\ UNCHANGED <<flags, queue, usbVars, callback, input_samples, gap, last, tpc,
                 apc, history>>

(* while (received_buffer_count == 0 && streaming && !stop_requested)      *)
ConsumerInner ==
  /\ ConsumerMoves("inner", IF received_buffer_count = 0 /\ Running
                              THEN "wait" ELSE "test")
  /\ UNCHANGED <<flags, queue, usbVars, callback, input_samples, gap, last, tpc,
                 apc, history>>

(* pthread_cond_wait: release the mutex and block, perhaps wake up         *)
(* spuriously.                                                             *)
ConsumerWait ==
  /\ ConsumerMoves("wait", "blocked")
  /\ UNCHANGED <<flags, queue, usbVars, callback, input_samples, gap, last, tpc,
                 apc, history>>

SpuriousWakeup ==
  /\ ConsumerMoves("blocked", "relock")
  /\ UNCHANGED <<flags, queue, usbVars, callback, input_samples, gap, last, tpc,
                 apc, history>>

(* Mutation of ConsumerTake: the loss counter is read after the tail has   *)
(* advanced.                                                               *)
ConsumerTakeLateGap ==
  /\ cpc = "test"
  /\ Running
  /\ cpc' = "process"
  /\ input_samples' = received_samples_queue[queue_tail]
  /\ gap' = dropped_buffers_queue[Succ(queue_tail)]
  /\ queue_tail' = Succ(queue_tail)
  /\ UNCHANGED <<flags, received_samples_queue, dropped_buffers_queue,
                 queue_head, received_buffer_count, dropped_buffers,
                 uncleared, usbVars, callback, last, tpc, apc, history>>

(* The test after the inner loop; then the tail slot is read, the tail     *)
(* advanced and the mutex released.  received_buffer_count still counts    *)
(* the block.                                                              *)
ConsumerTake ==
  /\ cpc = "test"
  /\ Running
  /\ cpc' = "process"
  /\ input_samples' = received_samples_queue[queue_tail]
  /\ gap' = dropped_buffers_queue[queue_tail]
  /\ queue_tail' = Succ(queue_tail)
  /\ UNCHANGED <<flags, received_samples_queue, dropped_buffers_queue,
                 queue_head, received_buffer_count, dropped_buffers,
                 uncleared, usbVars, callback, last, tpc, apc, history>>

ConsumerBreak ==
  /\ ~Running
  /\ ConsumerMoves("test", "leave")
  /\ UNCHANGED <<flags, queue, usbVars, callback, input_samples, gap, last, tpc,
                 apc, history>>

(* The block is converted and handed to the client; a result other than 0  *)
(* asks the stream to stop.                                                *)
ConsumerDeliver ==
  /\ ConsumerMoves("process", "release")
  /\ last' = content[input_samples]
  /\ UNCHANGED stop_requested \/ stop_requested' = TRUE
  /\ UNCHANGED <<streaming, queue, usbVars, callback, input_samples, gap, tpc,
                 apc, history>>

(* The mutex is taken again and the block leaves the queue.                *)
ConsumerRelease ==
  /\ ConsumerMoves("release", "outer")
  /\ received_buffer_count' = received_buffer_count - 1
  /\ UNCHANGED <<flags, received_samples_queue, dropped_buffers_queue,
                 queue_head, queue_tail, dropped_buffers, uncleared, usbVars,
                 callback, input_samples, gap, last, tpc, apc, history>>

ConsumerExit ==
  /\ ConsumerMoves("leave", "done")
  /\ UNCHANGED <<flags, queue, usbVars, callback, input_samples, gap, last, tpc,
                 apc, history>>

-----------------------------------------------------------------------------
(* The application thread.                                                 *)

AppMoves(from, to) == apc = from /\ apc' = to

(* Any call that makes a synchronous control transfer (set_freq, gains...).*)
ControlCall ==
  /\ AppMoves("idle", "control")
  /\ UNCHANGED <<flags, queue, usbVars, callback, consumer, tpc, history>>

ControlReturn ==
  /\ AppMoves("control", "idle")
  /\ handler # "app"
  /\ UNCHANGED <<flags, queue, usbVars, callback, consumer, tpc, history>>

(* airspy_start_rx() while streaming: it clears the loss counters, without *)
(* the mutex and while the callback and the consumer use them, before the  *)
(* control transfers and the AIRSPY_ERROR_BUSY of create_io_threads().     *)
StartRxBusy ==
  /\ streaming \/ stop_requested
  /\ AppMoves("idle", "clear")
  /\ uncleared' = Slots
  /\ disturbed' = TRUE
  /\ UNCHANGED <<flags, received_samples_queue, dropped_buffers_queue,
                 queue_head, queue_tail, received_buffer_count,
                 dropped_buffers, usbVars, callback, consumer, tpc, handled>>

(* The memset clears the slots in an order of its own.                     *)
ClearSlot(s) ==
  /\ s \in uncleared
  /\ uncleared' = uncleared \ {s}
  /\ dropped_buffers_queue' = [dropped_buffers_queue EXCEPT ![s] = 0]
  /\ UNCHANGED <<flags, received_samples_queue, queue_head, queue_tail,
                 received_buffer_count, dropped_buffers, usbVars, callback,
                 consumer, tpc, apc, history>>

(* dropped_buffers = 0                                                     *)
ResetDropped ==
  /\ AppMoves("clear", "control")
  /\ uncleared = {}
  /\ dropped_buffers' = 0
  /\ UNCHANGED <<flags, received_samples_queue, dropped_buffers_queue,
                 queue_head, queue_tail, received_buffer_count, uncleared,
                 usbVars, callback, consumer, tpc, history>>

(* The same store, between the read and the write of the dropped_buffers++ *)
(* of the callback: it is overwritten.  (Anywhere else in the callback's   *)
(* critical section it does what it does before or after it.)              *)
ResetOverwritten ==
  /\ AppMoves("clear", "control")
  /\ uncleared = {}
  /\ received_buffer_count = RAW_BUFFER_COUNT
  /\ QueueOrDrop

(* airspy_stop_rx(): kill_io_threads() does nothing unless streaming.      *)
StopRx ==
  /\ AppMoves("idle", IF streaming THEN "cancel" ELSE "off")
  /\ stop_requested' = (stop_requested \/ streaming)
  /\ UNCHANGED <<streaming, queue, usbVars, callback, consumer, tpc, history>>

(* cancel_transfers(); a transfer that has already ended is not affected.  *)
CancelTransfers ==
  /\ AppMoves("cancel", "signal")
  /\ usb' = [t \in Transfers |->
               IF usb[t] = "submitted" THEN "failed" ELSE usb[t]]
  /\ UNCHANGED <<flags, queue, buffer, content, produced, callback, consumer,
                 tpc, history>>

(* Mutation of SignalConsumer: the mutex is not taken.                     *)
SignalConsumerUnlocked ==
  /\ AppMoves("signal", "join_transfer")
  /\ cpc' = Signalled
  /\ UNCHANGED <<flags, queue, usbVars, callback, input_samples, gap, last, tpc,
                 history>>

(* Lock, signal the consumer, unlock.                                      *)
SignalConsumer ==
  /\ AppMoves("signal", "join_transfer")
  /\ MutexFree
  /\ cpc' = Signalled
  /\ UNCHANGED <<flags, queue, usbVars, callback, input_samples, gap, last, tpc,
                 history>>

JoinTransfer ==
  /\ AppMoves("join_transfer", "join_consumer")
  /\ tpc = "exited"
  /\ UNCHANGED <<flags, queue, usbVars, callback, consumer, tpc, history>>

JoinConsumer ==
  /\ AppMoves("join_consumer", "off")
  /\ cpc = "done"
  /\ stop_requested' = FALSE
  /\ streaming' = FALSE
  /\ UNCHANGED <<queue, usbVars, callback, consumer, tpc, history>>

(* airspy_set_receiver_mode(RECEIVER_MODE_OFF) returns.                    *)
ReceiverOff ==
  /\ AppMoves("off", "stopped")
  /\ handler # "app"
  /\ UNCHANGED <<flags, queue, usbVars, callback, consumer, tpc, history>>

-----------------------------------------------------------------------------
Device == \E t \in Transfers : DeviceFill(t) \/ DeviceFail(t)

EventHandler ==
  \/ TransferLoop
  \/ EventsReturn
  \/ \E t \in Transfers : CallbackEnter(t)
  \/ CallbackTest
  \/ CallbackQueue
  \/ CallbackSubmit

Consumer ==
  \/ ConsumerLock
  \/ ConsumerOuter
  \/ ConsumerInner
  \/ ConsumerWait
  \/ ConsumerTake
  \/ ConsumerBreak
  \/ ConsumerDeliver
  \/ ConsumerRelease
  \/ ConsumerExit

StartClears ==
  \/ \E s \in Slots : ClearSlot(s)
  \/ ResetDropped
  \/ ResetOverwritten

StopSequence ==
  \/ CancelTransfers
  \/ SignalConsumer
  \/ JoinTransfer
  \/ JoinConsumer
  \/ ReceiverOff

Application ==
  \/ ControlCall
  \/ ControlReturn
  \/ StartRxBusy
  \/ StartClears
  \/ StopRx
  \/ StopSequence

(* The session is over once airspy_stop_rx() has returned.                 *)
Finished == apc = "stopped" /\ UNCHANGED vars

Next ==
  \/ Device
  \/ EventHandler
  \/ Consumer
  \/ SpuriousWakeup
  \/ Application
  \/ Finished

(* The threads keep running, libusb's event loop returns within its        *)
(* timeout, the client callback returns, and a call of the library runs to *)
(* its end once entered.  Nothing is assumed of the device, of faults, of  *)
(* spurious wake-ups, or of the application ever calling stop_rx().        *)
Fairness ==
  /\ WF_vars(TransferLoop) /\ WF_vars(EventsReturn)
  /\ WF_vars(CallbackTest) /\ WF_vars(CallbackQueue) /\ WF_vars(CallbackSubmit)
  /\ WF_vars(Consumer)
  /\ WF_vars(StartClears) /\ WF_vars(ControlReturn) /\ WF_vars(StopSequence)

Spec == Init /\ [][Next]_vars
FairSpec == Spec /\ Fairness

-----------------------------------------------------------------------------
(* Properties.                                                             *)

Blocks == 0 .. MaxBlocks

TypeOK ==
  /\ streaming \in BOOLEAN
  /\ stop_requested \in BOOLEAN
  /\ received_samples_queue \in [Slots -> Buffers]
  /\ dropped_buffers_queue \in [Slots -> Blocks]
  /\ queue_head \in Slots
  /\ queue_tail \in Slots
  /\ received_buffer_count \in 0 .. RAW_BUFFER_COUNT
  /\ dropped_buffers \in Blocks
  /\ uncleared \subseteq Slots
  /\ buffer \in [Transfers -> Buffers]
  /\ usb \in [Transfers -> UsbStates]
  /\ content \in [Buffers -> Blocks]
  /\ produced \in Blocks
  /\ handler \in {"none", "transfer", "app"}
  /\ cb \in CbStates
  /\ cur \in Transfers
  /\ tpc \in TPcs
  /\ cpc \in CPcs
  /\ apc \in APcs
  /\ input_samples \in Buffers
  /\ gap \in Blocks
  /\ last \in Blocks
  /\ handled \in Blocks
  /\ disturbed \in BOOLEAN

(* From the moment the consumer takes a block until the client callback    *)
(* has returned, nothing writes to that block's buffer, although the mutex *)
(* is free and the device keeps filling transfers: the buffer exchange and *)
(* the late received_buffer_count-- keep it out of the device's hands.     *)
BlockIntact ==
  [][cpc = "process" => content'[input_samples] = content[input_samples]]_vars

(* The client gets the blocks in the order the device produced them, each  *)
(* at most once, and the dropped_buffers handed over with a block is       *)
(* exactly the number of blocks lost since the one before.  Only a         *)
(* start_rx() issued while streaming can make it under-report, and nothing *)
(* makes it over-report.                                                   *)
GapAccounting ==
  cpc = "process" =>
    /\ content[input_samples] >= last + gap + 1
    /\ ~disturbed => content[input_samples] = last + gap + 1

(* A stop_rx() that enters the stop sequence returns: neither thread can   *)
(* miss the request, whatever it is doing when the request is made.        *)
StopReturns == (apc = "cancel") ~> (apc = "stopped")

(* A block that was accepted reaches the client unless the stream ends.    *)
AcceptedIsDelivered ==
  \A n \in 1 .. MaxBlocks :
    (handled = n /\ dropped_buffers = 0) ~> (last >= n \/ ~Running \/ disturbed)

(* The queue implements the bounded lossy FIFO.                            *)
Busy   == cpc \in {"process", "release"}
Queued == received_buffer_count - (IF Busy THEN 1 ELSE 0)
QueueEntry(i) ==
  LET s == (queue_tail + i - 1) % RAW_BUFFER_COUNT
  IN  [block |-> content[received_samples_queue[s]],
       gap |-> dropped_buffers_queue[s]]

Fifo == INSTANCE LossyFifo WITH
  Capacity <- RAW_BUFFER_COUNT,
  pending  <- [i \in 1 .. Queued |-> QueueEntry(i)],
  current  <- IF Busy THEN [block |-> content[input_samples], gap |-> gap]
              ELSE [block |-> 0, gap |-> 0],
  lost     <- dropped_buffers,
  seen     <- handled,
  client   <- last

ImplementsLossyFifo == Fifo!FifoSpec
=============================================================================
