------------------------ MODULE SampleQueue_proofs ------------------------
(***************************************************************************)
(* Proofs about SampleQueue, for any number of queue slots and transfers.  *)
(*                                                                         *)
(* None of the invariants is inductive alone: that a block keeps its       *)
(* contents needs the ownership of the buffers, which needs the shape of   *)
(* the ring; that the loss counts are exact needs the order of the blocks  *)
(* in the ring and in the completed transfers.  IInv is their conjunction. *)
(***************************************************************************)
EXTENDS SampleQueue, TLAPS

Prev(i) == IF i = 0 THEN RAW_BUFFER_COUNT - 1 ELSE i - 1

(* Slot s holds a block that is neither taken nor released.                *)
InWindow(s) ==
  \/ queue_tail <= s /\ s < queue_tail + Queued
  \/ s + RAW_BUFFER_COUNT < queue_tail + Queued

(* The block taken last, and the block before the one in slot s.           *)
Taken == IF cpc = "process" THEN content[input_samples] ELSE last
Before(s) ==
  IF s = queue_tail THEN Taken ELSE content[received_samples_queue[Prev(s)]]
Newest ==
  IF Queued = 0 THEN Taken ELSE content[received_samples_queue[Prev(queue_head)]]

(* The transfer carries a block that has not been queued or dropped.       *)
Unhandled(t) == usb[t] = "completed" /\ ~(cur = t /\ cb = "submit")

(* Control: where the threads may be.                                      *)
ControlInv ==
  /\ handler = "none" <=> cb = "none"
  /\ cb # "none" => usb[cur] \in {"completed", "failed"}
  /\ cb \in {"lock", "submit"} => usb[cur] = "completed"
  /\ cpc = "test" /\ Running => received_buffer_count > 0
  /\ Busy => received_buffer_count > 0
  /\ apc = "clear" \/ uncleared # {} => disturbed

(* The ring: head, tail and count agree.                                   *)
RingInv ==
  \/ queue_head = queue_tail + Queued
  \/ queue_head = queue_tail + Queued - RAW_BUFFER_COUNT

(* No buffer is in two places, and the block being read is in the slot     *)
(* behind the tail.                                                        *)
OwnerInv ==
  /\ \A s1, s2 \in Slots :
       received_samples_queue[s1] = received_samples_queue[s2] => s1 = s2
  /\ \A t1, t2 \in Transfers : buffer[t1] = buffer[t2] => t1 = t2
  /\ \A s \in Slots, t \in Transfers : received_samples_queue[s] # buffer[t]
  /\ Busy => input_samples = received_samples_queue[Prev(queue_tail)]

(* The completed transfers carry distinct blocks newer than those handled; *)
(* while the stream runs none is missing, and the callback has the oldest. *)
UsbInv ==
  /\ handled <= produced
  /\ \A t \in Transfers :
       Unhandled(t) => handled < content[buffer[t]] /\ content[buffer[t]] <= produced
  /\ \A t1, t2 \in Transfers :
       Unhandled(t1) /\ Unhandled(t2) /\ content[buffer[t1]] = content[buffer[t2]]
         => t1 = t2
  /\ Running => \A n \in handled + 1 .. produced :
                  \E t \in Transfers : Unhandled(t) /\ content[buffer[t]] = n
  /\ cb = "enter" /\ usb[cur] = "completed" =>
       \A u \in Transfers :
         Unhandled(u) => content[buffer[cur]] <= content[buffer[u]]
  /\ cb = "lock" => content[buffer[cur]] = handled + 1

(* Block b comes g losses after block a.                                   *)
Follows(a, g, b) == a + g + 1 <= b /\ (~disturbed => a + g + 1 = b)

(* The blocks in the ring are in order and their loss counts are right.    *)
ChainInv ==
  /\ \A s \in Slots :
       InWindow(s) => Follows(Before(s), dropped_buffers_queue[s],
                              content[received_samples_queue[s]])
  /\ Follows(Newest, dropped_buffers, handled + 1)
  /\ cpc = "process" => Follows(last, gap, content[input_samples])

IInv ==
  /\ TypeOK
  /\ ControlInv
  /\ RingInv
  /\ OwnerInv
  /\ UsbInv
  /\ ChainInv

-----------------------------------------------------------------------------
(* Arithmetic of the slot indices.                                         *)

(* Succ and Prev move around the ring and undo each other.                 *)
LEMMA SuccPrev ==
  ASSUME NEW i \in Slots
  PROVE  /\ Succ(i) \in Slots
         /\ Succ(i) = IF i + 1 = RAW_BUFFER_COUNT THEN 0 ELSE i + 1
         /\ Prev(i) \in Slots
         /\ Prev(Succ(i)) = i
         /\ Succ(Prev(i)) = i
BY QueueAssumption DEF Slots, Succ, Prev

-----------------------------------------------------------------------------
(* The initial state.                                                      *)

(* The state create_io_threads() leaves behind satisfies the invariant.    *)
LEMMA InitIInv == Init => IInv
<1> SUFFICES ASSUME Init PROVE IInv
  OBVIOUS
<1>1. /\ 0 \in Slots /\ 0 \in Blocks /\ 0 \in Buffers
      /\ \A s \in Slots, t \in Transfers : s # t
  <2>1. 0 \in Slots /\ 0 \in Blocks
    BY QueueAssumption DEF Slots, Blocks
  <2>2. \A s \in Slots, t \in Transfers : s # t
    BY QueueAssumption, Zenon
  <2>3. QED
    BY <2>1, <2>2 DEF Buffers
<1>2. TypeOK
  <2>1. /\ received_samples_queue \in [Slots -> Buffers]
        /\ buffer \in [Transfers -> Buffers]
    BY Zenon DEF Init, Buffers
  <2>2. /\ dropped_buffers_queue \in [Slots -> Blocks]
        /\ content \in [Buffers -> Blocks]
        /\ usb \in [Transfers -> UsbStates]
    BY <1>1 DEF Init, UsbStates
  <2>3. received_buffer_count \in 0 .. RAW_BUFFER_COUNT
    BY QueueAssumption DEF Init
  <2>4. QED
    BY <1>1, <2>1, <2>2, <2>3, Zenon
    DEF Init, TypeOK, CbStates, TPcs, CPcs, APcs
<1>3. /\ cpc = "start" /\ cb = "none" /\ handler = "none"
      /\ queue_head = 0 /\ queue_tail = 0 /\ received_buffer_count = 0
      /\ dropped_buffers = 0 /\ handled = 0 /\ produced = 0 /\ last = 0
      /\ uncleared = {} /\ apc = "idle"
  BY DEF Init
<1>4. Queued = 0 /\ Newest = 0 /\ ~Busy
  <2>1. ~Busy
    BY <1>3 DEF Busy
  <2>2. Queued = 0
    <3>1. Queued = received_buffer_count
      BY <1>2, <2>1 DEF Queued, TypeOK
    <3>2. QED
      BY <1>3, <3>1
  <2>3. QED
    BY <1>3, <2>1, <2>2 DEF Newest, Taken
<1>5. ControlInv
  BY <1>3, <1>4 DEF ControlInv
<1>6. RingInv
  BY <1>3, <1>4 DEF RingInv
<1>7. OwnerInv
  BY <1>1, <1>4 DEF OwnerInv, Init
<1>8. UsbInv
  BY DEF UsbInv, Unhandled, Init
<1>9. ChainInv
  <2>1. \A s \in Slots : ~InWindow(s)
    BY <1>3, <1>4, QueueAssumption DEF InWindow, Slots
  <2>2. Follows(Newest, dropped_buffers, handled + 1)
    BY <1>3, <1>4 DEF Follows
  <2>3. QED
    BY <1>3, <2>1, <2>2 DEF ChainInv
<1>10. QED
  BY <1>2, <1>5, <1>6, <1>7, <1>8, <1>9 DEF IInv

-----------------------------------------------------------------------------
(* Steps that touch neither the ring nor the transfers nor the block being *)
(* read: they keep the invariant if they keep the types and the control.   *)

Quiet ==
  /\ UNCHANGED <<queue, usbVars, cb, cur, input_samples, gap, last, history>>
  /\ Running' => Running
  /\ Busy' = Busy
  /\ (cpc = "process")' = (cpc = "process")

(* A quiet step keeps the invariant.                                       *)
LEMMA QuietStep ==
  ASSUME IInv, Quiet, TypeOK', ControlInv' PROVE IInv'
<1> USE DEF Quiet, IInv, queue, usbVars, history
<1>1. Queued' = Queued
  BY DEF Queued
<1>2. RingInv'
  BY <1>1 DEF RingInv
<1>3. OwnerInv'
  BY DEF OwnerInv
<1>4. UsbInv'
  BY DEF UsbInv, Unhandled
<1>5. ChainInv'
  BY <1>1 DEF ChainInv, Follows, Newest, Before, Taken, InWindow
<1>6. QED
  BY <1>2, <1>3, <1>4, <1>5

(* The control steps of the three threads (loop tests, waiting, waking,    *)
(* the stop sequence) are quiet.                                           *)
LEMMA QuietActions ==
  ASSUME IInv,
         \/ TransferLoop \/ EventsReturn
         \/ ConsumerLock \/ ConsumerOuter \/ ConsumerInner \/ ConsumerWait
         \/ ConsumerBreak \/ ConsumerExit \/ SpuriousWakeup
         \/ ControlCall \/ ControlReturn \/ StopRx \/ SignalConsumer
         \/ JoinTransfer \/ JoinConsumer \/ ReceiverOff
  PROVE  IInv'
<1> USE DEF IInv, flags, queue, usbVars, callback, consumer, history
<1>1. ASSUME TransferLoop PROVE IInv'
  <2>1. Quiet
    BY <1>1 DEF TransferLoop, Quiet, Running, Busy
  <2>2. TypeOK' /\ ControlInv'
    BY <1>1 DEF TransferLoop, TypeOK, TPcs, ControlInv, Running, Busy
  <2>3. QED
    BY <2>1, <2>2, QuietStep
<1>2. ASSUME EventsReturn PROVE IInv'
  <2> USE <1>2 DEF EventsReturn
  <2>1. CASE UNCHANGED streaming
    <3>1. Quiet
      BY <2>1 DEF Quiet, Running, Busy
    <3>2. TypeOK' /\ ControlInv'
      BY <2>1 DEF TypeOK, TPcs, ControlInv, Running, Busy
    <3>3. QED
      BY <3>1, <3>2, QuietStep
  <2>2. CASE streaming' = FALSE
    <3>1. Quiet
      BY <2>2 DEF Quiet, Running, Busy
    <3>2. TypeOK' /\ ControlInv'
      BY <2>2 DEF TypeOK, TPcs, ControlInv, Running, Busy
    <3>3. QED
      BY <3>1, <3>2, QuietStep
  <2>3. QED
    BY <2>1, <2>2
<1>3. ASSUME \/ ConsumerLock \/ ConsumerOuter \/ ConsumerInner \/ ConsumerWait
             \/ ConsumerBreak \/ ConsumerExit \/ SpuriousWakeup
      PROVE  IInv'
  <2> USE <1>3 DEF ConsumerLock, ConsumerOuter, ConsumerInner, ConsumerWait,
                   ConsumerBreak, ConsumerExit, SpuriousWakeup, ConsumerMoves
  <2>1. Quiet
    BY DEF Quiet, Running, Busy
  <2>2. TypeOK'
    BY DEF TypeOK, CPcs
  <2>3. ControlInv'
    BY DEF TypeOK, ControlInv, Running, Busy
  <2>4. QED
    BY <2>1, <2>2, <2>3, QuietStep
<1>4. ASSUME \/ ControlCall \/ ControlReturn \/ StopRx
             \/ JoinTransfer \/ JoinConsumer \/ ReceiverOff
      PROVE  IInv'
  <2> USE <1>4 DEF ControlCall, ControlReturn, StopRx, JoinTransfer,
                   JoinConsumer, ReceiverOff, AppMoves
  <2>1. Quiet
    BY DEF Quiet, Running, Busy, TypeOK
  <2>2. TypeOK'
    BY DEF TypeOK, APcs
  <2>3. ControlInv'
    BY DEF TypeOK, ControlInv, Running, Busy
  <2>4. QED
    BY <2>1, <2>2, <2>3, QuietStep
<1>5. ASSUME SignalConsumer PROVE IInv'
  <2> USE <1>5 DEF SignalConsumer, AppMoves, Signalled
  <2>1. Quiet
    BY DEF Quiet, Running, Busy
  <2>2. TypeOK'
    BY DEF TypeOK, APcs, CPcs
  <2>3. ControlInv'
    BY DEF ControlInv, Running, Busy
  <2>4. QED
    BY <2>1, <2>2, <2>3, QuietStep
<1>6. QED
  BY <1>1, <1>2, <1>3, <1>4, <1>5

-----------------------------------------------------------------------------
(* Steps that leave the ring alone but touch the transfers.                *)

(* The ring's invariants survive a step that changes no buffer of the ring *)
(* and no variable of the ring.                                            *)
RingUntouched ==
  /\ UNCHANGED <<queue, cpc, input_samples, gap, last, history>>
  /\ \A s \in Slots : content'[received_samples_queue[s]]
                        = content[received_samples_queue[s]]

(* Such a step keeps what the invariant says of the ring.                  *)
LEMMA RingUntouchedStep ==
  ASSUME IInv, RingUntouched PROVE RingInv' /\ ChainInv'
<1> USE DEF RingUntouched, IInv, queue, history
<1>1. Queued' = Queued /\ Busy' = Busy
  BY DEF Queued, Busy
<1>2. RingInv'
  BY <1>1 DEF RingInv
<1>3. \A s \in Slots : Prev(s) \in Slots
  BY SuccPrev
<1>4. Taken' = Taken
  <2>1. CASE cpc = "process"
    <3>1. input_samples = received_samples_queue[Prev(queue_tail)]
      BY <2>1 DEF OwnerInv, Busy
    <3>2. QED
      BY <2>1, <3>1, <1>3 DEF Taken, TypeOK
  <2>2. CASE cpc # "process"
    BY <2>2 DEF Taken
  <2>3. QED
    BY <2>1, <2>2
<1>5. Newest' = Newest
  BY <1>1, <1>3, <1>4 DEF Newest, TypeOK
<1>6. \A s \in Slots : Before(s)' = Before(s) /\ (InWindow(s)' <=> InWindow(s))
  BY <1>1, <1>3, <1>4 DEF Before, InWindow
<1>7. cpc = "process" => content'[input_samples] = content[input_samples]
  BY <1>4 DEF Taken
<1>8. ChainInv'
  BY <1>5, <1>6, <1>7 DEF ChainInv, Follows
<1>9. QED
  BY <1>2, <1>8

(* The device writes to a submitted transfer's buffer, which is in no slot *)
(* and which no unhandled block occupies.                                  *)
LEMMA SubmittedBuffer ==
  ASSUME IInv, NEW t \in Transfers, usb[t] = "submitted"
  PROVE  /\ \A s \in Slots : received_samples_queue[s] # buffer[t]
         /\ \A u \in Transfers : u # t => buffer[u] # buffer[t]
         /\ cb # "none" => cur # t
         /\ buffer[t] \in Buffers
BY DEF IInv, OwnerInv, ControlInv, TypeOK

(* A block that arrives extends the blocks still to be queued by one.      *)
LEMMA DeviceFillStep ==
  ASSUME IInv, NEW t \in Transfers, DeviceFill(t) PROVE IInv'
<1> USE DEF DeviceFill, IInv, flags, queue, callback, consumer, history
<1>1. /\ \A s \in Slots : received_samples_queue[s] # buffer[t]
      /\ \A u \in Transfers : u # t => buffer[u] # buffer[t]
      /\ cb # "none" => cur # t
      /\ buffer[t] \in Buffers
  BY SubmittedBuffer
<1>2. content' = [content EXCEPT ![buffer[t]] = produced + 1]
  OBVIOUS
<1>3. produced + 1 \in Blocks /\ produced \in Nat
  BY QueueAssumption DEF TypeOK, Blocks
<1>4. TypeOK'
  <2>1. content' \in [Buffers -> Blocks]
    BY <1>2, <1>3 DEF TypeOK
  <2>2. usb' \in [Transfers -> UsbStates]
    BY DEF TypeOK, UsbStates
  <2>3. QED
    BY <1>3, <2>1, <2>2 DEF TypeOK
<1>5. ControlInv'
  BY <1>1 DEF ControlInv, Running, Busy, TypeOK
<1>6. RingInv' /\ ChainInv'
  <2>1. RingUntouched
    BY <1>1, <1>2 DEF RingUntouched, TypeOK
  <2>2. QED
    BY <2>1, RingUntouchedStep
<1>7. OwnerInv'
  BY DEF OwnerInv, Busy
<1>8. UsbInv'
  <2>1. \A u \in Transfers :
          /\ Unhandled(u)' <=> u = t \/ Unhandled(u)
          /\ u # t => content'[buffer'[u]] = content[buffer[u]]
          /\ u = t => content'[buffer'[u]] = produced + 1
    BY <1>1, <1>2 DEF Unhandled, TypeOK
  <2>2. handled \in Int /\ produced \in Int
    BY DEF TypeOK, Blocks
  <2>3. Running' = Running
    BY DEF Running
  <2>4. \A u \in Transfers : ~Unhandled(u) \/ u # t
    BY DEF Unhandled
  <2>5. Running' => \A n \in handled' + 1 .. produced' :
          \E u \in Transfers : Unhandled(u)' /\ content'[buffer'[u]] = n
    <3> SUFFICES ASSUME Running, NEW n \in handled + 1 .. produced + 1
                 PROVE  \E u \in Transfers :
                          Unhandled(u)' /\ content'[buffer'[u]] = n
      BY <2>3
    <3>1. CASE n = produced + 1
      BY <2>1, <3>1
    <3>2. CASE n # produced + 1
      <4>1. n \in handled + 1 .. produced
        BY <2>2, <3>2
      <4>2. PICK u \in Transfers : Unhandled(u) /\ content[buffer[u]] = n
        BY <4>1 DEF UsbInv
      <4>3. QED
        BY <2>1, <2>4, <4>2
    <3>3. QED
      BY <3>1, <3>2
  <2>6. \A u \in Transfers : content[buffer[u]] \in Int
    BY DEF TypeOK, Blocks
  <2>7. handled' <= produced'
    BY <2>2 DEF UsbInv
  <2>8. \A u \in Transfers : Unhandled(u)' =>
          handled' < content'[buffer'[u]] /\ content'[buffer'[u]] <= produced'
    BY <2>1, <2>2, <2>6 DEF UsbInv
  <2>9. \A u1, u2 \in Transfers :
          /\ Unhandled(u1)' /\ Unhandled(u2)'
          /\ content'[buffer'[u1]] = content'[buffer'[u2]]
          => u1 = u2
    BY <2>1, <2>2, <2>6 DEF UsbInv
  <2>10. cb' = "enter" /\ usb'[cur'] = "completed" =>
           \A u \in Transfers :
             Unhandled(u)' => content'[buffer'[cur']] <= content'[buffer'[u]]
    <3> SUFFICES ASSUME cb = "enter", usb'[cur] = "completed",
                        NEW u \in Transfers, Unhandled(u)'
                 PROVE  content'[buffer'[cur]] <= content'[buffer'[u]]
      OBVIOUS
    <3>1. cur \in Transfers /\ cur # t /\ Unhandled(cur)
      BY <1>1 DEF TypeOK, Unhandled
    <3>2. content'[buffer'[cur]] = content[buffer[cur]]
      BY <2>1, <3>1
    <3>3. content[buffer[cur]] <= produced
      BY <3>1 DEF UsbInv
    <3>4. Unhandled(u) => content[buffer[cur]] <= content[buffer[u]]
      BY <3>1 DEF UsbInv, Unhandled
    <3>5. QED
      BY <2>1, <2>2, <2>6, <3>1, <3>2, <3>3, <3>4
  <2>11. cb' = "lock" => content'[buffer'[cur']] = handled' + 1
    BY <1>1, <2>1 DEF UsbInv, TypeOK
  <2>12. QED
    BY <2>5, <2>7, <2>8, <2>9, <2>10, <2>11 DEF UsbInv
<1>9. QED
  BY <1>4, <1>5, <1>6, <1>7, <1>8

(* The completed transfers stay in order when none is added, and none is   *)
(* removed while the stream runs.                                          *)
FewerUnhandled ==
  /\ UNCHANGED <<produced, handled>>
  /\ \A u \in Transfers :
       Unhandled(u)' => Unhandled(u) /\ content'[buffer'[u]] = content[buffer[u]]
  /\ Running' => Running /\ \A u \in Transfers : Unhandled(u) => Unhandled(u)'

(* Such a step keeps the order of the completed transfers.                 *)
LEMMA FewerUnhandledStep ==
  ASSUME IInv, FewerUnhandled,
         cb' = "enter" /\ usb'[cur'] = "completed" =>
           \A u \in Transfers :
             Unhandled(u)' => content'[buffer'[cur']] <= content'[buffer'[u]],
         cb' = "lock" => content'[buffer'[cur']] = handled' + 1
  PROVE  UsbInv'
<1> USE DEF IInv, FewerUnhandled
<1>1. Running' => \A n \in handled' + 1 .. produced' :
        \E u \in Transfers : Unhandled(u)' /\ content'[buffer'[u]] = n
  <2> SUFFICES ASSUME Running', NEW n \in handled + 1 .. produced
               PROVE  \E u \in Transfers :
                        Unhandled(u)' /\ content'[buffer'[u]] = n
    OBVIOUS
  <2>1. PICK u \in Transfers : Unhandled(u) /\ content[buffer[u]] = n
    BY DEF UsbInv
  <2>2. QED
    BY <2>1
<1>2. QED
  BY <1>1 DEF UsbInv

(* A transfer that fails carries no block and disturbs none.               *)
LEMMA DeviceFailStep ==
  ASSUME IInv, NEW t \in Transfers, DeviceFail(t) PROVE IInv'
<1> USE DEF DeviceFail, IInv, flags, queue, callback, consumer, history
<1>1. /\ \A s \in Slots : received_samples_queue[s] # buffer[t]
      /\ \A u \in Transfers : u # t => buffer[u] # buffer[t]
      /\ cb # "none" => cur # t
      /\ buffer[t] \in Buffers
  BY SubmittedBuffer
<1>2. content' = [content EXCEPT ![buffer[t]] = 0]
  OBVIOUS
<1>3. TypeOK'
  <2>1. content' \in [Buffers -> Blocks]
    BY <1>2, QueueAssumption DEF TypeOK, Blocks
  <2>2. usb' \in [Transfers -> UsbStates]
    BY DEF TypeOK, UsbStates
  <2>3. QED
    BY <2>1, <2>2 DEF TypeOK
<1>4. ControlInv'
  BY <1>1 DEF ControlInv, Running, Busy, TypeOK
<1>5. RingInv' /\ ChainInv'
  <2>1. RingUntouched
    BY <1>1, <1>2 DEF RingUntouched, TypeOK
  <2>2. QED
    BY <2>1, RingUntouchedStep
<1>6. OwnerInv'
  BY DEF OwnerInv, Busy
<1>7. UsbInv'
  <2>1. \A u \in Transfers :
          /\ Unhandled(u)' <=> Unhandled(u)
          /\ u # t => content'[buffer'[u]] = content[buffer[u]]
          /\ Unhandled(u) => u # t
    BY <1>1, <1>2 DEF Unhandled, TypeOK
  <2>2. FewerUnhandled
    BY <2>1 DEF FewerUnhandled, Running
  <2>3. cb' = "enter" /\ usb'[cur'] = "completed" =>
          \A u \in Transfers :
            Unhandled(u)' => content'[buffer'[cur']] <= content'[buffer'[u]]
    BY <1>1, <2>1 DEF UsbInv, TypeOK
  <2>4. cb' = "lock" => content'[buffer'[cur']] = handled' + 1
    BY <1>1, <2>1 DEF UsbInv, TypeOK
  <2>5. QED
    BY <2>2, <2>3, <2>4, FewerUnhandledStep
<1>8. QED
  BY <1>3, <1>4, <1>5, <1>6, <1>7

(* libusb calls the callback for the oldest completed transfer.            *)
LEMMA CallbackEnterStep ==
  ASSUME IInv, NEW t \in Transfers, CallbackEnter(t) PROVE IInv'
<1> USE DEF CallbackEnter, IInv, flags, queue, usbVars, consumer, history
<1>1. TypeOK' /\ ControlInv'
  BY DEF TypeOK, CbStates, ControlInv, Running, Busy
<1>2. RingInv' /\ ChainInv'
  BY RingUntouchedStep DEF RingUntouched
<1>3. OwnerInv'
  BY DEF OwnerInv, Busy
<1>4. UsbInv'
  <2>1. \A u \in Transfers : Unhandled(u)' <=> Unhandled(u)
    BY DEF Unhandled, ControlInv
  <2>2. FewerUnhandled
    BY <2>1 DEF FewerUnhandled, Running
  <2>3. QED
    BY <2>2, FewerUnhandledStep DEF Unhandled
<1>5. QED
  BY <1>1, <1>2, <1>3, <1>4

(* While the stream runs the callback goes on with the oldest unhandled    *)
(* block; otherwise it gives the transfer up, and the stream has ended.    *)
LEMMA CallbackTestStep ==
  ASSUME IInv, CallbackTest PROVE IInv'
<1> USE DEF CallbackTest, IInv, queue, consumer, history
<1>1. RingInv' /\ ChainInv'
  BY RingUntouchedStep DEF RingUntouched
<1>2. OwnerInv'
  BY DEF OwnerInv, Busy
<1>3. CASE Running /\ usb[cur] = "completed"
  <2>1. /\ cb' = "lock"
        /\ UNCHANGED <<streaming, stop_requested, usb, handler>>
    BY <1>3
  <2>2. TypeOK' /\ ControlInv'
    BY <2>1, <1>3 DEF TypeOK, CbStates, ControlInv, Running, Busy
  <2>3. UsbInv'
    <3>1. \A u \in Transfers : Unhandled(u)' <=> Unhandled(u)
      BY <2>1 DEF Unhandled
    <3>2. FewerUnhandled
      BY <2>1, <3>1 DEF FewerUnhandled, Running
    <3>3. content[buffer[cur]] = handled + 1
      <4>1. cur \in Transfers /\ Unhandled(cur)
        BY <1>3 DEF Unhandled, TypeOK
      <4>2. handled \in Int /\ produced \in Int
        BY DEF TypeOK, Blocks
      <4>3. content[buffer[cur]] \in handled + 1 .. produced
        BY <4>1, <4>2 DEF UsbInv, TypeOK, Blocks
      <4>4. handled + 1 \in handled + 1 .. produced
        BY <4>2, <4>3
      <4>5. PICK u \in Transfers : Unhandled(u) /\ content[buffer[u]] = handled + 1
        BY <1>3, <4>4 DEF UsbInv
      <4>6. content[buffer[cur]] <= content[buffer[u]]
        BY <1>3, <4>5 DEF UsbInv
      <4>7. QED
        BY <4>2, <4>3, <4>5, <4>6
    <3>4. QED
      BY <2>1, <3>2, <3>3, FewerUnhandledStep
  <2>4. QED
    BY <1>1, <1>2, <2>2, <2>3
<1>4. CASE ~(Running /\ usb[cur] = "completed")
  <2>1. /\ usb' = [usb EXCEPT ![cur] = "idle"]
        /\ cb' = "none"
        /\ handler' = "none"
        /\ streaming' = (streaming /\ ~Running)
    BY <1>4
  <2>2. streaming' \in BOOLEAN /\ ~Running'
    <3>1. CASE streaming
      BY <2>1, <3>1 DEF Running, TypeOK
    <3>2. CASE ~streaming
      BY <2>1, <3>2 DEF Running, TypeOK
    <3>3. QED
      BY <3>1, <3>2
  <2>3. usb' \in [Transfers -> UsbStates]
    BY <2>1 DEF TypeOK, UsbStates
  <2>4. TypeOK'
    BY <2>1, <2>2, <2>3 DEF TypeOK, CbStates
  <2>5. ControlInv'
    BY <2>1, <2>2 DEF ControlInv, Busy
  <2>6. UsbInv'
    <3>1. \A u \in Transfers : Unhandled(u)' => Unhandled(u)
      BY <2>1 DEF Unhandled, TypeOK
    <3>2. FewerUnhandled
      BY <2>2, <3>1 DEF FewerUnhandled
    <3>3. QED
      BY <2>1, <3>2, FewerUnhandledStep
  <2>7. QED
    BY <1>1, <1>2, <2>4, <2>5, <2>6
<1>5. QED
  BY <1>3, <1>4

(* Resubmitting a handled transfer, or failing to, touches no block.       *)
LEMMA CallbackSubmitStep ==
  ASSUME IInv, CallbackSubmit PROVE IInv'
<1> USE DEF CallbackSubmit, IInv, queue, consumer, history
<1>1. RingInv' /\ ChainInv'
  BY RingUntouchedStep DEF RingUntouched
<1>2. OwnerInv'
  BY DEF OwnerInv, Busy
<1>3. PICK st \in {"submitted", "idle"} : usb' = [usb EXCEPT ![cur] = st]
  OBVIOUS
<1>4. streaming' = streaming \/ streaming' = FALSE
  OBVIOUS
<1>5. TypeOK' /\ ControlInv' /\ (Running' => Running)
  <2>1. usb' \in [Transfers -> UsbStates]
    BY <1>3 DEF TypeOK, UsbStates
  <2>2. CASE UNCHANGED streaming
    BY <2>1, <2>2 DEF TypeOK, CbStates, ControlInv, Running, Busy
  <2>3. CASE streaming' = FALSE
    BY <2>1, <2>3 DEF TypeOK, CbStates, ControlInv, Running, Busy
  <2>4. QED
    BY <1>4, <2>2, <2>3
<1>6. UsbInv'
  <2>1. \A u \in Transfers : Unhandled(u)' <=> Unhandled(u)
    BY <1>3 DEF Unhandled, TypeOK
  <2>2. FewerUnhandled
    BY <1>5, <2>1 DEF FewerUnhandled
  <2>3. QED
    BY <2>2, FewerUnhandledStep
<1>7. QED
  BY <1>1, <1>2, <1>5, <1>6

(* cancel_transfers() does not touch completed transfers.                  *)
LEMMA CancelTransfersStep ==
  ASSUME IInv, CancelTransfers PROVE IInv'
<1> USE DEF CancelTransfers, AppMoves, IInv, flags, queue, callback, consumer,
            history
<1>1. RingInv' /\ ChainInv'
  BY RingUntouchedStep DEF RingUntouched
<1>2. OwnerInv'
  BY DEF OwnerInv, Busy
<1>3. TypeOK' /\ ControlInv'
  <2>1. usb' \in [Transfers -> UsbStates]
    BY DEF TypeOK, UsbStates
  <2>2. \A u \in Transfers :
          usb[u] \in {"completed", "failed"} => usb'[u] = usb[u]
    OBVIOUS
  <2>3. QED
    BY <2>1, <2>2 DEF TypeOK, APcs, ControlInv, Running, Busy
<1>4. UsbInv'
  <2>1. \A u \in Transfers : Unhandled(u)' <=> Unhandled(u)
    BY DEF Unhandled
  <2>2. FewerUnhandled
    BY <2>1 DEF FewerUnhandled, Running
  <2>3. cb' = "enter" /\ usb'[cur'] = "completed" => usb[cur] = "completed"
    BY DEF TypeOK
  <2>4. QED
    BY <2>1, <2>2, <2>3, FewerUnhandledStep DEF UsbInv
<1>5. QED
  BY <1>1, <1>2, <1>3, <1>4

-----------------------------------------------------------------------------
(* Steps on the ring.                                                      *)

(* Where the window is: head is in it unless there is room for one more,   *)
(* tail is in it unless it is empty, and it has no holes.                  *)
LEMMA Window ==
  ASSUME IInv
  PROVE  /\ Queued \in 0 .. RAW_BUFFER_COUNT
         /\ Queued < RAW_BUFFER_COUNT => ~InWindow(queue_head)
         /\ Queued > 0 => InWindow(queue_tail)
         /\ Queued > 0 /\ queue_head = queue_tail => Queued = RAW_BUFFER_COUNT
         /\ Queued = 0 => queue_head = queue_tail
         /\ Queued > 0 => InWindow(Prev(queue_head))
         /\ \A s \in Slots : InWindow(s) /\ s # queue_tail => InWindow(Prev(s))
         /\ Busy => received_buffer_count = Queued + 1
         /\ ~Busy => received_buffer_count = Queued
<1> USE QueueAssumption DEF IInv
<1>1. /\ RAW_BUFFER_COUNT \in Nat \ {0}
      /\ received_buffer_count \in 0 .. RAW_BUFFER_COUNT
      /\ queue_head \in 0 .. RAW_BUFFER_COUNT - 1
      /\ queue_tail \in 0 .. RAW_BUFFER_COUNT - 1
  BY DEF TypeOK, Slots
<1>2. /\ Queued \in 0 .. RAW_BUFFER_COUNT
      /\ Busy => received_buffer_count = Queued + 1
      /\ ~Busy => received_buffer_count = Queued
  BY <1>1 DEF Queued, ControlInv
<1>3. \/ queue_head = queue_tail + Queued
      \/ queue_head = queue_tail + Queued - RAW_BUFFER_COUNT
  BY DEF RingInv
<1>4. /\ Queued < RAW_BUFFER_COUNT => ~InWindow(queue_head)
      /\ Queued > 0 => InWindow(queue_tail)
      /\ Queued > 0 /\ queue_head = queue_tail => Queued = RAW_BUFFER_COUNT
      /\ Queued = 0 => queue_head = queue_tail
  BY <1>1, <1>2, <1>3 DEF InWindow
<1>5. Queued > 0 => InWindow(Prev(queue_head))
  BY <1>1, <1>2, <1>3 DEF InWindow, Prev
<1>6. \A s \in Slots : InWindow(s) /\ s # queue_tail => InWindow(Prev(s))
  BY <1>1, <1>2 DEF InWindow, Prev, Slots
<1>7. QED
  BY <1>2, <1>4, <1>5, <1>6

(* The callback's critical section appends the oldest unhandled block to   *)
(* the ring, in place of a buffer nobody uses, or counts it as lost,       *)
(* whatever the application does with its own place in the code.           *)
LEMMA QueueOrDropStep ==
  ASSUME IInv, QueueOrDrop, apc' \in APcs, apc' = "clear" => apc = "clear"
  PROVE  IInv'
<1> USE DEF IInv
<1>1. /\ cb = "lock" /\ cb' = "submit" /\ MutexFree
      /\ handled' = content[buffer[cur]]
      /\ UNCHANGED <<streaming, stop_requested, queue_tail, uncleared, usb,
                     content, produced, handler, cur, input_samples, gap, last,
                     tpc, disturbed>>
  BY DEF QueueOrDrop, flags
<1>2. /\ cur \in Transfers /\ usb[cur] = "completed" /\ Unhandled(cur)
      /\ handled' = handled + 1 /\ handled + 1 <= produced
  BY <1>1 DEF TypeOK, ControlInv, UsbInv, Unhandled
<1>3. handled \in Nat /\ produced \in 0 .. MaxBlocks /\ MaxBlocks \in Nat
  BY QueueAssumption DEF TypeOK, Blocks
<1>4. handled' \in Blocks
  BY <1>2, <1>3 DEF Blocks
<1>5. \A u \in Transfers : /\ Unhandled(u)' <=> Unhandled(u) /\ u # cur
  BY <1>1, <1>2 DEF Unhandled
<1>6. ASSUME \A u \in Transfers :
               Unhandled(u)' => content'[buffer'[u]] = content[buffer[u]]
      PROVE  UsbInv'
  <2>1. \A u \in Transfers : Unhandled(u)' =>
          /\ handled' < content'[buffer'[u]]
          /\ content'[buffer'[u]] <= produced'
    <3> SUFFICES ASSUME NEW u \in Transfers, Unhandled(u)'
                 PROVE  /\ handled + 1 < content[buffer[u]]
                        /\ content[buffer[u]] <= produced
      BY <1>1, <1>2, <1>6
    <3>1. Unhandled(u) /\ u # cur
      BY <1>5
    <3>2. handled < content[buffer[u]] /\ content[buffer[u]] <= produced
      BY <3>1 DEF UsbInv
    <3>3. content[buffer[u]] # content[buffer[cur]]
      BY <1>2, <3>1 DEF UsbInv
    <3>4. content[buffer[cur]] = handled + 1
      BY <1>1 DEF UsbInv
    <3>5. content[buffer[u]] \in Int
      BY DEF TypeOK, Blocks
    <3>6. QED
      BY <1>3, <3>2, <3>3, <3>4, <3>5
  <2>2. \A u1, u2 \in Transfers :
          /\ Unhandled(u1)' /\ Unhandled(u2)'
          /\ content'[buffer'[u1]] = content'[buffer'[u2]]
          => u1 = u2
    BY <1>5, <1>6 DEF UsbInv
  <2>3. Running' => \A n \in handled' + 1 .. produced' :
          \E u \in Transfers : Unhandled(u)' /\ content'[buffer'[u]] = n
    <3> SUFFICES ASSUME Running, NEW n \in handled + 2 .. produced
                 PROVE  \E u \in Transfers :
                          Unhandled(u)' /\ content'[buffer'[u]] = n
      BY <1>1, <1>2, <1>3 DEF Running
    <3>1. n \in handled + 1 .. produced /\ n # handled + 1
      BY <1>3
    <3>2. PICK u \in Transfers : Unhandled(u) /\ content[buffer[u]] = n
      BY <3>1 DEF UsbInv
    <3>3. content[buffer[cur]] = handled + 1
      BY <1>1 DEF UsbInv
    <3>4. QED
      BY <1>5, <1>6, <3>1, <3>2, <3>3
  <2>4. QED
    BY <1>1, <1>2, <1>3, <2>1, <2>2, <2>3 DEF UsbInv
<1>7. CASE received_buffer_count < RAW_BUFFER_COUNT
  <2>1. /\ received_samples_queue' =
             [received_samples_queue EXCEPT ![queue_head] = buffer[cur]]
        /\ buffer' = [buffer EXCEPT ![cur] = received_samples_queue[queue_head]]
        /\ dropped_buffers_queue' =
             [dropped_buffers_queue EXCEPT ![queue_head] = dropped_buffers]
        /\ dropped_buffers' = 0
        /\ queue_head' = Succ(queue_head)
        /\ received_buffer_count' = received_buffer_count + 1
        /\ cpc' = Signalled
    BY <1>7 DEF QueueOrDrop, Enqueue
  <2>2. /\ queue_head \in Slots /\ queue_tail \in Slots
        /\ received_samples_queue[queue_head] \in Buffers
        /\ buffer[cur] \in Buffers
        /\ dropped_buffers \in Blocks
        /\ 0 \in Blocks
    BY <1>2, QueueAssumption DEF TypeOK, Blocks
  <2>3. /\ (cpc = "process")' = (cpc = "process")
        /\ Busy' = Busy
        /\ cpc' \in CPcs
        /\ cpc' = "test" <=> cpc = "test"
    BY <2>1 DEF Signalled, Busy, TypeOK, CPcs
  <2>4. Queued' = Queued + 1 /\ Queued < RAW_BUFFER_COUNT /\ Queued \in Nat
    <3>1. Queued \in Nat /\ received_buffer_count \in Nat
      BY Window, QueueAssumption DEF TypeOK
    <3>2. CASE Busy
      BY <1>7, <2>1, <2>3, <3>1, <3>2, Window, QueueAssumption DEF Queued
    <3>3. CASE ~Busy
      BY <1>7, <2>1, <2>3, <3>1, <3>3, Window, QueueAssumption DEF Queued
    <3>4. QED
      BY <3>2, <3>3
  <2>5. /\ Succ(queue_head) \in Slots
        /\ Succ(queue_head) = IF queue_head + 1 = RAW_BUFFER_COUNT
                                THEN 0 ELSE queue_head + 1
        /\ Prev(Succ(queue_head)) = queue_head
    BY <2>2, SuccPrev
  <2>6. TypeOK'
    <3>1. /\ received_samples_queue' \in [Slots -> Buffers]
          /\ buffer' \in [Transfers -> Buffers]
          /\ dropped_buffers_queue' \in [Slots -> Blocks]
      BY <2>1, <2>2 DEF TypeOK
    <3>2. received_buffer_count' \in 0 .. RAW_BUFFER_COUNT
      BY <1>7, <2>1, QueueAssumption DEF TypeOK
    <3>3. QED
      BY <1>1, <1>4, <2>1, <2>2, <2>3, <2>5, <3>1, <3>2 DEF TypeOK, CbStates
  <2>7. ControlInv'
    <3>1. received_buffer_count' > 0
      BY <2>1, QueueAssumption DEF TypeOK
    <3>2. QED
      BY <1>1, <1>2, <2>3, <3>1 DEF ControlInv
  <2>8. RingInv'
    BY <1>1, <2>1, <2>2, <2>4, <2>5, QueueAssumption DEF RingInv, Slots
  <2>9. ~InWindow(queue_head) /\ (Busy => Prev(queue_tail) # queue_head)
    <3>1. ~InWindow(queue_head)
      BY <2>4, Window
    <3>2. ASSUME Busy PROVE Prev(queue_tail) # queue_head
      <4>1. Queued + 1 < RAW_BUFFER_COUNT
        BY <1>7, <3>2, Window
      <4>2. QED
        BY <2>2, <2>4, <4>1, QueueAssumption DEF RingInv, Prev, Slots
    <3>3. QED
      BY <3>1, <3>2
  <2>10. OwnerInv'
    <3>1. \A s1, s2 \in Slots :
            received_samples_queue'[s1] = received_samples_queue'[s2] => s1 = s2
      BY <1>2, <2>1, <2>2 DEF OwnerInv, TypeOK
    <3>2. \A t1, t2 \in Transfers : buffer'[t1] = buffer'[t2] => t1 = t2
      BY <1>2, <2>1, <2>2 DEF OwnerInv, TypeOK
    <3>3. \A s \in Slots, t \in Transfers :
            received_samples_queue'[s] # buffer'[t]
      BY <1>2, <2>1, <2>2 DEF OwnerInv, TypeOK
    <3>4. Busy' => input_samples' = received_samples_queue'[Prev(queue_tail')]
      <4>1. Prev(queue_tail) \in Slots
        BY <2>2, SuccPrev
      <4>2. QED
        BY <1>1, <2>1, <2>3, <2>9, <4>1 DEF OwnerInv, TypeOK
    <3>5. QED
      BY <3>1, <3>2, <3>3, <3>4 DEF OwnerInv
  <2>11. UsbInv'
    <3>1. \A u \in Transfers :
            Unhandled(u)' => content'[buffer'[u]] = content[buffer[u]]
      BY <1>1, <1>2, <1>5, <2>1 DEF TypeOK
    <3>2. QED
      BY <1>6, <3>1
  <2>12. ChainInv'
    <3>1. Taken' = Taken
      BY <1>1, <2>3 DEF Taken
    <3>2. \A s \in Slots : InWindow(s)' <=> InWindow(s) \/ s = queue_head
      BY <1>1, <2>2, <2>4, QueueAssumption DEF InWindow, RingInv, Slots
    <3>3. /\ received_samples_queue'[queue_head] = buffer[cur]
          /\ dropped_buffers_queue'[queue_head] = dropped_buffers
          /\ \A s \in Slots : s # queue_head =>
               /\ received_samples_queue'[s] = received_samples_queue[s]
               /\ dropped_buffers_queue'[s] = dropped_buffers_queue[s]
      BY <2>1, <2>2 DEF TypeOK
    <3>4. \A s \in Slots : InWindow(s) => s # queue_head /\ Before(s)' = Before(s)
      <4> SUFFICES ASSUME NEW s \in Slots, InWindow(s)
                   PROVE  s # queue_head /\ Before(s)' = Before(s)
        OBVIOUS
      <4>1. s # queue_head
        BY <2>9
      <4>2. CASE s = queue_tail
        BY <1>1, <3>1, <4>1, <4>2 DEF Before
      <4>3. CASE s # queue_tail
        <5>1. Prev(s) \in Slots /\ Prev(s) # queue_head
          BY <2>9, <4>3, Window, SuccPrev
        <5>2. QED
          BY <1>1, <3>3, <4>1, <4>3, <5>1 DEF Before
      <4>4. QED
        BY <4>2, <4>3
    <3>5. \A h \in Slots : h = queue_head => Before(h)' = Newest
      <4> SUFFICES ASSUME NEW h \in Slots, h = queue_head
                   PROVE  Before(h)' = Newest
        OBVIOUS
      <4>1. CASE Queued = 0
        <5>1. h = queue_tail'
          BY <1>1, <4>1, Window
        <5>2. QED
          BY <3>1, <4>1, <5>1 DEF Before, Newest
      <4>2. CASE Queued # 0
        <5>1. h # queue_tail'
          BY <1>1, <2>4, <4>2, Window
        <5>2. InWindow(Prev(h)) /\ Prev(h) \in Slots
          BY <2>4, <4>2, Window, SuccPrev
        <5>3. Prev(h) # h
          BY <2>9, <5>2
        <5>4. QED
          BY <1>1, <3>3, <4>2, <5>1, <5>2, <5>3 DEF Before, Newest
      <4>3. QED
        BY <4>1, <4>2
    <3>6. content[buffer[cur]] = handled + 1 /\ Newest' = handled + 1
      <4>1. content[buffer[cur]] = handled + 1
        BY <1>1 DEF UsbInv
      <4>2. Queued' # 0 /\ Prev(queue_head') = queue_head
        BY <2>1, <2>4, <2>5
      <4>3. QED
        BY <1>1, <3>3, <4>1, <4>2 DEF Newest
    <3>7. \A s \in Slots : InWindow(s)' =>
            Follows(Before(s), dropped_buffers_queue[s],
                    content[received_samples_queue[s]])'
      <4> SUFFICES ASSUME NEW s \in Slots, InWindow(s)'
                   PROVE  Follows(Before(s), dropped_buffers_queue[s],
                                  content[received_samples_queue[s]])'
        OBVIOUS
      <4>1. CASE s = queue_head
        <5>1. Before(s)' = Newest
          BY <3>5, <4>1
        <5>2. /\ received_samples_queue'[s] = buffer[cur]
              /\ dropped_buffers_queue'[s] = dropped_buffers
          BY <3>3, <4>1
        <5>3. QED
          BY <1>1, <3>6, <5>1, <5>2 DEF ChainInv, Follows
      <4>2. CASE s # queue_head
        BY <1>1, <3>2, <3>3, <3>4, <4>2 DEF ChainInv, Follows
      <4>3. QED
        BY <4>1, <4>2
    <3>8. Follows(Newest, dropped_buffers, handled + 1)'
      BY <1>1, <1>2, <1>3, <2>1, <3>6 DEF Follows
    <3>9. (cpc = "process" => Follows(last, gap, content[input_samples]))'
      BY <1>1, <2>3 DEF ChainInv, Follows
    <3>10. QED
      BY <3>7, <3>8, <3>9 DEF ChainInv
  <2>13. QED
    BY <2>6, <2>7, <2>8, <2>10, <2>11, <2>12
<1>8. CASE ~(received_buffer_count < RAW_BUFFER_COUNT)
  <2>1. /\ dropped_buffers' = dropped_buffers + 1
        /\ UNCHANGED <<received_samples_queue, buffer, dropped_buffers_queue,
                       queue_head, received_buffer_count, cpc>>
    BY <1>8 DEF QueueOrDrop, Drop
  <2>2. Queued' = Queued /\ Newest' = Newest /\ Taken' = Taken
    BY <1>1, <2>1 DEF Queued, Busy, Newest, Taken
  <2>3. Newest \in Nat /\ dropped_buffers \in Nat
    <3>1. Taken \in Nat
      BY DEF Taken, TypeOK, Blocks
    <3>2. Prev(queue_head) \in Slots
      BY SuccPrev DEF TypeOK
    <3>3. QED
      BY <3>1, <3>2 DEF Newest, TypeOK, Blocks
  <2>4. TypeOK'
    <3>1. dropped_buffers' \in Blocks
      BY <1>2, <1>3, <2>1, <2>3 DEF ChainInv, Follows, Blocks
    <3>2. QED
      BY <1>1, <1>4, <2>1, <3>1 DEF TypeOK, CbStates
  <2>5. ControlInv' /\ RingInv' /\ OwnerInv'
    BY <1>1, <1>2, <2>1 DEF ControlInv, RingInv, OwnerInv, Queued, Busy, Running
  <2>6. UsbInv'
    BY <1>1, <1>6, <2>1
  <2>7. ChainInv'
    <3>1. Follows(Newest, dropped_buffers, handled + 1)'
      BY <1>1, <1>2, <1>3, <2>1, <2>2, <2>3 DEF ChainInv, Follows
    <3>2. \A s \in Slots : /\ Before(s)' = Before(s)
                           /\ InWindow(s)' <=> InWindow(s)
      BY <1>1, <2>1, <2>2 DEF Before, InWindow
    <3>3. QED
      BY <1>1, <2>1, <3>1, <3>2 DEF ChainInv, Follows
  <2>8. QED
    BY <2>4, <2>5, <2>6, <2>7
<1>9. QED
  BY <1>7, <1>8

LEMMA CallbackQueueStep ==
  ASSUME IInv, CallbackQueue \/ ResetOverwritten PROVE IInv'
<1>1. /\ QueueOrDrop
      /\ apc' \in APcs
      /\ apc' = "clear" => apc = "clear"
  BY DEF CallbackQueue, ResetOverwritten, AppMoves, IInv, TypeOK, APcs
<1> QED BY <1>1, QueueOrDropStep

(* The consumer takes the block at the tail; its slot stays reserved.      *)
LEMMA ConsumerTakeStep ==
  ASSUME IInv, ConsumerTake PROVE IInv'
<1> USE DEF IInv
<1>1. /\ cpc = "test" /\ cpc' = "process" /\ Running
      /\ input_samples' = received_samples_queue[queue_tail]
      /\ gap' = dropped_buffers_queue[queue_tail]
      /\ queue_tail' = Succ(queue_tail)
      /\ UNCHANGED <<streaming, stop_requested, received_samples_queue,
                     dropped_buffers_queue, queue_head, received_buffer_count,
                     dropped_buffers, uncleared, buffer, usb, content, produced,
                     handler, cb, cur, last, tpc, apc, handled, disturbed>>
  BY DEF ConsumerTake, flags, usbVars, callback, history
<1>2. ~Busy /\ Busy'
  BY <1>1 DEF Busy
<1>3. received_buffer_count \in 1 .. RAW_BUFFER_COUNT
  BY <1>1, QueueAssumption DEF ControlInv, TypeOK
<1>4. Queued' = Queued - 1 /\ Queued = received_buffer_count
  <2>1. Queued = received_buffer_count
    BY <1>2, Window
  <2>2. QED
    BY <1>1, <1>2, <1>3, <2>1, QueueAssumption DEF Queued
<1>5. Queued \in 1 .. RAW_BUFFER_COUNT
  BY <1>3, <1>4
<1>6. PICK tl \in Slots : tl = queue_tail
  BY DEF TypeOK
<1>7. /\ Succ(tl) \in Slots
      /\ Succ(tl) = IF tl + 1 = RAW_BUFFER_COUNT THEN 0 ELSE tl + 1
      /\ Prev(Succ(tl)) = tl
  BY SuccPrev
<1>8. InWindow(tl)
  BY <1>5, <1>6, Window, QueueAssumption
<1>9. TypeOK'
  BY <1>1, <1>6, <1>7 DEF TypeOK, CPcs
<1>10. ControlInv'
  BY <1>1, <1>3, QueueAssumption DEF ControlInv, Running
<1>11. RingInv'
  <2>1. queue_head \in Slots
    BY DEF TypeOK
  <2>2. QED
    BY <1>1, <1>4, <1>5, <1>6, <1>7, <2>1, QueueAssumption DEF RingInv, Slots
<1>12. OwnerInv'
  BY <1>1, <1>6, <1>7 DEF OwnerInv
<1>13. UsbInv'
  BY <1>1 DEF UsbInv, Unhandled, Running
<1>14. ChainInv'
  <2>1. Taken' = content[received_samples_queue[tl]] /\ Taken = last
    BY <1>1, <1>6 DEF Taken
  <2>2. \A s \in Slots : InWindow(s)' => InWindow(s) /\ s # tl
    BY <1>1, <1>4, <1>5, <1>6, <1>7, QueueAssumption DEF InWindow, Slots
  <2>3. Before(tl) = last
    BY <1>6, <2>1 DEF Before
  <2>4. \A s \in Slots : InWindow(s)' => Before(s)' = Before(s)
    <3> SUFFICES ASSUME NEW s \in Slots, InWindow(s)'
                 PROVE  Before(s)' = Before(s)
      OBVIOUS
    <3>1. Before(s) = content[received_samples_queue[Prev(s)]]
      BY <1>6, <2>2 DEF Before
    <3>2. CASE s = Succ(tl)
      BY <1>1, <1>6, <1>7, <2>1, <3>1, <3>2 DEF Before
    <3>3. CASE s # Succ(tl)
      BY <1>1, <1>6, <3>1, <3>3 DEF Before
    <3>4. QED
      BY <3>2, <3>3
  <2>5. Newest' = Newest
    <3>1. CASE Queued = 1
      <4>1. Queued' = 0 /\ Queued # 0
        BY <1>4, <3>1
      <4>2. queue_head = Succ(tl)
        BY <1>6, <1>7, <3>1, QueueAssumption DEF RingInv, TypeOK, Slots
      <4>3. QED
        BY <1>7, <2>1, <4>1, <4>2 DEF Newest
    <3>2. CASE Queued # 1
      <4>1. Queued' # 0 /\ Queued # 0
        BY <1>4, <1>5, <3>2, QueueAssumption
      <4>2. QED
        BY <1>1, <4>1 DEF Newest
    <3>3. QED
      BY <3>1, <3>2
  <2>6. \A s \in Slots : InWindow(s)' =>
          Follows(Before(s), dropped_buffers_queue[s],
                  content[received_samples_queue[s]])'
    BY <1>1, <2>2, <2>4 DEF ChainInv, Follows
  <2>7. Follows(Newest, dropped_buffers, handled + 1)'
    BY <1>1, <2>5 DEF ChainInv, Follows
  <2>8. Follows(last, gap, content[input_samples])'
    BY <1>1, <1>6, <1>8, <2>3 DEF ChainInv, Follows
  <2>9. QED
    BY <2>6, <2>7, <2>8 DEF ChainInv
<1>15. QED
  BY <1>9, <1>10, <1>11, <1>12, <1>13, <1>14

(* Handing the block to the client makes it the last one handed over.      *)
LEMMA ConsumerDeliverStep ==
  ASSUME IInv, ConsumerDeliver PROVE IInv'
<1> USE DEF IInv
<1>1. /\ cpc = "process" /\ cpc' = "release"
      /\ last' = content[input_samples]
      /\ stop_requested' = stop_requested \/ stop_requested' = TRUE
      /\ UNCHANGED <<streaming, received_samples_queue, dropped_buffers_queue,
                     queue_head, queue_tail, received_buffer_count,
                     dropped_buffers, uncleared, buffer, usb, content, produced,
                     handler, cb, cur, input_samples, gap, tpc, apc, handled,
                     disturbed>>
  BY DEF ConsumerDeliver, ConsumerMoves, queue, usbVars, callback, history
<1>2. Busy /\ Busy' /\ Queued' = Queued
  BY <1>1 DEF Busy, Queued
<1>3. last' \in Blocks
  BY <1>1 DEF TypeOK
<1>4. TypeOK' /\ ControlInv' /\ (Running' => Running)
  <2>1. CASE UNCHANGED stop_requested
    BY <1>1, <1>2, <1>3, <2>1 DEF TypeOK, CPcs, ControlInv, Running
  <2>2. CASE stop_requested' = TRUE
    BY <1>1, <1>2, <1>3, <2>2 DEF TypeOK, CPcs, ControlInv, Running
  <2>3. QED
    BY <1>1, <2>1, <2>2
<1>5. RingInv' /\ OwnerInv'
  BY <1>1, <1>2 DEF RingInv, OwnerInv
<1>6. UsbInv'
  BY <1>1, <1>4 DEF UsbInv, Unhandled
<1>7. ChainInv'
  <2>1. Taken' = Taken
    BY <1>1 DEF Taken
  <2>2. QED
    BY <1>1, <1>2, <2>1 DEF ChainInv, Follows, Before, Newest, InWindow
<1>8. QED
  BY <1>4, <1>5, <1>6, <1>7

(* received_buffer_count-- gives the slot of the block just read back.     *)
LEMMA ConsumerReleaseStep ==
  ASSUME IInv, ConsumerRelease PROVE IInv'
<1> USE DEF IInv
<1>1. /\ cpc = "release" /\ cpc' = "outer"
      /\ received_buffer_count' = received_buffer_count - 1
      /\ UNCHANGED <<streaming, stop_requested, received_samples_queue,
                     dropped_buffers_queue, queue_head, queue_tail,
                     dropped_buffers, uncleared, buffer, usb, content, produced,
                     handler, cb, cur, input_samples, gap, last, tpc, apc,
                     handled, disturbed>>
  BY DEF ConsumerRelease, ConsumerMoves, flags, usbVars, callback, history
<1>2. Busy /\ ~Busy'
  BY <1>1 DEF Busy
<1>3. received_buffer_count \in 1 .. RAW_BUFFER_COUNT
  BY <1>2, QueueAssumption DEF ControlInv, TypeOK
<1>4. Queued' = Queued
  BY <1>1, <1>2, <1>3, QueueAssumption DEF Queued
<1>5. TypeOK'
  BY <1>1, <1>3, QueueAssumption DEF TypeOK, CPcs
<1>6. ControlInv' /\ RingInv' /\ OwnerInv'
  BY <1>1, <1>2, <1>4 DEF ControlInv, RingInv, OwnerInv
<1>7. UsbInv'
  BY <1>1 DEF UsbInv, Unhandled, Running
<1>8. ChainInv'
  <2>1. Taken' = Taken
    BY <1>1 DEF Taken
  <2>2. QED
    BY <1>1, <1>4, <2>1 DEF ChainInv, Follows, Before, Newest, InWindow
<1>9. QED
  BY <1>5, <1>6, <1>7, <1>8

(* Clearing any of the loss counts keeps the order; after it a loss count  *)
(* may be too small.                                                       *)
LEMMA CountsCleared ==
  ASSUME IInv,
         dropped_buffers_queue' \in [Slots -> Blocks],
         \A s \in Slots :
           dropped_buffers_queue'[s] \in {0, dropped_buffers_queue[s]},
         dropped_buffers' \in {0, dropped_buffers},
         disturbed', uncleared' \subseteq Slots, disturbed' \in BOOLEAN,
         apc' \in APcs,
         UNCHANGED <<streaming, stop_requested, received_samples_queue,
                     queue_head, queue_tail, received_buffer_count, buffer, usb,
                     content, produced, handler, cb, cur, cpc, input_samples,
                     gap, last, tpc, handled>>
  PROVE  IInv'
<1> USE DEF IInv
<1>1. /\ \A s \in Slots :
           dropped_buffers_queue'[s] \in {0, dropped_buffers_queue[s]}
      /\ dropped_buffers' \in {0, dropped_buffers}
      /\ disturbed'
      /\ UNCHANGED <<streaming, stop_requested, received_samples_queue,
                     queue_head, queue_tail, received_buffer_count, buffer, usb,
                     content, produced, handler, cb, cur, cpc, input_samples,
                     gap, last, tpc, handled>>
  OBVIOUS
<1>2. Queued' = Queued /\ Busy' = Busy /\ Running' = Running
  BY <1>1 DEF Queued, Busy, Running
<1>3. TypeOK'
  <2>1. dropped_buffers' \in Blocks
    BY <1>1, QueueAssumption DEF TypeOK, Blocks
  <2> QED BY <1>1, <2>1 DEF TypeOK
<1>4. ControlInv' /\ RingInv' /\ OwnerInv'
  BY <1>1, <1>2 DEF ControlInv, RingInv, OwnerInv
<1>5. UsbInv'
  BY <1>1, <1>2 DEF UsbInv, Unhandled
<1>6. ChainInv'
  <2>1. Taken \in Nat /\ Newest \in Nat /\ handled \in Nat
        /\ dropped_buffers \in Nat
    BY SuccPrev DEF Taken, Newest, TypeOK, Blocks
  <2>2. Newest' = Newest
    BY <1>1, <1>2 DEF Newest, Taken
  <2>3. \A s \in Slots : /\ Before(s)' = Before(s)
                         /\ InWindow(s)' <=> InWindow(s)
                         /\ Before(s) \in Nat
                         /\ dropped_buffers_queue[s] \in Nat
                         /\ content[received_samples_queue[s]] \in Nat
    BY <1>1, <1>2, <2>1, SuccPrev DEF Before, Taken, InWindow, TypeOK, Blocks
  <2>4. \A s \in Slots : InWindow(s)' =>
          Follows(Before(s), dropped_buffers_queue[s],
                  content[received_samples_queue[s]])'
    <3> SUFFICES ASSUME NEW s \in Slots, InWindow(s)
                 PROVE  Follows(Before(s), dropped_buffers_queue[s],
                                content[received_samples_queue[s]])'
      BY <2>3
    <3>1. Before(s) + dropped_buffers_queue[s] + 1
            <= content[received_samples_queue[s]]
      BY DEF ChainInv, Follows
    <3>2. /\ dropped_buffers_queue'[s] \in Nat
          /\ dropped_buffers_queue'[s] <= dropped_buffers_queue[s]
      BY <1>1, <2>3
    <3>3. Before(s) + dropped_buffers_queue'[s] + 1
            <= content[received_samples_queue[s]]
      BY <2>3, <3>1, <3>2
    <3>4. QED
      BY <1>1, <2>3, <3>3 DEF Follows
  <2>5. Follows(Newest, dropped_buffers, handled + 1)'
    <3>1. Newest + dropped_buffers + 1 <= handled + 1
      BY DEF ChainInv, Follows
    <3>2. dropped_buffers' \in Nat /\ dropped_buffers' <= dropped_buffers
      BY <1>1, <2>1
    <3>a. \A n, d, e, h \in Nat : n + d + 1 <= h + 1 /\ e <= d => n + e + 1 <= h + 1
      OBVIOUS
    <3>3. Newest + dropped_buffers' + 1 <= handled + 1
      BY <2>1, <3>a, <3>1, <3>2
    <3>4. QED
      BY <1>1, <2>2, <3>3 DEF Follows
  <2>6. (cpc = "process" => Follows(last, gap, content[input_samples]))'
    BY <1>1 DEF ChainInv, Follows
  <2>7. QED
    BY <2>4, <2>5, <2>6 DEF ChainInv
<1>7. QED
  BY <1>3, <1>4, <1>5, <1>6

(* The steps in which a start_rx() clears them.                            *)
LEMMA StartClearsStep ==
  ASSUME IInv, StartRxBusy \/ StartClears PROVE IInv'
<1> USE DEF IInv
<1>1. CASE StartRxBusy
  BY <1>1, CountsCleared
     DEF StartRxBusy, AppMoves, APcs, TypeOK, flags, usbVars, callback, consumer
<1>2. ASSUME NEW s \in Slots, ClearSlot(s) PROVE IInv'
  <2>1. /\ s \in uncleared /\ uncleared' = uncleared \ {s}
        /\ dropped_buffers_queue' = [dropped_buffers_queue EXCEPT ![s] = 0]
        /\ UNCHANGED <<streaming, stop_requested, received_samples_queue,
                       queue_head, queue_tail, received_buffer_count,
                       dropped_buffers, buffer, usb, content, produced, handler,
                       cb, cur, cpc, input_samples, gap, last, tpc, apc,
                       handled, disturbed>>
    BY <1>2 DEF ClearSlot, flags, usbVars, callback, consumer, history
  <2>2. /\ dropped_buffers_queue' \in [Slots -> Blocks]
        /\ \A r \in Slots :
             dropped_buffers_queue'[r] \in {0, dropped_buffers_queue[r]}
    BY <2>1, QueueAssumption DEF TypeOK, Blocks
  <2>3. disturbed' /\ disturbed' \in BOOLEAN /\ apc' \in APcs
        /\ uncleared' \subseteq Slots
    BY <2>1 DEF ControlInv, TypeOK
  <2> QED BY <2>1, <2>2, <2>3, CountsCleared
<1>3. CASE ResetDropped
  <2>1. /\ apc = "clear" /\ apc' = "control" /\ dropped_buffers' = 0
        /\ UNCHANGED <<streaming, stop_requested, received_samples_queue,
                       dropped_buffers_queue, queue_head, queue_tail,
                       received_buffer_count, uncleared, buffer, usb, content,
                       produced, handler, cb, cur, cpc, input_samples, gap,
                       last, tpc, handled, disturbed>>
    BY <1>3 DEF ResetDropped, AppMoves, flags, usbVars, callback, consumer,
       history
  <2>2. disturbed' /\ disturbed' \in BOOLEAN /\ apc' \in APcs
        /\ uncleared' \subseteq Slots
    BY <2>1 DEF ControlInv, TypeOK, APcs
  <2>3. /\ dropped_buffers_queue' \in [Slots -> Blocks]
        /\ \A r \in Slots :
             dropped_buffers_queue'[r] \in {0, dropped_buffers_queue[r]}
    BY <2>1 DEF TypeOK
  <2> QED BY <2>1, <2>2, <2>3, CountsCleared
<1> QED
  BY <1>1, <1>2, <1>3, CallbackQueueStep DEF StartClears

-----------------------------------------------------------------------------
(* The theorems.                                                           *)

(* Every step of the system keeps the inductive invariant.                 *)
LEMMA NextIInv == IInv /\ [Next]_vars => IInv'
<1> SUFFICES ASSUME IInv, [Next]_vars PROVE IInv'
  OBVIOUS
<1>1. CASE Device
  BY <1>1, DeviceFillStep, DeviceFailStep DEF Device
<1>2. CASE EventHandler
  BY <1>2, QuietActions, CallbackEnterStep, CallbackTestStep, CallbackQueueStep,
     CallbackSubmitStep DEF EventHandler
<1>3. CASE Consumer
  BY <1>3, QuietActions, ConsumerTakeStep, ConsumerDeliverStep,
     ConsumerReleaseStep DEF Consumer
<1>4. CASE SpuriousWakeup
  BY <1>4, QuietActions
<1>5. CASE Application
  BY <1>5, QuietActions, StartClearsStep, CancelTransfersStep
  DEF Application, StopSequence
<1>6. CASE UNCHANGED vars
  <2> USE <1>6 DEF vars, flags, queue, usbVars, callback, consumer, history
  <2>1. Quiet
    BY DEF Quiet, Running, Busy
  <2>2. TypeOK' /\ ControlInv'
    BY DEF IInv, TypeOK, ControlInv, Running, Busy
  <2>3. QED
    BY <2>1, <2>2, QuietStep
<1>7. QED
  BY <1>1, <1>2, <1>3, <1>4, <1>5, <1>6 DEF Next, Finished

(* Hence it always holds.                                                  *)
THEOREM InductiveInvariant == Spec => []IInv
BY InitIInv, NextIInv, PTL DEF Spec

(* Every variable of the device structure keeps its range; in particular   *)
(* received_buffer_count stays between 0 and RAW_BUFFER_COUNT and the ring *)
(* indices stay inside the arrays.                                         *)
THEOREM TypeCorrect == Spec => []TypeOK
<1>1. IInv => TypeOK
  BY DEF IInv
<1>2. QED
  BY <1>1, InductiveInvariant, PTL

(* The block numbers and loss counts handed to the client are right.       *)
THEOREM GapsAreAccounted == Spec => []GapAccounting
<1>1. IInv => GapAccounting
  BY DEF IInv, ChainInv, Follows, GapAccounting, TypeOK, Blocks
<1>2. QED
  BY <1>1, InductiveInvariant, PTL

(* The buffer the consumer reads is in no submitted transfer, so no step   *)
(* of the device writes to it.                                             *)
THEOREM BlockStaysIntact == Spec => BlockIntact
<1>1. ASSUME IInv, [Next]_vars, cpc = "process"
      PROVE  content'[input_samples] = content[input_samples]
  <2>1. \A t \in Transfers : buffer[t] # input_samples
    <3>1. Prev(queue_tail) \in Slots
      BY <1>1, SuccPrev DEF IInv, TypeOK
    <3>2. QED
      BY <1>1, <3>1 DEF IInv, OwnerInv, Busy
  <2>2. CASE Device
    BY <1>1, <2>1, <2>2 DEF Device, DeviceFill, DeviceFail, IInv, TypeOK
  <2>3. CASE ~Device
    <3>1. UNCHANGED content
      BY <1>1, <2>3
      DEF Next, EventHandler, Consumer, Application, StopSequence, Finished, vars,
          usbVars, TransferLoop, EventsReturn, CallbackEnter, CallbackTest,
          CallbackQueue, QueueOrDrop, CallbackSubmit, ConsumerLock,
          ConsumerOuter,
          ConsumerInner, ConsumerWait, ConsumerTake, ConsumerBreak,
          ConsumerDeliver, ConsumerRelease, ConsumerExit, SpuriousWakeup,
          ControlCall, ControlReturn, StartRxBusy, StartClears, ClearSlot,
          ResetDropped, ResetOverwritten, StopRx, CancelTransfers,
          SignalConsumer, JoinTransfer, JoinConsumer, ReceiverOff
    <3>2. QED
      BY <3>1
  <2>4. QED
    BY <2>2, <2>3
<1>2. IInv /\ [Next]_vars =>
        [cpc = "process" => content'[input_samples] = content[input_samples]]_vars
  BY <1>1
<1>3. QED
  BY <1>2, InductiveInvariant, PTL DEF Spec, BlockIntact

-----------------------------------------------------------------------------

(* The consumer sleeps, or goes to sleep, only while the queue is empty,   *)
(* and never once stop_rx() has signalled it and waits for it to end.      *)
NoWakeupMissed ==
  /\ cpc \in {"wait", "blocked"} => received_buffer_count = 0
  /\ apc \in {"join_transfer", "join_consumer"} => cpc \notin {"wait", "blocked"}

(* What keeps it: each step of stop_rx() up to the joins has the request   *)
(* set, so a consumer that looks at it again does not go back to sleep.    *)
WakeupInv ==
  /\ NoWakeupMissed
  /\ apc \in {"cancel", "signal", "join_transfer", "join_consumer"} => stop_requested
  /\ streaming \in BOOLEAN /\ stop_requested \in BOOLEAN

(* It holds at first.                                                      *)
LEMMA WakeupInit == Init => WakeupInv
BY DEF Init, WakeupInv, NoWakeupMissed

(* Every step of the threads, the device and the application keeps it.     *)
LEMMA WakeupNext == WakeupInv /\ [Next]_vars => WakeupInv'
<1> SUFFICES ASSUME WakeupInv, [Next]_vars PROVE WakeupInv'
  OBVIOUS
<1> USE DEF WakeupInv, NoWakeupMissed, Signalled, MutexFree, Holding,
            Running, ConsumerMoves, AppMoves, flags, queue, usbVars,
            callback, consumer, history
<1>a. ASSUME QueueOrDrop,
             \/ UNCHANGED apc
             \/ apc' = "control"
      PROVE  WakeupInv'
  <2>1. CASE Enqueue
    BY <1>a, <2>1 DEF QueueOrDrop, Enqueue
  <2>2. CASE Drop
    BY <1>a, <2>2 DEF QueueOrDrop, Drop
  <2> QED BY <1>a, <2>1, <2>2 DEF QueueOrDrop
<1>1. CASE Device
  BY <1>1 DEF Device, DeviceFill, DeviceFail
<1>2. CASE EventHandler
  <2>1. CASE CallbackQueue
    BY <1>a, <2>1 DEF CallbackQueue
  <2>2. CASE TransferLoop
    BY <2>2 DEF TransferLoop
  <2>3. CASE EventsReturn
    BY <2>3 DEF EventsReturn
  <2>4. CASE \E t \in Transfers : CallbackEnter(t)
    BY <2>4 DEF CallbackEnter
  <2>5. CASE CallbackTest
    BY <2>5 DEF CallbackTest
  <2>6. CASE CallbackSubmit
    BY <2>6 DEF CallbackSubmit
  <2> QED BY <1>2, <2>1, <2>2, <2>3, <2>4, <2>5, <2>6 DEF EventHandler
<1>3. CASE Consumer
  <2>1. CASE ConsumerLock
    BY <2>1 DEF ConsumerLock
  <2>2. CASE ConsumerOuter
    BY <2>2 DEF ConsumerOuter
  <2>3. CASE ConsumerInner
    BY <2>3 DEF ConsumerInner
  <2>4. CASE ConsumerWait
    BY <2>4 DEF ConsumerWait
  <2>5. CASE ConsumerTake
    BY <2>5 DEF ConsumerTake
  <2>6. CASE ConsumerBreak
    BY <2>6 DEF ConsumerBreak
  <2>7. CASE ConsumerDeliver
    BY <2>7 DEF ConsumerDeliver
  <2>8. CASE ConsumerRelease
    BY <2>8 DEF ConsumerRelease
  <2>9. CASE ConsumerExit
    BY <2>9 DEF ConsumerExit
  <2> QED BY <1>3, <2>1, <2>2, <2>3, <2>4, <2>5, <2>6, <2>7, <2>8, <2>9 DEF Consumer
<1>4. CASE SpuriousWakeup
  BY <1>4 DEF SpuriousWakeup
<1>5. CASE Application
  <2>1. CASE ControlCall \/ ControlReturn
    BY <2>1 DEF ControlCall, ControlReturn
  <2>2. CASE StartRxBusy \/ StartClears
    <3>1. CASE StartRxBusy
      BY <3>1 DEF StartRxBusy
    <3>2. CASE \E s \in Slots : ClearSlot(s)
      BY <3>2 DEF ClearSlot
    <3>3. CASE ResetDropped
      BY <3>3 DEF ResetDropped
    <3>4. CASE ResetOverwritten
      BY <1>a, <3>4 DEF ResetOverwritten
    <3> QED BY <2>2, <3>1, <3>2, <3>3, <3>4 DEF StartClears
  <2>3. CASE StopRx
    BY <2>3 DEF StopRx
  <2>4. CASE CancelTransfers
    BY <2>4 DEF CancelTransfers
  <2>5. CASE SignalConsumer
    BY <2>5 DEF SignalConsumer
  <2>6. CASE JoinTransfer
    BY <2>6 DEF JoinTransfer
  <2>7. CASE JoinConsumer
    BY <2>7 DEF JoinConsumer
  <2>8. CASE ReceiverOff
    BY <2>8 DEF ReceiverOff
  <2> QED BY <1>5, <2>1, <2>2, <2>3, <2>4, <2>5, <2>6, <2>7, <2>8
          DEF Application, StopSequence
<1>6. CASE UNCHANGED vars
  BY <1>6 DEF vars
<1> QED BY <1>1, <1>2, <1>3, <1>4, <1>5, <1>6 DEF Next, Finished

(* No wakeup is lost: the consumer never waits with a block in the queue,  *)
(* nor after stop_rx() has signalled it and waits for it to end.  This is  *)
(* the safety half of StopReturns and AcceptedIsDelivered.                 *)
THEOREM NoWakeupIsMissed == Spec => []NoWakeupMissed
<1>1. WakeupInv => NoWakeupMissed
  BY DEF WakeupInv
<1> QED BY <1>1, WakeupInit, WakeupNext, PTL DEF Spec
=============================================================================
