----------------------- MODULE SampleQueue_refinement -----------------------
(***************************************************************************)
(* SampleQueue implements LossyFifo, for any number of slots, transfers    *)
(* and blocks: every step of the four actors, at the grain of their        *)
(* accesses to the device structure, is one step of the abstract queue or  *)
(* none that it shows.                                                     *)
(*                                                                         *)
(* It also implements the part of StreamControl that is one stream and its *)
(* stop, so that what StreamControl_proofs proves of a stream that did not *)
(* end by itself holds at the finer grain, too.                            *)
(***************************************************************************)
EXTENDS SampleQueue_proofs, Sequences, FiniteSetTheorems

(* The abstract queue's places, and the slot in which each one is.         *)
At(i) == (queue_tail + i - 1) % RAW_BUFFER_COUNT

EntryIn(s) == [block |-> content[received_samples_queue[s]],
               gap |-> dropped_buffers_queue[s]]

Places == [i \in 1 .. Queued |-> EntryIn(At(i))]

Working == IF Busy THEN [block |-> content[input_samples], gap |-> gap]
           ELSE Fifo!None

(* The block that is being released is the one handed over last; block     *)
(* numbers begin with 1.                                                   *)
ReleaseInv == cpc = "release" => last = content[input_samples] /\ last >= 1

RefInv == IInv /\ ReleaseInv

-----------------------------------------------------------------------------
(* The invariant.                                                          *)

(* The slots of the window, from the tail on.                              *)
LEMMA AtRange ==
  ASSUME NEW t \in Slots, NEW i \in 1 .. RAW_BUFFER_COUNT
  PROVE  /\ (t + i - 1) % RAW_BUFFER_COUNT \in Slots
         /\ (t + i - 1) % RAW_BUFFER_COUNT =
              IF t + i - 1 < RAW_BUFFER_COUNT THEN t + i - 1
              ELSE t + i - 1 - RAW_BUFFER_COUNT
BY QueueAssumption DEF Slots

(* A buffer in a slot, and the one the consumer works on, which is in the  *)
(* slot behind the tail, are not written.                                  *)
LEMMA ContentKept ==
  ASSUME IInv, [Next]_vars
  PROVE  /\ \A s \in Slots : content'[received_samples_queue[s]]
                               = content[received_samples_queue[s]]
         /\ Busy => content'[input_samples] = content[input_samples]
<1>1. CASE UNCHANGED content
  BY <1>1
<1>2. CASE Device
  <2>1. PICK t \in Transfers : DeviceFill(t) \/ DeviceFail(t)
    BY <1>2 DEF Device
  <2>2. /\ \A s \in Slots : received_samples_queue[s] # buffer[t]
        /\ buffer[t] \in Buffers
    BY <2>1, SubmittedBuffer DEF DeviceFill, DeviceFail
  <2>3. \A b \in Buffers : b # buffer[t] => content'[b] = content[b]
    BY <2>1 DEF DeviceFill, DeviceFail, IInv, TypeOK
  <2>4. \A s \in Slots : received_samples_queue[s] \in Buffers
    BY DEF IInv, TypeOK
  <2>5. Busy => \E s \in Slots : input_samples = received_samples_queue[s]
    BY SuccPrev DEF IInv, OwnerInv, TypeOK
  <2> QED BY <2>2, <2>3, <2>4, <2>5
<1> QED
  BY <1>1, <1>2
  DEF Next, EventHandler, Consumer, Application, StopSequence, Finished, vars,
      usbVars, TransferLoop, EventsReturn, CallbackEnter, CallbackTest,
      CallbackQueue, QueueOrDrop, CallbackSubmit, ConsumerLock,
      ConsumerOuter, ConsumerInner, ConsumerWait, ConsumerTake, ConsumerBreak,
      ConsumerDeliver, ConsumerRelease, ConsumerExit, SpuriousWakeup,
      ControlCall, ControlReturn, StartRxBusy, StartClears, ClearSlot,
      ResetDropped, ResetOverwritten, StopRx, CancelTransfers,
      SignalConsumer, JoinTransfer, JoinConsumer, ReceiverOff

(* Steps that neither queue, take, hand over nor release a block, and do   *)
(* not clear the loss counters.                                            *)
Silent ==
  /\ UNCHANGED <<received_samples_queue, dropped_buffers_queue, queue_tail,
                 received_buffer_count, dropped_buffers, input_samples, gap, last,
                 handled>>
  /\ Busy' = Busy
  /\ cpc' = "release" <=> cpc = "release"

(* There are six kinds of steps that are not silent: the callback's, three *)
(* of the consumer and two of a start_rx() that clears the loss counts.    *)
LEMMA Kinds ==
  ASSUME IInv, [Next]_vars
  PROVE  \/ Silent
         \/ QueueOrDrop \/ ConsumerTake \/ ConsumerDeliver \/ ConsumerRelease
         \/ (\E s \in Slots : ClearSlot(s)) \/ ResetDropped
<1> USE DEF Silent, Busy, flags, queue, usbVars, callback, consumer, history
<1>1. CASE Device
  BY <1>1 DEF Device, DeviceFill, DeviceFail
<1>2. CASE EventHandler
  BY <1>2 DEF EventHandler, TransferLoop, EventsReturn, CallbackEnter, CallbackTest,
     CallbackSubmit, CallbackQueue
<1>3. CASE Consumer
  BY <1>3 DEF Consumer, ConsumerLock, ConsumerOuter, ConsumerInner, ConsumerWait,
     ConsumerBreak, ConsumerExit, ConsumerMoves
<1>4. CASE SpuriousWakeup
  BY <1>4 DEF SpuriousWakeup, ConsumerMoves
<1>5. CASE Application
  BY <1>5 DEF Application, StopSequence, ControlCall, ControlReturn, StopRx,
     StartRxBusy, StartClears, ResetOverwritten, CancelTransfers, SignalConsumer,
     JoinTransfer, JoinConsumer, ReceiverOff, Signalled
<1>6. CASE UNCHANGED vars
  BY <1>6 DEF vars
<1> QED
  BY <1>1, <1>2, <1>3, <1>4, <1>5, <1>6 DEF Next, Finished

(* ReleaseInv is kept.                                                     *)
LEMMA RefInvNext == RefInv /\ [Next]_vars => RefInv'
<1> SUFFICES ASSUME IInv, ReleaseInv, [Next]_vars PROVE ReleaseInv'
  BY NextIInv DEF RefInv
<1>1. cpc = "release" => content'[input_samples] = content[input_samples]
  BY ContentKept DEF Busy
<1>2. CASE Silent \/ (\E s \in Slots : ClearSlot(s)) \/ ResetDropped
  BY <1>1, <1>2 DEF Silent, ClearSlot, ResetDropped, consumer, ReleaseInv
<1>3. CASE QueueOrDrop
  BY <1>1, <1>3 DEF QueueOrDrop, Enqueue, Drop, Signalled, ReleaseInv
<1>4. CASE ConsumerTake \/ ConsumerRelease
  BY <1>4 DEF ConsumerTake, ConsumerRelease, ConsumerMoves, ReleaseInv
<1>5. CASE ConsumerDeliver
  <2>1. content[input_samples] >= 1
    BY <1>5 DEF ConsumerDeliver, ConsumerMoves, IInv, ChainInv, Follows, TypeOK, Blocks
  <2> QED BY <1>5, <2>1 DEF ConsumerDeliver, ReleaseInv, usbVars
<1> QED BY <1>2, <1>3, <1>4, <1>5, Kinds

-----------------------------------------------------------------------------
(* The abstract queue.                                                     *)

(* What the refinement mapping of SampleQueue is.                          *)
LEMMA Mapping ==
  ASSUME IInv
  PROVE  /\ Queued \in 0 .. RAW_BUFFER_COUNT
         /\ Len(Places) = Queued
         /\ \A i \in 1 .. Queued : At(i) \in Slots
         /\ Places = [i \in 1 .. Queued |-> QueueEntry(i)]
<1>1. Queued \in 0 .. RAW_BUFFER_COUNT /\ queue_tail \in Slots
  BY Window DEF IInv, TypeOK
<1>2. Len(Places) = Queued
  BY <1>1 DEF Places
<1>3. \A i \in 1 .. Queued : At(i) \in Slots
  BY <1>1, AtRange, QueueAssumption DEF At
<1>4. Places = [i \in 1 .. Queued |-> QueueEntry(i)]
  BY DEF Places, EntryIn, At, QueueEntry
<1> QED BY <1>1, <1>2, <1>3, <1>4

(* The block the client works on is one, so that the abstract queue counts *)
(* the places that the code counts.                                        *)
LEMMA Occupancy ==
  ASSUME RefInv
  PROVE  /\ Working = Fifo!None <=> ~Busy
         /\ Queued + (IF Working = Fifo!None THEN 0 ELSE 1) = received_buffer_count
<1>1. Busy => content[input_samples] >= 1 /\ content[input_samples] \in Nat
  BY DEF RefInv, IInv, ReleaseInv, ChainInv, Follows, Busy, TypeOK, Blocks
<1>2. Working = Fifo!None <=> ~Busy
  BY <1>1 DEF Working, Fifo!None
<1> QED BY <1>2, Window, QueueAssumption DEF RefInv, IInv, TypeOK

(* A silent step shows nothing.                                            *)
LEMMA SilentStep ==
  ASSUME IInv, [Next]_vars, Silent
  PROVE  UNCHANGED <<Places, Working, dropped_buffers, handled, last>>
<1>1. Queued' = Queued /\ Busy' = Busy
  BY DEF Silent, Queued
<1>2. \A i \in 1 .. Queued : At(i)' = At(i) /\ EntryIn(At(i))' = EntryIn(At(i))
  BY ContentKept, Mapping DEF Silent, At, EntryIn
<1>3. Places' = Places
  BY <1>1, <1>2 DEF Places
<1>4. Working' = Working
  BY <1>1, ContentKept DEF Silent, Working, Fifo!None
<1> QED BY <1>3, <1>4 DEF Silent

(* The callback's critical section: the block gets a place behind all the  *)
(* others if there is one, and is counted as lost otherwise.               *)
LEMMA QueueOrDropRefines ==
  ASSUME RefInv, [Next]_vars, QueueOrDrop
  PROVE  \/ /\ handled < MaxBlocks /\ handled' = handled + 1
            /\ received_buffer_count < RAW_BUFFER_COUNT
            /\ Places' = Append(Places, [block |-> handled + 1, gap |-> dropped_buffers])
            /\ dropped_buffers' = 0
            /\ UNCHANGED <<Working, last>>
         \/ /\ handled < MaxBlocks /\ handled' = handled + 1
            /\ received_buffer_count = RAW_BUFFER_COUNT
            /\ dropped_buffers' = dropped_buffers + 1
            /\ UNCHANGED <<Places, Working, last>>
<1> USE DEF RefInv
<1>1. /\ cb = "lock" /\ handled' = content[buffer[cur]]
      /\ UNCHANGED <<queue_tail, content, input_samples, gap, last>>
  BY DEF QueueOrDrop
<1>2. handled' = handled + 1 /\ handled < MaxBlocks
  <2>1. handled' = handled + 1
    BY <1>1 DEF IInv, UsbInv
  <2>2. handled' \in Blocks
    BY NextIInv DEF IInv, TypeOK
  <2> QED BY <2>1, <2>2, QueueAssumption DEF IInv, TypeOK, Blocks
<1>3. Busy' = Busy
  BY DEF QueueOrDrop, Enqueue, Drop, Signalled, Busy
<1>4. Working' = Working
  BY <1>1, <1>3 DEF Working, Fifo!None
<1>5. received_buffer_count \in 0 .. RAW_BUFFER_COUNT
  BY DEF IInv, TypeOK
<1>6. CASE ~(received_buffer_count < RAW_BUFFER_COUNT)
  <2>1. /\ dropped_buffers' = dropped_buffers + 1
        /\ UNCHANGED <<received_samples_queue, dropped_buffers_queue, received_buffer_count>>
    BY <1>6 DEF QueueOrDrop, Drop
  <2>2. Queued' = Queued
    BY <1>3, <2>1 DEF Queued
  <2>3. Places' = Places
    BY <1>1, <2>1, <2>2 DEF Places, EntryIn, At
  <2> QED BY <1>1, <1>2, <1>4, <1>5, <1>6, <2>1, <2>3, QueueAssumption
<1>7. CASE received_buffer_count < RAW_BUFFER_COUNT
  <2>1. /\ received_samples_queue' =
             [received_samples_queue EXCEPT ![queue_head] = buffer[cur]]
        /\ dropped_buffers_queue' =
             [dropped_buffers_queue EXCEPT ![queue_head] = dropped_buffers]
        /\ dropped_buffers' = 0
        /\ received_buffer_count' = received_buffer_count + 1
    BY <1>7 DEF QueueOrDrop, Enqueue
  <2>2. Queued \in Nat /\ Queued < RAW_BUFFER_COUNT /\ Queued' = Queued + 1
    BY <1>3, <1>5, <1>7, <2>1, Window, QueueAssumption DEF Queued
  <2>3. /\ \A i \in 1 .. Queued : At(i) \in Slots /\ At(i) # queue_head
        /\ At(Queued + 1) = queue_head
    BY <2>2, AtRange, QueueAssumption DEF At, IInv, TypeOK, RingInv, Slots
  <2>4. /\ received_samples_queue'[queue_head] = buffer[cur]
        /\ dropped_buffers_queue'[queue_head] = dropped_buffers
        /\ \A s \in Slots : s # queue_head =>
             /\ received_samples_queue'[s] = received_samples_queue[s]
             /\ dropped_buffers_queue'[s] = dropped_buffers_queue[s]
    BY <2>1 DEF IInv, TypeOK
  <2>5. \A i \in 1 .. Queued + 1 :
          EntryIn(At(i))' = IF i = Queued + 1
                              THEN [block |-> handled + 1, gap |-> dropped_buffers]
                              ELSE EntryIn(At(i))
    <3> SUFFICES ASSUME NEW i \in 1 .. Queued + 1
                 PROVE  EntryIn(At(i))' = IF i = Queued + 1
                          THEN [block |-> handled + 1, gap |-> dropped_buffers]
                          ELSE EntryIn(At(i))
      OBVIOUS
    <3>1. At(i)' = At(i)
      BY <1>1 DEF At
    <3>2. EntryIn(At(i))' = [block |-> content[received_samples_queue'[At(i)]],
                             gap |-> dropped_buffers_queue'[At(i)]]
      BY <1>1, <3>1 DEF EntryIn
    <3>3. CASE i = Queued + 1
      <4>1. At(i) = queue_head
        BY <2>3, <3>3
      <4>2. content[buffer[cur]] = handled + 1
        BY <1>1, <1>2
      <4> QED BY <2>4, <3>2, <3>3, <4>1, <4>2
    <3>4. CASE i # Queued + 1
      <4>1. i \in 1 .. Queued
        BY <2>2, <3>4
      <4>2. At(i) \in Slots /\ At(i) # queue_head
        BY <2>3, <4>1
      <4> QED BY <2>4, <3>2, <3>4, <4>2 DEF EntryIn
    <3> QED BY <3>3, <3>4
  <2>6. Places' = [i \in 1 .. Queued + 1 |->
                     IF i = Queued + 1
                       THEN [block |-> handled + 1, gap |-> dropped_buffers]
                       ELSE EntryIn(At(i))]
    BY <2>2, <2>5 DEF Places
  <2>7. Places' = Append(Places, [block |-> handled + 1, gap |-> dropped_buffers])
    BY <2>2, <2>6 DEF Places
  <2> QED BY <1>1, <1>2, <1>4, <1>7, <2>1, <2>7
<1> QED BY <1>6, <1>7

(* The consumer takes the oldest block, in the slot at the tail.           *)
LEMMA TakeRefines ==
  ASSUME RefInv, ConsumerTake
  PROVE  /\ Working = Fifo!None /\ Places # <<>>
         /\ Working' = Head(Places) /\ Places' = Tail(Places)
         /\ UNCHANGED <<dropped_buffers, handled, last>>
<1> USE DEF RefInv
<1>1. /\ cpc = "test" /\ cpc' = "process" /\ Running
      /\ input_samples' = received_samples_queue[queue_tail]
      /\ gap' = dropped_buffers_queue[queue_tail]
      /\ queue_tail' = Succ(queue_tail)
      /\ UNCHANGED <<received_samples_queue, dropped_buffers_queue,
                     received_buffer_count, dropped_buffers, content, last, handled>>
  BY DEF ConsumerTake, usbVars, history
<1>2. ~Busy /\ Busy'
  BY <1>1 DEF Busy
<1>3. Queued \in 1 .. RAW_BUFFER_COUNT /\ Queued' = Queued - 1
  BY <1>1, <1>2, Window, QueueAssumption DEF Queued, IInv, ControlInv, TypeOK
<1>4. PICK tl \in Slots : tl = queue_tail
  BY DEF IInv, TypeOK
<1>5. At(1) = tl
  BY <1>3, <1>4, AtRange, QueueAssumption DEF At, Slots
<1>6. \A i \in 1 .. Queued - 1 : At(i)' = At(i + 1)
  <2>1. /\ Succ(tl) \in Slots
        /\ Succ(tl) = IF tl + 1 = RAW_BUFFER_COUNT THEN 0 ELSE tl + 1
    BY SuccPrev
  <2>2. \A i \in 1 .. Queued - 1 :
          (Succ(tl) + i - 1) % RAW_BUFFER_COUNT = (tl + (i + 1) - 1) % RAW_BUFFER_COUNT
    <3> TAKE i \in 1 .. Queued - 1
    <3>1. i \in 1 .. RAW_BUFFER_COUNT /\ i + 1 \in 1 .. RAW_BUFFER_COUNT
      BY <1>3, QueueAssumption
    <3>2. (Succ(tl) + i - 1) % RAW_BUFFER_COUNT =
            IF Succ(tl) + i - 1 < RAW_BUFFER_COUNT THEN Succ(tl) + i - 1
            ELSE Succ(tl) + i - 1 - RAW_BUFFER_COUNT
      BY <2>1, <3>1, AtRange
    <3>3. (tl + (i + 1) - 1) % RAW_BUFFER_COUNT =
            IF tl + (i + 1) - 1 < RAW_BUFFER_COUNT THEN tl + (i + 1) - 1
            ELSE tl + (i + 1) - 1 - RAW_BUFFER_COUNT
      BY <3>1, AtRange
    <3> QED BY <2>1, <3>1, <3>2, <3>3, QueueAssumption DEF Slots
  <2> QED BY <1>1, <1>4, <2>2 DEF At
<1>7. \A i \in 1 .. Queued - 1 : EntryIn(At(i))' = EntryIn(At(i + 1))
  BY <1>1, <1>6 DEF EntryIn
<1>8. Places' = [i \in 1 .. Queued - 1 |-> EntryIn(At(i + 1))]
  BY <1>3, <1>7 DEF Places
<1>9. Tail(Places) = [i \in 1 .. Queued - 1 |-> EntryIn(At(i + 1))]
  BY <1>3 DEF Places
<1>10. Places # <<>> /\ Head(Places) = EntryIn(tl)
  BY <1>3, <1>5 DEF Places
<1>11. Working' = EntryIn(tl)
  BY <1>1, <1>2, <1>4 DEF Working, EntryIn
<1> QED
  BY <1>1, <1>2, <1>8, <1>9, <1>10, <1>11 DEF Working

(* The block is handed over, once, and newer than the one before.          *)
LEMMA DeliverRefines ==
  ASSUME RefInv, ConsumerDeliver
  PROVE  /\ Working # Fifo!None /\ last < Working.block /\ last' = Working.block
         /\ UNCHANGED <<Places, Working, dropped_buffers, handled>>
<1> USE DEF RefInv
<1>1. /\ cpc = "process" /\ cpc' = "release"
      /\ last' = content[input_samples]
      /\ UNCHANGED <<received_samples_queue, dropped_buffers_queue, queue_tail,
                     received_buffer_count, dropped_buffers, content, input_samples,
                     gap, handled>>
  BY DEF ConsumerDeliver, ConsumerMoves, queue, usbVars, history
<1>2. Busy /\ Busy' /\ Queued' = Queued
  BY <1>1 DEF Busy, Queued
<1>3. last < content[input_samples]
  BY <1>1 DEF IInv, ChainInv, Follows, TypeOK, Blocks
<1>4. Places' = Places
  BY <1>1, <1>2 DEF Places, EntryIn, At
<1>5. Working = [block |-> content[input_samples], gap |-> gap] /\ Working' = Working
  BY <1>1, <1>2 DEF Working
<1> QED BY <1>1, <1>2, <1>3, <1>4, <1>5, Occupancy

(* received_buffer_count-- gives the place back that the block had.        *)
LEMMA ReleaseRefines ==
  ASSUME RefInv, ConsumerRelease
  PROVE  /\ Working # Fifo!None /\ last = Working.block /\ Working' = Fifo!None
         /\ UNCHANGED <<Places, dropped_buffers, handled, last>>
<1> USE DEF RefInv
<1>1. /\ cpc = "release" /\ cpc' = "outer"
      /\ received_buffer_count' = received_buffer_count - 1
      /\ UNCHANGED <<received_samples_queue, dropped_buffers_queue, queue_tail,
                     dropped_buffers, content, input_samples, gap, last, handled>>
  BY DEF ConsumerRelease, ConsumerMoves, usbVars, history
<1>2. Busy /\ ~Busy'
  BY <1>1 DEF Busy
<1>3. Queued' = Queued
  BY <1>1, <1>2, QueueAssumption DEF Queued, IInv, TypeOK
<1>4. Places' = Places
  BY <1>1, <1>3 DEF Places, EntryIn, At
<1>5. Working = [block |-> content[input_samples], gap |-> gap] /\ Working' = Fifo!None
  BY <1>2 DEF Working, Fifo!None
<1>6. last = content[input_samples]
  BY <1>1 DEF ReleaseInv
<1> QED BY <1>1, <1>2, <1>4, <1>5, <1>6, Occupancy

(* No slot is in two places of the queue.                                  *)
LEMMA AtInjective ==
  ASSUME IInv, NEW i \in 1 .. Queued, NEW j \in 1 .. Queued, At(i) = At(j)
  PROVE  i = j
<1>1. queue_tail \in Slots /\ Queued \in 0 .. RAW_BUFFER_COUNT
  BY Mapping DEF IInv, TypeOK
<1>2. i \in 1 .. RAW_BUFFER_COUNT /\ j \in 1 .. RAW_BUFFER_COUNT
  BY <1>1, QueueAssumption
<1> QED BY <1>1, <1>2, AtRange, QueueAssumption DEF At, Slots

(* A start_rx() during the stream that clears a slot makes the queue       *)
(* forget the losses before one block, if there is a block in the slot.    *)
LEMMA ClearSlotRefines ==
  ASSUME RefInv, NEW s \in Slots, ClearSlot(s)
  PROVE  /\ \/ Places' = Places
            \/ \E i \in DOMAIN Places :
                 Places' = [Places EXCEPT ![i].gap = 0]
         /\ UNCHANGED <<Working, dropped_buffers, handled, last>>
<1> USE DEF RefInv
<1>1. /\ dropped_buffers_queue' = [dropped_buffers_queue EXCEPT ![s] = 0]
      /\ UNCHANGED <<received_samples_queue, queue_tail, received_buffer_count, content,
                     cpc, input_samples, gap, last, handled, dropped_buffers>>
  BY DEF ClearSlot, usbVars, consumer, history
<1>2. Busy' = Busy /\ Queued' = Queued
  BY <1>1 DEF Busy, Queued
<1>3. Working' = Working
  BY <1>1, <1>2 DEF Working, Fifo!None
<1>4. \A i \in 1 .. Queued : At(i)' = At(i) /\ At(i) \in Slots
  BY <1>1, Mapping DEF At
<1>5. \A i \in 1 .. Queued :
        EntryIn(At(i))' = IF At(i) = s THEN [EntryIn(At(i)) EXCEPT !.gap = 0]
                          ELSE EntryIn(At(i))
  BY <1>1, <1>4 DEF EntryIn, IInv, TypeOK
<1>6. CASE \A i \in 1 .. Queued : At(i) # s
  <2>1. Places' = Places
    BY <1>2, <1>5, <1>6 DEF Places
  <2> QED BY <1>1, <1>3, <2>1
<1>7. ASSUME NEW i \in 1 .. Queued, At(i) = s
      PROVE  Places' = [Places EXCEPT ![i].gap = 0] /\ i \in DOMAIN Places
  <2>1. \A j \in 1 .. Queued : At(j) = s <=> j = i
    BY <1>7, AtInjective
  <2>2. Places' = [j \in 1 .. Queued |-> IF j = i THEN [EntryIn(At(i)) EXCEPT !.gap = 0]
                                        ELSE EntryIn(At(j))]
    BY <1>2, <1>5, <1>7, <2>1 DEF Places
  <2> QED BY <1>7, <2>2 DEF Places
<1> QED BY <1>1, <1>3, <1>6, <1>7

(* One that clears the counter makes it forget the losses since the last   *)
(* block.                                                                  *)
LEMMA ResetDroppedRefines ==
  ASSUME RefInv, ResetDropped
  PROVE  dropped_buffers' = 0 /\ UNCHANGED <<Places, Working, handled, last>>
<1>1. /\ dropped_buffers' = 0
      /\ UNCHANGED <<received_samples_queue, dropped_buffers_queue, queue_tail,
                     received_buffer_count, content, cpc, input_samples, gap, last,
                     handled>>
  BY DEF ResetDropped, usbVars, consumer, history
<1>2. Busy' = Busy /\ Queued' = Queued
  BY <1>1 DEF Busy, Queued
<1> QED BY <1>1, <1>2 DEF Places, Working, EntryIn, At, Fifo!None
-----------------------------------------------------------------------------
(* The refinement.                                                         *)

(* Every session begins with an empty queue.                               *)
LEMMA RefInit == Init => RefInv /\ Fifo!FifoInit
<1> SUFFICES ASSUME Init PROVE RefInv /\ Fifo!FifoInit
  OBVIOUS
<1>1. RefInv
  BY InitIInv DEF Init, RefInv, ReleaseInv
<1>2. Queued = 0 /\ ~Busy
  <2>1. received_buffer_count = 0 /\ cpc = "start"
    BY DEF Init
  <2>2. ~Busy
    BY <2>1 DEF Busy
  <2>3. Queued = received_buffer_count - 0
    BY <2>2 DEF Queued
  <2> QED BY <2>1, <2>2, <2>3
<1>3. [i \in 1 .. Queued |-> QueueEntry(i)] = <<>>
  BY <1>2
<1> QED BY <1>1, <1>2, <1>3 DEF Init, Fifo!FifoInit, Fifo!None

(* The state functions of the mapping, under the names used here.          *)
LEMMA Names ==
  /\ Places = [i \in 1 .. Queued |-> QueueEntry(i)]
  /\ Working = IF Busy THEN [block |-> content[input_samples], gap |-> gap]
               ELSE [block |-> 0, gap |-> 0]
BY DEF Working, Fifo!None, Places, EntryIn, At, QueueEntry

(* Every step is one of the abstract queue, or none that it shows.         *)
LEMMA RefNext ==
  ASSUME RefInv, [Next]_vars
  PROVE  [Fifo!FifoNext]_(Fifo!fifoVars)
<1> DEFINE P == [i \in 1 .. Queued |-> QueueEntry(i)]
           W == IF Busy THEN [block |-> content[input_samples], gap |-> gap]
                ELSE [block |-> 0, gap |-> 0]
<1>1. P = Places /\ W = Working
  BY Names
<1>2. P' = Places' /\ W' = Working'
  BY DEF Working, Fifo!None, Places, EntryIn, At, QueueEntry
<1>3. /\ (W = Fifo!None <=> ~Busy)
      /\ Len(P) + (IF W = Fifo!None THEN 0 ELSE 1) = received_buffer_count
  BY <1>1, Occupancy, Mapping DEF RefInv
<1>4. CASE Silent
  <2>1. P' = P /\ W' = W /\ UNCHANGED <<dropped_buffers, handled, last>>
    BY <1>1, <1>2, <1>4, SilentStep DEF RefInv
  <2> QED BY <2>1 DEF Fifo!fifoVars
<1>5. CASE QueueOrDrop
  <2>1. \/ /\ handled < MaxBlocks /\ handled' = handled + 1
           /\ received_buffer_count < RAW_BUFFER_COUNT
           /\ P' = Append(P, [block |-> handled + 1, gap |-> dropped_buffers])
           /\ dropped_buffers' = 0
           /\ W' = W /\ last' = last
        \/ /\ handled < MaxBlocks /\ handled' = handled + 1
           /\ received_buffer_count = RAW_BUFFER_COUNT
           /\ dropped_buffers' = dropped_buffers + 1
           /\ P' = P /\ W' = W /\ last' = last
    BY <1>1, <1>2, <1>5, QueueOrDropRefines
  <2>2. Fifo!Accept \/ Fifo!Lose
    BY <1>3, <2>1 DEF Fifo!Accept, Fifo!Lose, Fifo!Offer, Fifo!Occupied
  <2> QED BY <2>2 DEF Fifo!FifoNext
<1>6. CASE ConsumerTake
  <2>1. Fifo!Take
    BY <1>1, <1>2, <1>6, TakeRefines DEF Fifo!Take
  <2> QED BY <2>1 DEF Fifo!FifoNext
<1>7. CASE ConsumerDeliver
  <2>1. Fifo!Deliver
    BY <1>1, <1>2, <1>7, DeliverRefines DEF Fifo!Deliver
  <2> QED BY <2>1 DEF Fifo!FifoNext
<1>8. CASE ConsumerRelease
  <2>1. Fifo!Release
    BY <1>1, <1>2, <1>8, ReleaseRefines DEF Fifo!Release
  <2> QED BY <2>1 DEF Fifo!FifoNext
<1>9. CASE \E s \in Slots : ClearSlot(s)
  <2>1. PICK s \in Slots : ClearSlot(s)
    BY <1>9
  <2>2. /\ P' = P \/ \E i \in DOMAIN P : P' = [P EXCEPT ![i].gap = 0]
        /\ W' = W /\ UNCHANGED <<dropped_buffers, handled, last>>
    BY <1>1, <1>2, <2>1, ClearSlotRefines
  <2>3. CASE P' = P
    BY <2>2, <2>3 DEF Fifo!fifoVars
  <2>4. CASE \E i \in DOMAIN P : P' = [P EXCEPT ![i].gap = 0]
    <3>1. Fifo!Forget
      BY <2>2, <2>4 DEF Fifo!Forget, Fifo!ForgetGap
    <3> QED BY <3>1 DEF Fifo!FifoNext
  <2> QED BY <2>2, <2>3, <2>4
<1>10. CASE ResetDropped
  <2>1. Fifo!ForgetLost
    BY <1>1, <1>2, <1>10, ResetDroppedRefines DEF Fifo!ForgetLost
  <2> QED BY <2>1 DEF Fifo!Forget, Fifo!FifoNext
<1> QED
  BY <1>4, <1>5, <1>6, <1>7, <1>8, <1>9, <1>10, Kinds DEF RefInv

(* The queue between the libusb callback and consumer_threadproc() is the  *)
(* bounded lossy FIFO that the client is promised, whatever the number of  *)
(* slots and transfers and however the threads, the device, stop_rx() and  *)
(* the single stores of a start_rx() during the stream interleave: such a  *)
(* call loses loss counts, and does nothing else.                          *)
THEOREM Refinement == Spec => ImplementsLossyFifo
<1>1. Init => RefInv /\ Fifo!FifoInit
  BY RefInit
<1>2. RefInv /\ [Next]_vars => RefInv'
  BY RefInvNext
<1>3. RefInv /\ [Next]_vars => [Fifo!FifoNext]_(Fifo!fifoVars)
  BY RefNext
<1> QED
  BY <1>1, <1>2, <1>3, PTL DEF Spec, ImplementsLossyFifo, Fifo!FifoSpec

-----------------------------------------------------------------------------
(* The coarser model of the threads.                                       *)

(* History: the threads of the stream have been joined.                    *)
VARIABLE joined

(* StreamControl numbers the transfers.                                    *)
Count == Cardinality(Transfers)
Numbering == CHOOSE f : f \in Bijection(1 .. Count, Transfers)

TransferStates == [i \in 1 .. Count |->
                     IF usb[Numbering[i]] = "idle" THEN "idle" ELSE "inflight"]

(* A consumer that has tested the flags, under the mutex, and goes to wait *)
(* is as good as blocked; one that goes to leave is as good as done.       *)
ConsumerState ==
  IF joined THEN "joined"
  ELSE IF cpc \in {"wait", "blocked"} THEN "blocked"
  ELSE IF cpc \in {"leave", "done"} THEN "done"
  ELSE IF cpc = "process" THEN "process"
  ELSE "running"

ThreadState ==
  IF joined \/ apc = "join_consumer" THEN "joined"
  ELSE IF tpc = "exited" THEN "done"
  ELSE "running"

(* A control transfer of the application is the first of start_rx(), which *)
(* may end with it.                                                        *)
CallState ==
  IF apc = "stopped" THEN "idle"
  ELSE IF apc \in {"clear", "control"} THEN "start_off"
  ELSE IF apc = "cancel" THEN "signal"
  ELSE IF apc = "off" THEN "stop_off"
  ELSE apc

(* The history that StreamControl calls derailed.                          *)
EndedByItself ==
  ~streaming /\ ~joined /\ apc \in {"idle", "clear", "control", "off", "stopped"}

(* The stream is the first of two.                                         *)
Only(state) == [k \in 1 .. 2 |-> IF k = 1 THEN state ELSE "none"]

Control == INSTANCE StreamControl_proofs WITH
  transfer_count  <- Count,
  MaxStarts       <- 2,
  packing_enabled <- FALSE,
  transfers       <- TransferStates,
  converter       <- 0,
  session         <- 1,
  consumer        <- Only(ConsumerState),
  transfer        <- Only(ThreadState),
  consumer_thread <- 1,
  transfer_thread <- 1,
  apc             <- CallState,
  closing         <- FALSE,
  next            <- Count + 1,
  packing         <- FALSE,
  derailed        <- EndedByItself

(* The history is written when airspy_stop_rx() has joined both threads.   *)
Joins == joined' = (joined \/ (apc = "join_consumer" /\ apc' = "off"))

(* SampleQueue with that history, which no step depends on.                *)
SessionSpec ==
  (Init /\ joined = FALSE) /\ [][Next /\ Joins]_<<vars, joined>>

(* Which thread handles events, and where each thread is when it is joined.*)
ThreadInv ==
  /\ joined \in BOOLEAN /\ streaming \in BOOLEAN /\ stop_requested \in BOOLEAN
  /\ handler = "transfer" => tpc = "events"
  /\ handler = "app" => apc \in {"control", "off"}
  /\ apc \in {"cancel", "signal", "join_transfer", "join_consumer"} =>
       stop_requested /\ ~joined
  /\ apc \in {"idle", "clear", "control"} => ~joined
  /\ apc = "join_consumer" => tpc = "exited"
  /\ apc \in {"off", "stopped"} => ~streaming
  /\ joined => tpc = "exited" /\ cpc = "done"
  /\ tpc \in TPcs /\ cpc \in CPcs /\ apc \in APcs

(* It holds at first.                                                      *)
LEMMA ThreadInit == Init /\ joined = FALSE => ThreadInv
BY DEF Init, ThreadInv, TPcs, CPcs, APcs

(* A flag that stays or is cleared.                                        *)
LEMMA MayEnd ==
  ASSUME NEW was \in BOOLEAN, NEW is, is = was \/ is = FALSE
  PROVE  is \in BOOLEAN /\ (~was => ~is)
<1>1. CASE is = was
  BY <1>1
<1>2. CASE is = FALSE
  BY <1>2
<1> QED BY <1>1, <1>2

(* Every step keeps it.                                                    *)
LEMMA ThreadNext ==
  IInv /\ ThreadInv /\ [Next /\ Joins]_<<vars, joined>> => ThreadInv'
<1> SUFFICES ASSUME IInv, ThreadInv, [Next /\ Joins]_<<vars, joined>> PROVE ThreadInv'
  OBVIOUS
<1>0. CASE UNCHANGED <<vars, joined>>
  BY <1>0 DEF vars, ThreadInv, flags, callback, consumer
<1>a. SUFFICES ASSUME Next, Joins PROVE ThreadInv'
  BY <1>0
<1>b. handler = "none" <=> cb = "none"
  BY DEF IInv, ControlInv
<1> USE <1>a, <1>b DEF ThreadInv, Joins, Signalled, MutexFree, Holding,
       Running, ConsumerMoves, AppMoves,
        flags, queue, usbVars, callback, consumer, history, TPcs, CPcs, APcs
<1>c. ASSUME QueueOrDrop, UNCHANGED apc \/ (apc = "clear" /\ apc' = "control")
      PROVE  ThreadInv'
  <2>1. CASE Enqueue
    BY <1>c, <2>1 DEF QueueOrDrop, Enqueue
  <2>2. CASE Drop
    BY <1>c, <2>2 DEF QueueOrDrop, Drop
  <2> QED BY <1>c, <2>1, <2>2 DEF QueueOrDrop
<1>1. CASE Device
  BY <1>1 DEF Device, DeviceFill, DeviceFail
<1>2. CASE EventHandler
  <2>1. CASE CallbackQueue
    BY <1>c, <2>1 DEF CallbackQueue
  <2>2. CASE TransferLoop
    BY <2>2 DEF TransferLoop
  <2>3. CASE EventsReturn
    <3>1. streaming' = streaming \/ streaming' = FALSE
      BY <2>3 DEF EventsReturn
    <3>2. streaming' \in BOOLEAN /\ (~streaming => ~streaming')
      BY <3>1, MayEnd
    <3> QED BY <2>3, <3>2 DEF EventsReturn
  <2>4. CASE \E t \in Transfers : CallbackEnter(t)
    BY <2>4 DEF CallbackEnter
  <2>5. CASE CallbackTest
    BY <2>5 DEF CallbackTest
  <2>6. CASE CallbackSubmit
    <3>1. /\ streaming' = streaming \/ streaming' = FALSE
          /\ handler' = "none"
          /\ UNCHANGED <<stop_requested, cpc, tpc, apc>>
      BY <2>6 DEF CallbackSubmit
    <3>2. joined' = joined
      BY <3>1
    <3>3. streaming' \in BOOLEAN /\ (~streaming => ~streaming')
      BY <3>1, MayEnd
    <3> QED BY <3>1, <3>2, <3>3
  <2> QED BY <1>2, <2>1, <2>2, <2>3, <2>4, <2>5, <2>6 DEF EventHandler
<1>3. CASE Consumer
  <2>1. CASE ConsumerLock
    BY <2>1 DEF ConsumerLock
  <2>2. CASE ConsumerOuter
    BY <2>2 DEF ConsumerOuter
  <2>3. CASE ConsumerInner
    BY <2>3 DEF ConsumerInner
  <2>4. CASE ConsumerWait
    BY <2>4 DEF ConsumerWait
  <2>5. CASE ConsumerTake
    BY <2>5 DEF ConsumerTake
  <2>6. CASE ConsumerBreak
    BY <2>6 DEF ConsumerBreak
  <2>7. CASE ConsumerDeliver
    BY <2>7 DEF ConsumerDeliver
  <2>8. CASE ConsumerRelease
    BY <2>8 DEF ConsumerRelease
  <2>9. CASE ConsumerExit
    BY <2>9 DEF ConsumerExit
  <2> QED BY <1>3, <2>1, <2>2, <2>3, <2>4, <2>5, <2>6, <2>7, <2>8, <2>9 DEF Consumer
<1>4. CASE SpuriousWakeup
  BY <1>4 DEF SpuriousWakeup
<1>5. CASE Application
  <2>1. CASE ControlCall \/ ControlReturn
    BY <2>1 DEF ControlCall, ControlReturn
  <2>2. CASE StartRxBusy \/ StartClears
    <3>1. CASE StartRxBusy
      BY <3>1 DEF StartRxBusy
    <3>2. CASE \E s \in Slots : ClearSlot(s)
      BY <3>2 DEF ClearSlot
    <3>3. CASE ResetDropped
      BY <3>3 DEF ResetDropped
    <3>4. CASE ResetOverwritten
      BY <1>c, <3>4 DEF ResetOverwritten
    <3> QED BY <2>2, <3>1, <3>2, <3>3, <3>4 DEF StartClears
  <2>3. CASE StopRx
    BY <2>3 DEF StopRx
  <2>4. CASE CancelTransfers
    BY <2>4 DEF CancelTransfers
  <2>5. CASE SignalConsumer
    BY <2>5 DEF SignalConsumer
  <2>6. CASE JoinTransfer
    BY <2>6 DEF JoinTransfer
  <2>7. CASE JoinConsumer
    BY <2>7 DEF JoinConsumer
  <2>8. CASE ReceiverOff
    BY <2>8 DEF ReceiverOff
  <2> QED BY <1>5, <2>1, <2>2, <2>3, <2>4, <2>5, <2>6, <2>7, <2>8
          DEF Application, StopSequence
<1>6. CASE Finished
  BY <1>6 DEF Finished, vars
<1> QED BY <1>1, <1>2, <1>3, <1>4, <1>5, <1>6 DEF Next

(* The transfers have numbers.                                             *)
LEMMA Numbered ==
  ASSUME IsFiniteSet(Transfers), Transfers # {}
  PROVE  /\ Count \in Nat \ {0}
         /\ Numbering \in [1 .. Count -> Transfers]
         /\ \A t \in Transfers : \E i \in 1 .. Count : Numbering[i] = t
         /\ \A i, j \in 1 .. Count : Numbering[i] = Numbering[j] => i = j
<1>1. Count \in Nat /\ Bijection(1 .. Count, Transfers) # {}
  BY FS_CardinalityType DEF Count, ExistsBijection
<1>2. Count # 0
  BY FS_EmptySet DEF Count
<1>3. Numbering \in Bijection(1 .. Count, Transfers)
  BY <1>1 DEF Numbering
<1>4. DOMAIN Numbering = 1 .. Count
  BY <1>3 DEF Bijection, Injection
<1> QED
  BY <1>1, <1>2, <1>3, <1>4 DEF Bijection, Injection, Surjection, IsInjective

-----------------------------------------------------------------------------
(* The transfers: only whether libusb has one is shown.                    *)
LEMMA TransfersKept ==
  ASSUME IsFiniteSet(Transfers), Transfers # {},
         \A t \in Transfers : usb'[t] = "idle" <=> usb[t] = "idle"
  PROVE  TransferStates' = TransferStates
<1>1. Numbering \in [1 .. Count -> Transfers]
  BY Numbered
<1>2. \A i \in 1 .. Count : usb'[Numbering[i]] = "idle" <=> usb[Numbering[i]] = "idle"
  BY <1>1
<1>3. [i \in 1 .. Count |-> IF usb'[Numbering[i]] = "idle" THEN "idle" ELSE "inflight"]
      = [i \in 1 .. Count |-> IF usb[Numbering[i]] = "idle" THEN "idle" ELSE "inflight"]
  BY <1>2
<1> QED BY <1>3 DEF TransferStates, Numbering, Count

(* One that ends is no longer in flight.                                   *)
LEMMA TransferGone ==
  ASSUME IsFiniteSet(Transfers), Transfers # {}, cur \in Transfers,
         usb \in [Transfers -> UsbStates],
         usb[cur] # "idle", usb' = [usb EXCEPT ![cur] = "idle"]
  PROVE  \E i \in DOMAIN TransferStates :
           /\ TransferStates[i] = "inflight"
           /\ TransferStates' = [TransferStates EXCEPT ![i] = "idle"]
<1>1. PICK i \in 1 .. Count : Numbering[i] = cur
  BY Numbered
<1>2. \A j \in 1 .. Count : Numbering[j] \in Transfers /\ (j # i => Numbering[j] # cur)
  BY <1>1, Numbered
<1>3. \A t \in Transfers : usb'[t] = IF t = cur THEN "idle" ELSE usb[t]
  OBVIOUS
<1>4. [j \in 1 .. Count |-> IF usb'[Numbering[j]] = "idle" THEN "idle" ELSE "inflight"]
      = [[j \in 1 .. Count |-> IF usb[Numbering[j]] = "idle" THEN "idle" ELSE "inflight"]
           EXCEPT ![i] = "idle"]
  BY <1>1, <1>2, <1>3
<1>5. TransferStates' = [TransferStates EXCEPT ![i] = "idle"]
  BY <1>4 DEF TransferStates, Numbering, Count
<1>6. TransferStates[i] = "inflight" /\ i \in DOMAIN TransferStates
  BY <1>1 DEF TransferStates
<1> QED BY <1>5, <1>6

(* What StreamControl shows, but for the consumer and the stop request, is *)
(* unchanged.                                                              *)
Unseen ==
  UNCHANGED <<streaming, TransferStates, ThreadState, CallState, EndedByItself>>

(* If these are unchanged too, StreamControl stutters.                     *)
LEMMA AllUnseen ==
  Unseen /\ UNCHANGED <<stop_requested, ConsumerState>> => UNCHANGED Control!vars
BY DEF Unseen, Count, Control!vars, Control!flags, Control!buffers,
       Control!threads, Control!call

(* A thread of the only stream moves.                                      *)
LEMMA OnlyMoves ==
  ASSUME NEW from, NEW to
  PROVE  /\ Only(from)[1] = from
         /\ Only(to) = [Only(from) EXCEPT ![1] = to]
<1>1. 1 \in 1 .. 2
  OBVIOUS
<1>2. Only(from)[1] = from
  BY <1>1 DEF Only
<1>3. \A k \in 1 .. 2 : Only(to)[k] = [Only(from) EXCEPT ![1] = to][k]
  BY <1>1 DEF Only
<1>4. /\ DOMAIN Only(to) = 1 .. 2
      /\ DOMAIN [Only(from) EXCEPT ![1] = to] = 1 .. 2
  BY DEF Only
<1>5. /\ Only(to) = [k \in DOMAIN Only(to) |-> Only(to)[k]]
      /\ [Only(from) EXCEPT ![1] = to] =
           [k \in DOMAIN [Only(from) EXCEPT ![1] = to] |-> [Only(from) EXCEPT ![1] = to][k]]
  BY DEF Only
<1> QED BY <1>2, <1>3, <1>4, <1>5

(* The consumer moves and nothing else.                                    *)
LEMMA OnlyConsumer ==
  ASSUME Unseen
  PROVE  /\ Control!ThreadsOnly
         /\ UNCHANGED Only(ThreadState)
         /\ \A from, to : ConsumerState = from /\ ConsumerState' = to =>
                            Control!ConsumerMoves(1, from, to)
<1>1. Control!ThreadsOnly
  BY DEF Unseen, Count, Control!ThreadsOnly, Control!buffers, Control!call
<1>2. ASSUME NEW from, NEW to, ConsumerState = from, ConsumerState' = to
      PROVE  Control!ConsumerMoves(1, from, to)
  <2>1. Only(ConsumerState)' = Only(to)
    BY <1>2 DEF Only
  <2> QED BY <1>2, <2>1, OnlyMoves DEF Control!ConsumerMoves
<1>3. UNCHANGED Only(ThreadState)
  BY DEF Unseen, Only
<1> QED BY <1>1, <1>2, <1>3

(* The stream is one of the sessions.                                      *)
LEMMA SessionOne == 1 \in Control!Sessions
BY DEF Control!Sessions

(* The steps of the consumer: each is one of StreamControl's, in which     *)
(* testing the flags and going to wait is one.                             *)
LEMMA ConsumerSteps ==
  ASSUME Unseen, ~joined, 
         \/ ConsumerState' = ConsumerState /\ UNCHANGED stop_requested
         \/ ConsumerState = "running" /\ ConsumerState' \in {"blocked", "process"} /\ Running
              /\ UNCHANGED stop_requested
         \/ ConsumerState = "running" /\ ConsumerState' = "done" /\ ~Running
              /\ UNCHANGED stop_requested
         \/ ConsumerState = "blocked" /\ ConsumerState' = "running"
              /\ UNCHANGED stop_requested
         \/ ConsumerState = "process" /\ ConsumerState' = "running"
              /\ (UNCHANGED stop_requested \/ stop_requested' = TRUE)
  PROVE  [Control!Next]_(Control!vars)
<1>1. CASE ConsumerState' = ConsumerState /\ UNCHANGED stop_requested
  BY <1>1, AllUnseen
<1>2. CASE /\ ConsumerState = "running" /\ ConsumerState' \in {"blocked", "process"} /\ Running
           /\ UNCHANGED stop_requested
  <2>1. Control!ConsumerLoop(1)
    BY <1>2, OnlyConsumer DEF Control!ConsumerLoop, Control!Running, Running
  <2> QED BY <2>1, SessionOne DEF Control!Next, Control!Thread
<1>3. CASE /\ ConsumerState = "running" /\ ConsumerState' = "done" /\ ~Running
           /\ UNCHANGED stop_requested
  <2>1. Control!ConsumerLoop(1)
    BY <1>3, OnlyConsumer DEF Control!ConsumerLoop, Control!Running, Running
  <2> QED BY <2>1, SessionOne DEF Control!Next, Control!Thread
<1>4. CASE /\ ConsumerState = "blocked" /\ ConsumerState' = "running"
           /\ UNCHANGED stop_requested
  <2>1. Control!ConsumerWakes(1)
    BY <1>4, OnlyConsumer DEF Control!ConsumerWakes
  <2> QED BY <2>1, SessionOne DEF Control!Next
<1>5. CASE /\ ConsumerState = "process" /\ ConsumerState' = "running"
           /\ (UNCHANGED stop_requested \/ stop_requested' = TRUE)
  <2>1. Control!ClientReturns(1)
    BY <1>5, OnlyConsumer DEF Control!ClientReturns
  <2> QED BY <2>1, SessionOne DEF Control!Next, Control!Thread
<1> QED BY <1>1, <1>2, <1>3, <1>4, <1>5

(* The end of a transfer or of the event loop that ends the stream, ...     *)
LEMMA EndsStream ==
  ASSUME streaming, streaming' = FALSE,
         UNCHANGED <<stop_requested, ConsumerState, ThreadState, CallState>>,
         Control!EventsHandled,
         \/ TransferStates' = TransferStates /\ ThreadState = "running"
         \/ \E i \in DOMAIN TransferStates :
              /\ TransferStates[i] = "inflight"
              /\ TransferStates' = [TransferStates EXCEPT ![i] = "idle"],
         EndedByItself' = (EndedByItself \/ ~Control!Stopping)
  PROVE  Control!Next
<1>1. ThreadState = "running" => Control!LiveTransfers # {}
  BY SessionOne, OnlyMoves DEF Control!LiveTransfers
<1>2. Control!StreamEnds
  BY <1>1 DEF Control!StreamEnds, Control!threads, Control!call, Count
<1> QED BY <1>2 DEF Control!Next

(* ... and of one that does not, once the stream is being stopped.         *)
LEMMA EndsTransfer ==
  ASSUME UNCHANGED <<streaming, stop_requested, ConsumerState, ThreadState,
         CallState, EndedByItself>>,
         ~Running, Control!EventsHandled,
         \E i \in DOMAIN TransferStates :
              /\ TransferStates[i] = "inflight"
              /\ TransferStates' = [TransferStates EXCEPT ![i] = "idle"]
  PROVE  Control!Next
<1>1. Control!TransferEnds
  BY DEF Control!TransferEnds, Control!threads, Control!call, Control!flags,
         Count, Control!Running, Running
<1> QED BY <1>1 DEF Control!Next

(* Events are handled where the code handles them.                         *)
LEMMA SomeoneHandles ==
  ASSUME ThreadInv, handler # "none", handler \in {"none", "transfer", "app"}
  PROVE  Control!EventsHandled
<1>1. CASE handler = "transfer"
  <2>1. ThreadState = "running"
    BY <1>1 DEF ThreadInv, ThreadState
  <2> QED BY <2>1, SessionOne, OnlyMoves DEF Control!EventsHandled,
         Control!LiveTransfers
<1>2. CASE handler = "app"
  <2>1. CallState \in {"start_off", "stop_off"}
    BY <1>2 DEF ThreadInv, CallState
  <2> QED BY <2>1 DEF Control!EventsHandled, Control!InControl
<1> QED BY <1>1, <1>2

-----------------------------------------------------------------------------
(* Every step is one of StreamControl or shows nothing in it.              *)
LEMMA ControlStep ==
  ASSUME IsFiniteSet(Transfers), Transfers # {}, IInv, ThreadInv,
         [Next /\ Joins]_<<vars, joined>>
  PROVE  [Control!Next]_(Control!vars)
<1>0. CASE UNCHANGED <<vars, joined>>
  <2>1. UNCHANGED <<streaming, stop_requested, usb, cpc, tpc, apc, joined>>
    BY <1>0 DEF vars, flags, usbVars, consumer
  <2>2. TransferStates' = TransferStates
    BY <2>1, TransfersKept
  <2> QED
    BY <2>1, <2>2, AllUnseen
       DEF Unseen, ConsumerState, ThreadState, CallState, EndedByItself
<1>a. SUFFICES ASSUME Next, Joins PROVE [Control!Next]_(Control!vars)
  BY <1>0
<1>b. /\ handler = "none" <=> cb = "none"
      /\ cb # "none" => usb[cur] \in {"completed", "failed"}
      /\ cb \in {"lock", "submit"} => usb[cur] = "completed"
      /\ usb \in [Transfers -> UsbStates] /\ cur \in Transfers
      /\ handler \in {"none", "transfer", "app"}
  BY DEF IInv, ControlInv, TypeOK
<1>c. cb # "none" => usb[cur] # "idle" /\ Control!EventsHandled
  BY <1>b, SomeoneHandles
<1>d. usb' = usb => TransferStates' = TransferStates
  BY TransfersKept
<1>e. usb' = [usb EXCEPT ![cur] = "idle"] /\ cb # "none" =>
        \E i \in DOMAIN TransferStates :
           /\ TransferStates[i] = "inflight"
           /\ TransferStates' = [TransferStates EXCEPT ![i] = "idle"]
  BY <1>b, <1>c, TransferGone
<1>f. UNCHANGED <<apc, joined, tpc>> =>
        UNCHANGED <<CallState, ThreadState>> /\ (UNCHANGED streaming => UNCHANGED EndedByItself)
  BY DEF CallState, ThreadState, EndedByItself
<1>g. UNCHANGED apc => UNCHANGED joined
  BY <1>a DEF Joins, ThreadInv
<1>h. ASSUME UNCHANGED <<apc, tpc, streaming, usb>> PROVE Unseen
  BY <1>d, <1>f, <1>g, <1>h DEF Unseen
<1>i. ASSUME UNCHANGED apc, streaming, streaming' = FALSE
      PROVE  EndedByItself' = (EndedByItself \/ ~Control!Stopping)
  <2>1. CASE apc \in {"cancel", "signal", "join_transfer", "join_consumer"}
    <3>1. Control!Stopping
      BY <2>1 DEF Control!Stopping, CallState
    <3>2. ~EndedByItself /\ ~EndedByItself'
      BY <1>i, <2>1 DEF EndedByItself
    <3> QED BY <3>1, <3>2 DEF EndedByItself
  <2>2. CASE apc \in {"idle", "clear", "control"}
    <3>1. ~Control!Stopping
      BY <2>2 DEF Control!Stopping, CallState
    <3>2. EndedByItself'
      BY <1>g, <1>i, <2>2 DEF EndedByItself, ThreadInv
    <3> QED BY <3>1, <3>2 DEF EndedByItself
  <2> QED BY <1>i, <2>1, <2>2 DEF ThreadInv, APcs
<1>j. ASSUME apc = "clear", apc' = "control", UNCHANGED <<tpc, streaming, usb>>
      PROVE  Unseen /\ UNCHANGED joined
  <2>1. UNCHANGED joined
    BY <1>a, <1>j DEF Joins, ThreadInv
  <2>2. UNCHANGED <<CallState, ThreadState, EndedByItself>>
    BY <1>j, <2>1 DEF CallState, ThreadState, EndedByItself
  <2> QED BY <1>d, <1>j, <2>1, <2>2 DEF Unseen
<1>1. CASE Device
  <2>1. PICK t \in Transfers : DeviceFill(t) \/ DeviceFail(t)
    BY <1>1 DEF Device
  <2>2. /\ usb[t] = "submitted"
        /\ usb' \in {[usb EXCEPT ![t] = "completed"], [usb EXCEPT ![t] = "failed"]}
        /\ UNCHANGED <<flags, cpc, tpc, apc>>
    BY <2>1 DEF DeviceFill, DeviceFail, consumer
  <2>3. \A u \in Transfers : usb'[u] = "idle" <=> usb[u] = "idle"
    BY <1>b, <2>2
  <2>4. TransferStates' = TransferStates
    BY <2>3, TransfersKept
  <2>5. UNCHANGED ConsumerState
    BY <1>g, <2>2 DEF ConsumerState
  <2> QED BY <1>f, <1>g, <2>2, <2>4, <2>5, AllUnseen DEF Unseen, flags
<1>2. CASE TransferLoop
  <2>1. /\ tpc = "loop" /\ tpc' = IF Running THEN "events" ELSE "exited"
        /\ UNCHANGED <<streaming, stop_requested, usb, cpc, apc>>
    BY <1>2 DEF TransferLoop, flags, usbVars, consumer
  <2>2. UNCHANGED <<TransferStates, ConsumerState, CallState, EndedByItself, joined>>
    BY <1>d, <1>g, <2>1 DEF ConsumerState, CallState, EndedByItself
  <2>3. ThreadState = "running"
    BY <2>1 DEF ThreadState, ThreadInv
  <2>4. CASE Running
    <3>1. ThreadState' = "running"
      BY <2>1, <2>2, <2>3, <2>4 DEF ThreadState
    <3> QED BY <2>1, <2>2, <2>3, <3>1, AllUnseen DEF Unseen
  <2>5. CASE ~Running
    <3>1. ThreadState' = "done"
      BY <2>1, <2>2, <2>3, <2>5 DEF ThreadState
    <3>2. Only(ThreadState)' = Only("done")
      BY <3>1 DEF Only
    <3>3. /\ Only(ThreadState)[1] = "running"
          /\ Only(ThreadState)' = [Only(ThreadState) EXCEPT ![1] = "done"]
      BY <2>3, <3>2, OnlyMoves
    <3>4. UNCHANGED Only(ConsumerState)
      BY <2>2 DEF Only
    <3>5. Control!TransferExits(1)
      BY <2>1, <2>2, <2>5, <3>3, <3>4
         DEF Control!TransferExits, Control!ThreadsOnly, Control!buffers,
                Control!call,
             Control!Running, Running, Count
    <3> QED BY <3>5, SessionOne DEF Control!Next, Control!Thread
  <2> QED BY <2>4, <2>5
<1>3. CASE EventsReturn
  <2>1. /\ tpc = "events" /\ tpc' = "loop"
        /\ streaming' = streaming \/ streaming' = FALSE
        /\ UNCHANGED <<stop_requested, usb, cpc, apc>>
    BY <1>3 DEF EventsReturn, usbVars, consumer
  <2>2. UNCHANGED <<TransferStates, ConsumerState, CallState, joined>>
    BY <1>d, <1>g, <2>1 DEF ConsumerState, CallState
  <2>3. ThreadState = "running" /\ ThreadState' = "running"
    BY <2>1, <2>2 DEF ThreadState, ThreadInv
  <2>4. CASE streaming' = streaming
    BY <2>1, <2>2, <2>3, <2>4, AllUnseen DEF Unseen, EndedByItself
  <2>5. CASE streaming /\ streaming' = FALSE
    <3>1. Control!EventsHandled
      BY <2>3, SessionOne, OnlyMoves DEF Control!EventsHandled,
             Control!LiveTransfers
    <3> QED BY <1>i, <2>1, <2>2, <2>3, <2>5, <3>1, EndsStream
  <2>6. streaming \in BOOLEAN
    BY DEF ThreadInv
  <2> QED BY <2>1, <2>4, <2>5, <2>6
<1>4. CASE \E t \in Transfers : CallbackEnter(t)
  <2>1. UNCHANGED <<flags, usbVars, consumer, tpc, apc>>
    BY <1>4 DEF CallbackEnter
  <2>2. Unseen /\ UNCHANGED <<stop_requested, ConsumerState>>
    BY <1>g, <1>h, <2>1 DEF ConsumerState, flags, usbVars, consumer
  <2> QED BY <2>2, AllUnseen
<1>5. CASE CallbackTest
  <2>1. cb = "enter" /\ UNCHANGED <<stop_requested, cpc, tpc, apc>>
    BY <1>5 DEF CallbackTest, consumer
  <2>2. UNCHANGED <<ConsumerState, ThreadState, CallState, joined>>
    BY <1>f, <1>g, <2>1 DEF ConsumerState
  <2>3. CASE Running /\ usb[cur] = "completed"
    BY <1>5, <1>d, <1>h, <2>1, <2>2, <2>3, AllUnseen DEF CallbackTest
  <2>4. CASE ~(Running /\ usb[cur] = "completed")
    <3>1. usb' = [usb EXCEPT ![cur] = "idle"] /\ streaming' = (streaming /\ ~Running)
      BY <1>5, <2>4 DEF CallbackTest
    <3>2. CASE Running
      <4>1. streaming /\ streaming' = FALSE
        BY <3>1, <3>2 DEF Running
      <4> QED BY <1>c, <1>e, <1>i, <2>1, <2>2, <3>1, <4>1, EndsStream
    <3>3. CASE ~Running
      <4>1. streaming' = streaming
        BY <3>1, <3>3 DEF ThreadInv
      <4> QED BY <1>c, <1>e, <1>f, <2>1, <2>2, <3>1, <3>3, <4>1, EndsTransfer
    <3> QED BY <3>2, <3>3
  <2> QED BY <2>3, <2>4
<1>6. CASE CallbackQueue \/ ResetOverwritten
  <2>1. /\ UNCHANGED <<streaming, stop_requested, usb, tpc>> /\ MutexFree
        /\ UNCHANGED apc \/ (apc = "clear" /\ apc' = "control")
    BY <1>6 DEF CallbackQueue, QueueOrDrop, ResetOverwritten, AppMoves, flags
  <2>2. cpc' = cpc \/ (cpc = "blocked" /\ cpc' = "relock")
    BY <1>6 DEF CallbackQueue, ResetOverwritten, QueueOrDrop, Enqueue, Drop, Signalled
  <2>3. Unseen /\ UNCHANGED joined
    BY <1>g, <1>h, <1>j, <2>1
  <2>4. \/ ConsumerState' = ConsumerState
        \/ ConsumerState = "blocked" /\ ConsumerState' = "running" /\ ~joined
    BY <2>2, <2>3 DEF ConsumerState, ThreadInv
  <2> QED BY <2>1, <2>3, <2>4, AllUnseen, ConsumerSteps
<1>7. CASE CallbackSubmit
  <2>1. cb = "submit" /\ UNCHANGED <<stop_requested, cpc, tpc, apc>>
    BY <1>7 DEF CallbackSubmit, consumer
  <2>2. UNCHANGED <<ConsumerState, ThreadState, CallState, joined>>
    BY <1>f, <1>g, <2>1 DEF ConsumerState
  <2>3. CASE usb' = [usb EXCEPT ![cur] = "submitted"] /\ UNCHANGED streaming
    <3>1. \A u \in Transfers : usb'[u] = "idle" <=> usb[u] = "idle"
      BY <1>b, <2>1, <2>3
    <3>2. TransferStates' = TransferStates
      BY <3>1, TransfersKept
    <3> QED BY <1>f, <2>1, <2>2, <2>3, <3>2, AllUnseen DEF Unseen
  <2>4. CASE usb' = [usb EXCEPT ![cur] = "idle"] /\ streaming' = FALSE
    <3>1. CASE streaming
      BY <1>c, <1>e, <1>i, <2>1, <2>2, <2>4, <3>1, EndsStream
    <3>2. CASE ~streaming
      <4>1. streaming' = streaming
        BY <2>4, <3>2 DEF ThreadInv
      <4> QED BY <1>c, <1>e, <1>f, <2>1, <2>2, <2>4, <3>2, <4>1,
             EndsTransfer DEF Running
    <3> QED BY <3>1, <3>2
  <2> QED BY <1>7, <2>3, <2>4 DEF CallbackSubmit
<1>8. CASE Consumer \/ SpuriousWakeup
  <2>1. UNCHANGED <<streaming, usb, tpc, apc>> /\ ~joined
    BY <1>8 DEF Consumer, ConsumerLock, ConsumerOuter, ConsumerInner, ConsumerWait,
       ConsumerTake, ConsumerBreak, ConsumerDeliver, ConsumerRelease, ConsumerExit,
       SpuriousWakeup, ConsumerMoves, ThreadInv, flags, usbVars
  <2>2. Unseen /\ ~joined'
    BY <1>g, <1>h, <2>1
  <2>3. \/ cpc' \in {"outer", "inner", "test"} /\ cpc \notin {"process", "leave", "done", "wait"}
           /\ UNCHANGED stop_requested
        \/ cpc = "inner" /\ cpc' = "wait" /\ Running /\ UNCHANGED stop_requested
        \/ cpc = "wait" /\ cpc' = "blocked" /\ UNCHANGED stop_requested
        \/ cpc = "blocked" /\ cpc' = "relock" /\ UNCHANGED stop_requested
        \/ cpc = "test" /\ cpc' = "process" /\ Running /\ UNCHANGED stop_requested
        \/ cpc \in {"outer", "test"} /\ cpc' = "leave" /\ ~Running /\ UNCHANGED stop_requested
        \/ cpc = "process" /\ cpc' = "release"
           /\ (UNCHANGED stop_requested \/ stop_requested' = TRUE)
        \/ cpc = "leave" /\ cpc' = "done" /\ UNCHANGED stop_requested
    BY <1>8 DEF Consumer, ConsumerLock, ConsumerOuter, ConsumerInner, ConsumerWait,
       ConsumerTake, ConsumerBreak, ConsumerDeliver, ConsumerRelease, ConsumerExit,
       SpuriousWakeup, ConsumerMoves, flags
  <2>4. \/ ConsumerState' = ConsumerState /\ UNCHANGED stop_requested
        \/ ConsumerState = "running" /\ ConsumerState' \in {"blocked", "process"} /\ Running
              /\ UNCHANGED stop_requested
        \/ ConsumerState = "running" /\ ConsumerState' = "done" /\ ~Running
              /\ UNCHANGED stop_requested
        \/ ConsumerState = "blocked" /\ ConsumerState' = "running"
              /\ UNCHANGED stop_requested
        \/ ConsumerState = "process" /\ ConsumerState' = "running"
              /\ (UNCHANGED stop_requested \/ stop_requested' = TRUE)
    BY <2>1, <2>2, <2>3 DEF ConsumerState
  <2> QED BY <2>1, <2>2, <2>4, ConsumerSteps
<1>9. CASE Application
  <2> USE DEF AppMoves, Control!AppMoves, Control!threads, Control!buffers,
          Control!flags, Count
  <2>1. CASE ControlCall \/ StartRxBusy
    <3>1. /\ apc = "idle" /\ apc' \in {"clear", "control"}
          /\ UNCHANGED <<streaming, stop_requested, usb, cpc, tpc>>
      BY <2>1 DEF ControlCall, StartRxBusy, flags, usbVars, consumer
    <3>2. UNCHANGED joined
      BY <1>a, <3>1 DEF Joins, ThreadInv
    <3>3. /\ UNCHANGED <<TransferStates, ConsumerState, ThreadState, EndedByItself>>
          /\ CallState = "idle" /\ CallState' = "start_off"
      BY <1>d, <3>1, <3>2 DEF ConsumerState, ThreadState, EndedByItself, CallState
    <3>4. UNCHANGED <<Only(ConsumerState), Only(ThreadState)>>
      BY <3>3 DEF Only
    <3>5. Control!StartRx
      BY <3>1, <3>3, <3>4 DEF Control!StartRx
    <3> QED BY <3>5 DEF Control!Next, Control!Calls
  <2>2. CASE ControlReturn
    <3>1. /\ apc = "control" /\ apc' = "idle"
          /\ UNCHANGED <<streaming, stop_requested, usb, cpc, tpc>>
      BY <2>2 DEF ControlReturn, flags, usbVars, consumer
    <3>2. UNCHANGED joined
      BY <1>a, <3>1 DEF Joins, ThreadInv
    <3>3. /\ UNCHANGED <<TransferStates, ConsumerState, ThreadState, EndedByItself>>
          /\ CallState = "start_off" /\ CallState' = "idle"
      BY <1>d, <3>1, <3>2 DEF ConsumerState, ThreadState, EndedByItself, CallState
    <3>4. UNCHANGED <<Only(ConsumerState), Only(ThreadState)>>
      BY <3>3 DEF Only
    <3>5. Control!ReceiverMode
      BY <3>1, <3>3, <3>4 DEF Control!ReceiverMode
    <3> QED BY <3>5 DEF Control!Next, Control!StartSteps
  <2>3. CASE StopRx
    <3>1. /\ apc = "idle" /\ apc' = IF streaming THEN "cancel" ELSE "off"
          /\ stop_requested' = (stop_requested \/ streaming)
          /\ UNCHANGED <<streaming, usb, cpc, tpc>>
      BY <2>3 DEF StopRx, usbVars, consumer
    <3>2. UNCHANGED joined
      BY <1>a, <3>1 DEF Joins, ThreadInv
    <3>3. /\ UNCHANGED <<TransferStates, ConsumerState, ThreadState>>
          /\ CallState = "idle"
          /\ CallState' = IF streaming THEN "signal" ELSE "stop_off"
      BY <1>d, <3>1, <3>2 DEF ConsumerState, ThreadState, CallState
    <3>4. UNCHANGED EndedByItself
      BY <3>1, <3>2 DEF EndedByItself
    <3>5. UNCHANGED <<Only(ConsumerState), Only(ThreadState)>>
      BY <3>3 DEF Only
    <3>6. Control!StopRx
      BY <3>1, <3>3, <3>4, <3>5 DEF Control!StopRx
    <3> QED BY <3>6 DEF Control!Next, Control!Calls
  <2>4. CASE CancelTransfers
    <3>1. /\ apc = "cancel" /\ apc' = "signal"
          /\ usb' = [t \in Transfers |-> IF usb[t] = "submitted" THEN "failed" ELSE usb[t]]
          /\ UNCHANGED <<streaming, stop_requested, cpc, tpc>>
      BY <2>4 DEF CancelTransfers, flags, consumer
    <3>2. UNCHANGED joined
      BY <1>a, <3>1 DEF Joins, ThreadInv
    <3>3. TransferStates' = TransferStates
      BY <3>1, TransfersKept
    <3>4. UNCHANGED <<ConsumerState, ThreadState, CallState, EndedByItself>>
      BY <3>1, <3>2 DEF ConsumerState, ThreadState, CallState, EndedByItself
    <3> QED BY <3>1, <3>3, <3>4, AllUnseen DEF Unseen
  <2>5. CASE SignalConsumer
    <3>1. /\ apc = "signal" /\ apc' = "join_transfer" /\ cpc' = Signalled /\ MutexFree
          /\ UNCHANGED <<streaming, stop_requested, usb, tpc>>
      BY <2>5 DEF SignalConsumer, flags, usbVars
    <3>2. UNCHANGED joined /\ ~joined
      BY <1>a, <3>1 DEF Joins, ThreadInv
    <3>3. /\ UNCHANGED <<TransferStates, ThreadState, EndedByItself>>
          /\ CallState = "signal" /\ CallState' = "join_transfer"
      BY <1>d, <3>1, <3>2 DEF ThreadState, EndedByItself, CallState
    <3>4. UNCHANGED Only(ThreadState)
      BY <3>3 DEF Only
    <3>5. CASE cpc = "blocked"
      <4>1. ConsumerState = "blocked" /\ ConsumerState' = "running"
        BY <3>1, <3>2, <3>5 DEF ConsumerState, Signalled
      <4>2. Only(ConsumerState)' = Only("running")
        BY <4>1 DEF Only
      <4>3. /\ Only(ConsumerState)[1] = "blocked"
            /\ Only(ConsumerState)' = [Only(ConsumerState) EXCEPT ![1] = "running"]
        BY <4>1, <4>2, OnlyMoves
      <4>4. Control!Signal
        BY <3>1, <3>3, <3>4, <4>3, SessionOne DEF Control!Signal
      <4> QED BY <4>4 DEF Control!Next, Control!StopSteps
    <3>6. CASE cpc # "blocked"
      <4>1. ConsumerState # "blocked" /\ ConsumerState' = ConsumerState
        BY <3>1, <3>2, <3>6 DEF ConsumerState, Signalled, MutexFree, Holding
      <4>2. \A k \in Control!Sessions : Only(ConsumerState)[k] # "blocked"
        BY <4>1 DEF Only, Control!Sessions
      <4>3. UNCHANGED Only(ConsumerState)
        BY <4>1 DEF Only
      <4>4. Control!Signal
        BY <3>1, <3>3, <3>4, <4>2, <4>3 DEF Control!Signal
      <4> QED BY <4>4 DEF Control!Next, Control!StopSteps
    <3> QED BY <3>5, <3>6
  <2>6. CASE JoinTransfer
    <3>1. /\ apc = "join_transfer" /\ apc' = "join_consumer" /\ tpc = "exited"
          /\ UNCHANGED <<streaming, stop_requested, usb, cpc, tpc>>
      BY <2>6 DEF JoinTransfer, flags, usbVars, consumer
    <3>2. UNCHANGED joined /\ ~joined
      BY <1>a, <3>1 DEF Joins, ThreadInv
    <3>3. /\ UNCHANGED <<TransferStates, ConsumerState, EndedByItself>>
          /\ CallState = "join_transfer" /\ CallState' = "join_consumer"
          /\ ThreadState = "done" /\ ThreadState' = "joined"
      BY <1>d, <3>1, <3>2 DEF ConsumerState, ThreadState, EndedByItself, CallState
    <3>4. UNCHANGED Only(ConsumerState) /\ Only(ThreadState)' = Only("joined")
      BY <3>3 DEF Only
    <3>5. /\ Only(ThreadState)[1] = "done"
          /\ Only(ThreadState)' = [Only(ThreadState) EXCEPT ![1] = "joined"]
      BY <3>3, <3>4, OnlyMoves
    <3>6. Control!JoinTransfer
      BY <3>1, <3>3, <3>4, <3>5 DEF Control!JoinTransfer, Control!Joinable
    <3> QED BY <3>6 DEF Control!Next, Control!StopSteps
  <2>7. CASE JoinConsumer
    <3>1. /\ apc = "join_consumer" /\ apc' = "off" /\ cpc = "done"
          /\ streaming' = FALSE /\ stop_requested' = FALSE
          /\ UNCHANGED <<usb, cpc, tpc>>
      BY <2>7 DEF JoinConsumer, usbVars, consumer
    <3>2. ~joined /\ joined'
      BY <1>a, <3>1 DEF Joins, ThreadInv
    <3>3. /\ UNCHANGED <<TransferStates, ThreadState>>
          /\ CallState = "join_consumer" /\ CallState' = "stop_off"
          /\ ConsumerState = "done" /\ ConsumerState' = "joined"
      BY <1>d, <3>1, <3>2 DEF ConsumerState, ThreadState, CallState
    <3>4. UNCHANGED EndedByItself
      BY <3>1, <3>2 DEF EndedByItself
    <3>5. UNCHANGED Only(ThreadState) /\ Only(ConsumerState)' = Only("joined")
      BY <3>3 DEF Only
    <3>6. /\ Only(ConsumerState)[1] = "done"
          /\ Only(ConsumerState)' = [Only(ConsumerState) EXCEPT ![1] = "joined"]
      BY <3>3, <3>5, OnlyMoves
    <3>7. Control!JoinConsumer
      BY <3>1, <3>3, <3>4, <3>5, <3>6
         DEF Control!JoinConsumer, Control!Joinable, Control!ClearFlags
    <3> QED BY <3>7 DEF Control!Next, Control!StopSteps
  <2>8. CASE ReceiverOff
    <3>1. /\ apc = "off" /\ apc' = "stopped"
          /\ UNCHANGED <<streaming, stop_requested, usb, cpc, tpc>>
      BY <2>8 DEF ReceiverOff, flags, usbVars, consumer
    <3>2. UNCHANGED joined
      BY <1>a, <3>1 DEF Joins, ThreadInv
    <3>3. /\ UNCHANGED <<TransferStates, ConsumerState, ThreadState, EndedByItself>>
          /\ CallState = "stop_off" /\ CallState' = "idle"
      BY <1>d, <3>1, <3>2 DEF ConsumerState, ThreadState, EndedByItself, CallState
    <3>4. UNCHANGED <<Only(ConsumerState), Only(ThreadState)>>
      BY <3>3 DEF Only
    <3>5. Control!StopOff
      BY <3>1, <3>3, <3>4 DEF Control!StopOff
    <3> QED BY <3>5 DEF Control!Next, Control!StopSteps
  <2>9. CASE \E s \in Slots : ClearSlot(s)
    <3>1. UNCHANGED <<streaming, stop_requested, usb, cpc, tpc, apc>>
      BY <2>9 DEF ClearSlot, flags, usbVars, consumer
    <3>2. Unseen /\ UNCHANGED ConsumerState
      BY <1>g, <1>h, <3>1 DEF ConsumerState
    <3> QED BY <3>1, <3>2, AllUnseen
  <2>10. CASE ResetDropped
    <3>1. /\ apc = "clear" /\ apc' = "control"
          /\ UNCHANGED <<streaming, stop_requested, usb, cpc, tpc>>
      BY <2>10 DEF ResetDropped, flags, usbVars, consumer
    <3>2. Unseen /\ UNCHANGED joined
      BY <1>j, <3>1
    <3>3. UNCHANGED ConsumerState
      BY <3>1, <3>2 DEF ConsumerState
    <3> QED BY <3>1, <3>2, <3>3, AllUnseen
  <2>11. CASE ResetOverwritten
    BY <1>6, <2>11
  <2> QED BY <1>9, <2>1, <2>2, <2>3, <2>4, <2>5, <2>6, <2>7, <2>8, <2>9, <2>10, <2>11
          DEF Application, StartClears, StopSequence
<1>10. CASE Finished
  <2>1. UNCHANGED vars
    BY <1>10 DEF Finished
  <2>2. UNCHANGED <<apc, tpc, cpc, streaming, stop_requested, usb>>
    BY <2>1 DEF vars, flags, usbVars, consumer
  <2>3. Unseen /\ UNCHANGED ConsumerState
    BY <1>g, <1>h, <2>2 DEF ConsumerState
  <2> QED BY <2>2, <2>3, AllUnseen
<1> QED
  BY <1>a, <1>1, <1>2, <1>3, <1>4, <1>5, <1>6, <1>7, <1>8, <1>9, <1>10
     DEF Next, EventHandler

(* A stream begins where create_io_threads() has succeeded.                *)
LEMMA ControlInit ==
  ASSUME IsFiniteSet(Transfers), Transfers # {}, Init, joined = FALSE
  PROVE  Control!IInv
<1>1. /\ streaming = TRUE /\ stop_requested = FALSE /\ apc = "idle"
      /\ cpc = "start" /\ tpc = "loop"
  BY DEF Init
<1>2. /\ ConsumerState = "running" /\ ThreadState = "running" /\ CallState = "idle"
      /\ EndedByItself = FALSE
  BY <1>1 DEF ConsumerState, ThreadState, CallState, EndedByItself
<1>3. Count \in Nat \ {0}
  BY Numbered
<1>4. TransferStates \in [1 .. Count -> {"null", "bare", "idle", "inflight"}]
  BY DEF TransferStates
<1>5. \A state : /\ Only(state)[1] = state /\ Only(state)[2] = "none"
                 /\ Only(state) \in [1 .. 2 -> {state, "none"}]
  BY DEF Only
<1>6. Control!TypeOK
  <2>1. /\ Only(ConsumerState) \in [1 .. 2 -> Control!ConsumerStates]
        /\ Only(ThreadState) \in [1 .. 2 -> Control!ThreadStates]
    BY <1>2, <1>5 DEF Control!ConsumerStates, Control!ThreadStates, Only
  <2>2. Count + 1 \in 1 .. Count + 1
    BY <1>3
  <2>3. 1 \in 0 .. 2 /\ 1 \in 0 .. 1 /\ 0 \in {-1, 0, 1}
    OBVIOUS
  <2>4. /\ streaming \in BOOLEAN /\ stop_requested \in BOOLEAN
        /\ EndedByItself \in BOOLEAN /\ FALSE \in BOOLEAN
    BY <1>1, <1>2
  <2> QED
    BY <1>2, <1>4, <2>1, <2>2, <2>3, <2>4, Zenon
       DEF Control!TypeOK, Control!TransferStates, Control!Sessions
<1>7. Control!TypeInv
  BY <1>2, <1>6 DEF Control!TypeInv
<1>8. Control!StreamInv
  BY <1>1, <1>2, <1>5
     DEF Control!StreamInv, Control!OthersGone, Control!NothingLeft,
            Control!CallInv,
         Control!Fresh, Control!Gone, Control!HasThreads, Control!HasConsumer,
         Control!Stopping, Control!Sessions
<1> QED BY <1>7, <1>8 DEF Control!IInv

(* At the grain of single accesses to the flags, the mutex and the         *)
(* condition variable, the threads of a stream and the calls that stop it  *)
(* do what StreamControl says, and nothing else, however many slots and    *)
(* transfers there are. In particular the consumer's test of the flags and *)
(* its going to wait, which are several steps here, are one step there.    *)
THEOREM ThreadsRefinement ==
  ASSUME IsFiniteSet(Transfers), Transfers # {}
  PROVE  SessionSpec => [][Control!Next]_(Control!vars)
<1>1. Init /\ joined = FALSE => IInv /\ ThreadInv
  BY RefInit, ThreadInit DEF RefInv
<1>2. [Next /\ Joins]_<<vars, joined>> => [Next]_vars
  OBVIOUS
<1>3. IInv /\ ThreadInv /\ [Next /\ Joins]_<<vars, joined>> => IInv' /\ ThreadInv'
  BY <1>2, NextIInv, ThreadNext
<1>4. IInv /\ ThreadInv /\ [Next /\ Joins]_<<vars, joined>> => [Control!Next]_(Control!vars)
  BY ControlStep
<1> QED BY <1>1, <1>3, <1>4, PTL DEF SessionSpec

(* So StreamControl's invariant holds in a stream.                         *)
LEMMA SessionInv ==
  ASSUME IsFiniteSet(Transfers), Transfers # {}
  PROVE  SessionSpec => []Control!IInv
<1>1. Control!ControlAssumption
  BY Numbered DEF Control!ControlAssumption
<1>2. Init /\ joined = FALSE => Control!IInv
  BY ControlInit
<1>3. Control!IInv /\ [Control!Next]_(Control!vars) => Control!IInv'
  BY <1>1, Control!InvNext
<1>4. SessionSpec => [][Control!Next]_(Control!vars)
  BY ThreadsRefinement
<1> QED BY <1>2, <1>3, <1>4, PTL DEF SessionSpec

(* At the grain of the queue, as long as the stream did not end by itself, *)
(* the threads alive are those of the stream, stop_rx() joins threads that *)
(* it can join, and it leaves no flag, no stop request and no thread.      *)
THEOREM SessionEndsClean ==
  ASSUME IsFiniteSet(Transfers), Transfers # {}
  PROVE  SessionSpec => [](Control!OneStream /\ Control!Restartable)
<1>1. Control!ControlAssumption
  BY Numbered DEF Control!ControlAssumption
<1>2. Control!IInv => Control!OneStream /\ Control!Restartable
  BY <1>1, Control!InvOneStream, Control!InvRestartable
<1> QED BY <1>2, SessionInv, PTL
=============================================================================
