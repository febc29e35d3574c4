------------------------ MODULE StreamControl_proofs ------------------------
(***************************************************************************)
(* Proofs about StreamControl, for any number of transfers and of starts.  *)
(*                                                                         *)
(* OneStream and Restartable are not inductive: that a stop meets threads  *)
(* it can join needs to know which threads exist at each point of a call,  *)
(* and that a start meets none needs that those of earlier sessions are    *)
(* gone.  StreamInv says both, as long as no stream was derailed.          *)
(***************************************************************************)
EXTENDS StreamControl, TLAPS

(* Types, with what keeps counters and indices in their range.             *)
TypeInv ==
  /\ TypeOK
  /\ apc \in {"start_off", "start_on", "create"} => session < MaxStarts
  /\ apc \in {"submit", "create_consumer", "create_transfer"} => session # 0
  /\ apc = "submit" => next \in 1 .. transfer_count
  /\ converter = -1 => apc = "closed"

(* The threads of session k were never created; are not there any more.    *)
Fresh(k) == consumer[k] = "none" /\ transfer[k] = "none"
Gone(k)  == consumer[k] \in {"none", "joined"} /\ transfer[k] \in {"none", "joined"}

(* The latest session has a consumer, and device->consumer_thread is it.   *)
HasConsumer ==
  /\ session # 0 /\ consumer_thread = session
  /\ consumer[session] \in {"running", "blocked", "process", "done"}

HasThreads ==
  /\ HasConsumer
  /\ transfer_thread = session
  /\ transfer[session] \in {"running", "done"}

(* Earlier sessions have no threads left, later ones none yet.             *)
OthersGone ==
  \A k \in Sessions : (k < session => Gone(k)) /\ (k > session => Fresh(k))

(* Outside of a stream and of a stop there is nothing.                     *)
NothingLeft ==
  ~streaming /\ ~Stopping => ~stop_requested /\ \A k \in Sessions : Gone(k)

(* What there is at each point of a call.                                  *)
CallInv ==
  /\ apc \in {"submit", "create_consumer"} => streaming /\ Fresh(session)
  /\ apc = "create_transfer" => streaming /\ HasConsumer /\ transfer[session] = "none"
  /\ streaming /\ apc \in {"idle", "start_off", "start_on", "create"} => HasThreads
  /\ apc \in {"signal", "join_transfer"} => HasThreads
  /\ apc = "join_consumer" =>
       HasConsumer /\ transfer_thread = session /\ transfer[session] = "joined"
  /\ apc \in {"stop_off", "close", "closed", "set_packing", "reallocate"} => ~streaming
  /\ apc = "crashed" => streaming /\ session # 0 /\ Fresh(session)

StreamInv == ~derailed => OthersGone /\ NothingLeft /\ CallInv

IInv == TypeInv /\ StreamInv

-----------------------------------------------------------------------------
(* The types hold of a device that was just opened.                        *)
LEMMA TypeInit == Init => TypeInv
<1> SUFFICES ASSUME Init PROVE TypeInv
  OBVIOUS
<1>1. transfers \in [1 .. transfer_count -> TransferStates]
  BY DEF Init, AllIdle, TransferStates
<1>2. consumer \in [Sessions -> ConsumerStates] /\ transfer \in [Sessions -> ThreadStates]
  BY DEF Init, ConsumerStates, ThreadStates
<1>3. MaxStarts \in Nat /\ transfer_count \in Nat /\ transfer_count >= 1
  BY ControlAssumption
<1>4. session = 0 /\ consumer_thread = 0 /\ transfer_thread = 0 /\ next = 1 /\ converter = 0
  BY DEF Init
<1>5. session \in 0 .. MaxStarts /\ next \in 1 .. transfer_count + 1
  BY <1>3, <1>4
<1>6. /\ streaming = FALSE /\ stop_requested = FALSE /\ packing_enabled = FALSE
      /\ packing = FALSE /\ closing = FALSE /\ derailed = FALSE /\ apc = "idle"
  BY DEF Init
<1>7. TypeOK
  <2>1. consumer_thread \in 0 .. session /\ transfer_thread \in 0 .. session
    BY <1>4
  <2>2. converter \in {-1, 0, 1}
    BY <1>4
  <2>3. /\ streaming \in BOOLEAN /\ stop_requested \in BOOLEAN
        /\ packing_enabled \in BOOLEAN /\ packing \in BOOLEAN
        /\ closing \in BOOLEAN /\ derailed \in BOOLEAN
    BY <1>6
  <2> QED BY <1>1, <1>2, <1>5, <1>6, <2>1, <2>2, <2>3, Zenon DEF TypeOK
<1> QED BY <1>4, <1>6, <1>7 DEF TypeInv

(* Every step keeps them: the bound on the starts and on the transfers to  *)
(* submit is kept with them.                                               *)
LEMMA TypeNext == TypeInv /\ [Next]_vars => TypeInv'
<1> SUFFICES ASSUME TypeInv, [Next]_vars PROVE TypeInv'
  OBVIOUS
<1> USE ControlAssumption DEF TypeInv, TypeOK, flags, buffers, threads, call,
        AppMoves, Sessions, TransferStates, ConsumerStates, ThreadStates
<1>1. CASE StartRx
  BY <1>1 DEF StartRx
<1>2. CASE ReceiverMode
  BY <1>2 DEF ReceiverMode
<1>3. CASE CreateTest
  <2>1. 1 \in 1 .. transfer_count /\ 1 \in 1 .. transfer_count + 1
    OBVIOUS
  <2>2. CASE apc' = "submit"
    <3>1. session' = session + 1 /\ session < MaxStarts /\ next' = 1
      BY <1>3, <2>2 DEF CreateTest
    <3>2. /\ session' \in 0 .. MaxStarts /\ session' # 0
          /\ consumer_thread \in 0 .. session' /\ transfer_thread \in 0 .. session'
      BY <3>1
    <3> QED BY <1>3, <2>1, <2>2, <3>1, <3>2 DEF CreateTest
  <2>3. CASE apc' = "idle"
    BY <1>3, <2>3 DEF CreateTest
  <2> QED BY <1>3, <2>2, <2>3 DEF CreateTest
<1>4. CASE SubmitTransfer
  <2>1. /\ apc = "submit" /\ session # 0 /\ next \in 1 .. transfer_count
        /\ UNCHANGED <<flags, packing_enabled, converter, threads, closing, packing>>
    BY <1>4 DEF SubmitTransfer
  <2>2. transfers' = <<>> \/ transfers' \in [1 .. transfer_count -> TransferStates]
    BY <1>4 DEF SubmitTransfer
  <2>3. /\ apc' \in {"create_consumer", "submit", "idle", "crashed"}
        /\ derailed' \in BOOLEAN
    BY <1>4 DEF SubmitTransfer, CreateFails
  <2>4. next' \in 1 .. transfer_count + 1 /\ (apc' = "submit" => next' \in 1 .. transfer_count)
    BY <1>4, <2>1 DEF SubmitTransfer, CreateFails
  <2> QED BY <2>1, <2>2, <2>3, <2>4
<1>5. CASE NoTransfers
  BY <1>5 DEF NoTransfers, CreateFails
<1>6. CASE CreateConsumer
  <2>1. session \in Sessions /\ session \in 0 .. session
    BY <1>6 DEF CreateConsumer
  <2>2. consumer' \in [Sessions -> ConsumerStates] /\ consumer_thread' \in 0 .. session
    BY <1>6, <2>1 DEF CreateConsumer
  <2> QED BY <1>6, <2>2 DEF CreateConsumer, CreateFails
<1>7. CASE CreateTransfer
  <2>1. session \in Sessions /\ session \in 0 .. session
    BY <1>7 DEF CreateTransfer
  <2>2. transfer' \in [Sessions -> ThreadStates] /\ transfer_thread' \in 0 .. session
    BY <1>7, <2>1 DEF CreateTransfer
  <2> QED BY <1>7, <2>2 DEF CreateTransfer, CreateFails
<1>8. CASE StopRx
  BY <1>8 DEF StopRx
<1>9. CASE Signal
  BY <1>9 DEF Signal
<1>10. CASE JoinTransfer
  BY <1>10 DEF JoinTransfer, Joinable
<1>11. CASE JoinConsumer
  BY <1>11 DEF JoinConsumer, Joinable, ClearFlags
<1>12. CASE StopOff
  BY <1>12 DEF StopOff
<1>13. CASE Close
  BY <1>13 DEF Close
<1>14. CASE SetPacking
  BY <1>14 DEF SetPacking
<1>15. CASE PackingSet
  BY <1>15 DEF PackingSet
<1>16. CASE Reallocate
  BY <1>16 DEF Reallocate, Allocations, AllIdle
<1>17. CASE SetConversionFilter
  BY <1>17 DEF SetConversionFilter
<1>18. ASSUME NEW k \in Sessions, Thread(k) \/ ConsumerWakes(k) PROVE TypeInv'
  <2>1. consumer' \in [Sessions -> ConsumerStates] /\ transfer' \in [Sessions -> ThreadStates]
    BY <1>18 DEF Thread, ConsumerLoop, ConsumerWakes, ClientReturns, TransferExits,
       ConsumerMoves, ThreadsOnly
  <2>2. stop_requested' \in BOOLEAN
    BY <1>18 DEF Thread, ConsumerLoop, ConsumerWakes, ClientReturns, TransferExits,
       ConsumerMoves, ThreadsOnly
  <2>3. ThreadsOnly
    BY <1>18 DEF Thread, ConsumerLoop, ConsumerWakes, ClientReturns, TransferExits
  <2> QED BY <2>1, <2>2, <2>3 DEF ThreadsOnly
<1>19. CASE StreamEnds
  <2>1. transfers' = <<>> \/ transfers' \in [1 .. transfer_count -> TransferStates]
    BY <1>19 DEF StreamEnds
  <2>2. derailed' \in BOOLEAN
    BY <1>19, ZenonT(30) DEF StreamEnds
  <2>3. /\ streaming' = FALSE
        /\ UNCHANGED <<stop_requested, packing_enabled, converter, threads, call>>
    BY <1>19 DEF StreamEnds
  <2> QED BY <2>1, <2>2, <2>3
<1>20. CASE TransferEnds
  BY <1>20 DEF TransferEnds
<1>21. CASE UNCHANGED vars
  BY <1>21 DEF vars
<1> QED
  BY <1>1, <1>2, <1>3, <1>4, <1>5, <1>6, <1>7, <1>8, <1>9, <1>10, <1>11,
     <1>12, <1>13, <1>14, <1>15, <1>16, <1>17, <1>18, <1>19, <1>20, <1>21
     DEF Next, Calls, StartSteps, StopSteps, OtherSteps, Finished

-----------------------------------------------------------------------------
(* An opened device has no threads.                                        *)
LEMMA StreamInit == Init => StreamInv
BY ControlAssumption DEF Init, StreamInv, OthersGone, NothingLeft, CallInv,
   Fresh, Gone, Stopping, Sessions

(* Every step that does not derail the stream keeps what is said of the    *)
(* threads.                                                                *)
LEMMA StreamNext == IInv /\ [Next]_vars => StreamInv'
<1> SUFFICES ASSUME TypeInv, StreamInv, [Next]_vars, ~derailed'
             PROVE  OthersGone' /\ NothingLeft' /\ CallInv'
  BY DEF IInv, StreamInv
<1> USE ControlAssumption DEF StreamInv, OthersGone, NothingLeft, CallInv,
        HasThreads, HasConsumer, Fresh, Gone, Stopping, TypeInv, TypeOK,
        flags, buffers, threads, call, AppMoves, Sessions
<1>1. CASE StartRx
  BY <1>1 DEF StartRx
<1>2. CASE ReceiverMode
  BY <1>2 DEF ReceiverMode
<1>3. CASE CreateTest
  BY <1>3 DEF CreateTest
<1>4. CASE SubmitTransfer
  BY <1>4 DEF SubmitTransfer, CreateFails
<1>5. CASE NoTransfers
  BY <1>5 DEF NoTransfers, CreateFails
<1>6. CASE CreateConsumer
  BY <1>6 DEF CreateConsumer, CreateFails
<1>7. CASE CreateTransfer
  BY <1>7 DEF CreateTransfer, CreateFails
<1>8. CASE StopRx
  BY <1>8 DEF StopRx
<1>9. CASE Signal
  BY <1>9 DEF Signal
<1>10. CASE JoinTransfer
  BY <1>10 DEF JoinTransfer, Joinable
<1>11. CASE JoinConsumer
  BY <1>11 DEF JoinConsumer, Joinable, ClearFlags
<1>12. CASE StopOff
  BY <1>12 DEF StopOff
<1>13. CASE Close
  BY <1>13 DEF Close
<1>14. CASE SetPacking
  BY <1>14 DEF SetPacking
<1>15. CASE PackingSet
  BY <1>15 DEF PackingSet
<1>16. CASE Reallocate
  BY <1>16 DEF Reallocate
<1>17. CASE SetConversionFilter
  BY <1>17 DEF SetConversionFilter
<1>18. ASSUME NEW k \in Sessions, ConsumerLoop(k) PROVE OthersGone' /\ NothingLeft' /\ CallInv'
  BY <1>18 DEF ConsumerLoop, ConsumerMoves, ThreadsOnly, Running
<1>19. ASSUME NEW k \in Sessions, ConsumerWakes(k) PROVE OthersGone' /\ NothingLeft' /\ CallInv'
  BY <1>19 DEF ConsumerWakes, ConsumerMoves, ThreadsOnly, Running
<1>20. ASSUME NEW k \in Sessions, ClientReturns(k) PROVE OthersGone' /\ NothingLeft' /\ CallInv'
  BY <1>20 DEF ClientReturns, ConsumerMoves, ThreadsOnly, Running
<1>21. ASSUME NEW k \in Sessions, TransferExits(k) PROVE OthersGone' /\ NothingLeft' /\ CallInv'
  BY <1>21 DEF TransferExits, ConsumerMoves, ThreadsOnly, Running
<1>22. CASE StreamEnds
  BY <1>22 DEF StreamEnds, LiveTransfers
<1>23. CASE TransferEnds
  BY <1>23 DEF TransferEnds
<1>24. CASE UNCHANGED vars
  BY <1>24 DEF vars
<1> QED
  BY <1>1, <1>2, <1>3, <1>4, <1>5, <1>6, <1>7, <1>8, <1>9, <1>10, <1>11,
     <1>12, <1>13, <1>14, <1>15, <1>16, <1>17, <1>18, <1>19, <1>20, <1>21,
     <1>22, <1>23, <1>24
     DEF Next, Calls, StartSteps, StopSteps, OtherSteps, Finished, Thread

-----------------------------------------------------------------------------
(* The invariant holds of a device that was just opened, and every step     *)
(* keeps it.                                                               *)
LEMMA InvInit == Init => IInv
BY TypeInit, StreamInit DEF IInv

LEMMA InvNext == IInv /\ [Next]_vars => IInv'
BY TypeNext, StreamNext DEF IInv

(* What there is at each point of a call, for any history of starts, stops,*)
(* errors and faults.                                                      *)
THEOREM InductiveInvariant == Spec => []IInv
BY InvInit, InvNext, PTL DEF Spec

(* All variables keep their types.                                         *)
THEOREM TypeCorrect == Spec => []TypeOK
<1>1. IInv => TypeOK
  BY DEF IInv, TypeInv
<1> QED BY <1>1, InductiveInvariant, PTL

(* What the invariant says of a stream that was not derailed.              *)
LEMMA InvOneStream == IInv => OneStream
<1>1. ASSUME IInv, ~derailed
      PROVE  LiveConsumers \cup LiveTransfers \subseteq {session}
  BY <1>1 DEF IInv, TypeInv, TypeOK, StreamInv, OthersGone, Fresh, Gone,
     LiveConsumers, LiveTransfers, Sessions
<1>2. ASSUME IInv, ~derailed, apc \in {"join_transfer", "join_consumer"}
      PROVE  /\ consumer_thread = session /\ Joinable(consumer_thread, consumer)
             /\ transfer_thread = session
             /\ apc = "join_transfer" => Joinable(transfer_thread, transfer)
  BY <1>2 DEF IInv, StreamInv, CallInv, HasThreads, HasConsumer, Joinable
<1> QED BY <1>1, <1>2 DEF OneStream

(* ... and of a device that does not stream.                               *)
LEMMA InvRestartable == IInv => Restartable
<1>1. ASSUME IInv, ~derailed, ~streaming, ~Stopping
      PROVE  ~stop_requested /\ LiveConsumers \cup LiveTransfers = {}
  BY <1>1 DEF IInv, StreamInv, NothingLeft, Gone, LiveConsumers, LiveTransfers
<1> QED BY <1>1 DEF Restartable

(* The threads alive are those of the latest session, and a stop joins     *)
(* threads that it can join.                                               *)
THEOREM ThreadsAreOfOneStream == Spec => []OneStream
BY InvOneStream, InductiveInvariant, PTL

(* A device that does not stream has nothing left that would refuse or     *)
(* disturb the next start.                                                 *)
THEOREM DeviceIsRestartable == Spec => []Restartable
BY InvRestartable, InductiveInvariant, PTL

(* No converter, buffer or mutex is freed under a live thread.             *)
THEOREM NothingFreedInUse == Spec => NoFreeInUse
<1> DEFINE Freed == converter' # converter \/ (apc = "reallocate" /\ apc' = "idle")
<1>1. ASSUME IInv, [Next]_vars, Freed
      PROVE  ~Stopping /\ (~derailed => ~streaming)
  <2> USE <1>1 DEF IInv, StreamInv, CallInv, Stopping, flags, buffers, threads,
          call, AppMoves
  <2>1. CASE Calls
    BY <2>1 DEF Calls, StartRx, StopRx, SetPacking, SetConversionFilter
  <2>2. CASE StartSteps
    BY <2>2 DEF StartSteps, ReceiverMode, CreateTest, SubmitTransfer, NoTransfers,
       CreateConsumer, CreateTransfer
  <2>3. CASE StopSteps
    BY <2>3 DEF StopSteps, Signal, JoinTransfer, JoinConsumer, StopOff, Close
  <2>4. CASE OtherSteps
    BY <2>4 DEF OtherSteps, PackingSet, Reallocate
  <2>5. ASSUME NEW k \in Sessions, Thread(k) \/ ConsumerWakes(k) PROVE FALSE
    BY <2>5 DEF Thread, ConsumerLoop, ConsumerWakes, ClientReturns, TransferExits,
       ThreadsOnly
  <2>6. CASE StreamEnds \/ TransferEnds
    BY <2>6 DEF StreamEnds, TransferEnds
  <2>7. CASE UNCHANGED vars
    BY <2>7 DEF vars
  <2> QED
    BY <2>1, <2>2, <2>3, <2>4, <2>5, <2>6, <2>7 DEF Next, Finished
<1>2. ASSUME IInv, [Next]_vars, Freed
      PROVE  derailed \/ LiveConsumers \cup LiveTransfers = {}
  <2>1. CASE ~derailed
    BY <1>1, <1>2, <2>1 DEF IInv, StreamInv, NothingLeft, Gone, LiveConsumers,
       LiveTransfers
  <2> QED BY <2>1
<1>3. IInv /\ [Next]_vars =>
        [\/ converter' # converter
         \/ apc = "reallocate" /\ apc' = "idle"
         => derailed \/ LiveConsumers \cup LiveTransfers = {}]_vars
  BY <1>2
<1> QED BY <1>3, InductiveInvariant, PTL DEF Spec, NoFreeInUse
=============================================================================
