----------------------------- MODULE LossyFifo -----------------------------
(***************************************************************************)
(* What the received-samples queue of libairspy promises its client: a     *)
(* bounded first-in first-out queue that may lose blocks when it is full,  *)
(* but never reorders, duplicates or invents one, and that tells with each *)
(* block it hands over how many were lost just before it.                  *)
(*                                                                         *)
(* A block keeps its place in the queue until the client is done with it.  *)
(***************************************************************************)
EXTENDS Integers, Sequences

CONSTANTS
  Capacity,   \* places in the queue
  MaxBlocks   \* blocks offered in a behaviour

VARIABLES
  pending,    \* entries not yet taken, oldest first
  current,    \* the entry the client works on, or None
  lost,       \* blocks lost since the last one accepted
  seen,       \* blocks offered so far
  client      \* the last block handed to the client

fifoVars == <<pending, current, lost, seen, client>>

None  == [block |-> 0, gap |-> 0]
Entry == [block : 1 .. MaxBlocks, gap : 0 .. MaxBlocks]

Occupied == Len(pending) + (IF current = None THEN 0 ELSE 1)

FifoInit ==
  /\ pending = <<>>
  /\ current = None
  /\ lost = 0
  /\ seen = 0
  /\ client = 0

Offer == seen < MaxBlocks /\ seen' = seen + 1

Accept ==
  /\ Offer
  /\ Occupied < Capacity
  /\ pending' = Append(pending, [block |-> seen + 1, gap |-> lost])
  /\ lost' = 0
  /\ UNCHANGED <<current, client>>

Lose ==
  /\ Offer
  /\ Occupied = Capacity
  /\ lost' = lost + 1
  /\ UNCHANGED <<pending, current, client>>

Take ==
  /\ current = None
  /\ pending # <<>>
  /\ current' = Head(pending)
  /\ pending' = Tail(pending)
  /\ UNCHANGED <<lost, seen, client>>

(* Each entry is handed over once.                                         *)
Deliver ==
  /\ current # None
  /\ client < current.block
  /\ client' = current.block
  /\ UNCHANGED <<pending, current, lost, seen>>

Release ==
  /\ current # None
  /\ client = current.block
  /\ current' = None
  /\ UNCHANGED <<pending, lost, seen, client>>

(* The session's loss accounting may be restarted, piece by piece: a loss  *)
(* count that was not handed over yet is forgotten, its block is not.      *)
ForgetGap(i) ==
  /\ pending' = [pending EXCEPT ![i].gap = 0]
  /\ UNCHANGED <<current, lost, seen, client>>

ForgetLost ==
  /\ lost' = 0
  /\ UNCHANGED <<pending, current, seen, client>>

Forget == ForgetLost \/ \E i \in DOMAIN pending : ForgetGap(i)

FifoNext == Accept \/ Lose \/ Take \/ Deliver \/ Release \/ Forget

FifoSpec == FifoInit /\ [][FifoNext]_fifoVars
=============================================================================
