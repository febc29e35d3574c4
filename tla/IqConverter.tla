---------------------------- MODULE IqConverter ----------------------------
(***************************************************************************)
(* The filters of iqconverter_int16.c and iqconverter_float.c.  A block of *)
(* real samples, of which every second pair is negated to translate it by  *)
(* fs/4, goes through a half-band filter: the even samples through a FIR   *)
(* whose queue is a buffer several times its length, written downwards,    *)
(* the odd ones through a delay line.  Both keep their place between       *)
(* blocks.                                                                 *)
(*                                                                         *)
(* A sample is its number in the stream, with its sign; 0 is silence.  The *)
(* factors common to all samples (1/32768, the centre tap) are left out,   *)
(* and so is remove_dc(), see DcRemoval.                                   *)
(*                                                                         *)
(* A reset may come while a block is processed: airspy_start_rx() resets   *)
(* before it finds out that it must answer BUSY.  Its stores meet the      *)
(* accesses of the loops one by one.  memset() clears pieces of the memory *)
(* in an order of its own, so that to read or to copy a stretch of memory  *)
(* can be one step: each piece is cleared before it or after it.           *)
(***************************************************************************)
EXTENDS Integers

CONSTANTS
  Kernels,      \* pairs of "int16" or "float", and a length
  Taps,         \* the first half of the kernel
  SIZE_FACTOR,  \* of the queue: 16 or 32
  PIECE,        \* entries that a store of memset() clears
  MaxPairs,     \* bound: pairs that are processed
  MaxResets     \* bound: resets after the first

ConverterAssumption ==
  /\ \A c \in Kernels : /\ c[1] \in {"int16", "float"}
                           /\ c[2] \in Nat /\ c[2] >= 4 /\ c[2] % 2 = 0
                           /\ \A j \in 0 .. c[2] \div 2 - 1 : Taps[j] \in Int
  /\ SIZE_FACTOR \in Nat /\ SIZE_FACTOR >= 2 /\ SIZE_FACTOR % 2 = 0
  /\ PIECE \in Nat \ {0}
  /\ MaxPairs \in Nat /\ MaxResets \in Nat

VARIABLES
  kind, len,               \* the converter; len is the kernel's length / 2 + 1
  fir_queue, fir_index,
  delay_line, delay_index,
  pairs,                   \* of samples in the block
  loop, i, index,          \* the loop that runs, its counter and local index
  clearing, uncleared,     \* what a reset is at, and the entries it has left
  fir_count, delay_count,  \* history: samples each loop has taken, in all
  fir_since, delay_since,  \* history: and since the end of the last reset
  fir_out, delay_out,      \* history: the last sample that left each
  resets,                  \* history
  midway                   \* history: a block ran during the last one

memory   == <<fir_queue, fir_index, delay_line, delay_index>>
position == <<loop, i, index, pairs>>
reset    == <<clearing, uncleared, resets>>
firPast   == <<fir_count, fir_since, fir_out>>
delayPast == <<delay_count, delay_since, delay_out>>
iqvars   == <<kind, len, memory, position, reset, firPast, delayPast, midway>>

(* The loop is between blocks, at the head of one of the two loops, or     *)
(* inside: in front of the FIR's sum or of the copy at its turn, or of the *)
(* store into the delay line.                                              *)
Loops == {"none", "fir", "sum", "wrap", "delay", "put"}

Silence == 0
Garbage == -1000   \* what fresh memory holds

half_len == len \div 2

(* Mutation of DelayCleared: both kinds clear what the int16 one does.     *)
DelayClearedInt16(k, n) == n \div 4

(* iqconverter_int16_reset() clears a quarter of the kernel's length, half *)
(* of the delay line.                                                      *)
DelayCleared(k, n) == IF k = "int16" THEN n \div 4 ELSE n \div 2

(* And half of its queue.                                                  *)
QueueCleared(k, n) ==
  IF k = "int16" THEN (n * SIZE_FACTOR) \div 2 ELSE n * SIZE_FACTOR

Cleared(cells, entries) ==
  [e \in DOMAIN cells |-> IF e \in entries THEN Silence ELSE cells[e]]

(* Creation: fresh memory, and a reset.                                    *)
Init ==
  /\ \E c \in Kernels : kind = c[1] /\ len = c[2]
  /\ fir_queue = Cleared([e \in 0 .. len * SIZE_FACTOR - 1 |-> Garbage],
                         0 .. QueueCleared(kind, len) - 1)
  /\ delay_line = Cleared([e \in 0 .. half_len - 1 |-> Garbage],
                          0 .. DelayCleared(kind, len) - 1)
  /\ fir_index = 0 /\ delay_index = 0
  /\ loop = "none" /\ i = 0 /\ index = 0 /\ pairs = 0
  /\ clearing = "none" /\ uncleared = {}
  /\ fir_count = 0 /\ delay_count = 0 /\ fir_since = 0 /\ delay_since = 0
  /\ fir_out = Silence /\ delay_out = Silence
  /\ resets = 0 /\ midway = FALSE

-----------------------------------------------------------------------------
(* The application's reset.                                                *)

(* fir_index = 0                                                           *)
ResetFirIndex ==
  /\ clearing = "none" /\ clearing' = "delay_index"
  /\ resets < MaxResets /\ resets' = resets + 1
  /\ fir_index' = 0
  /\ fir_since' = 0 /\ delay_since' = 0 /\ midway' = (loop # "none")
  /\ UNCHANGED <<kind, len, fir_queue, delay_line, delay_index, position,
                 uncleared, fir_count, fir_out, delay_count, delay_out>>

(* delay_index = 0; the two memsets follow.                                *)
ResetDelayIndex ==
  /\ clearing = "delay_index" /\ clearing' = "delay_line"
  /\ uncleared' = 0 .. DelayCleared(kind, len) - 1
  /\ delay_index' = 0
  /\ UNCHANGED <<kind, len, fir_queue, fir_index, delay_line, position, resets,
                 firPast, delayPast, midway>>

Piece(k) == {e \in uncleared : e \div PIECE = k}

ClearDelayLine(k) ==
  /\ clearing = "delay_line" /\ Piece(k) # {}
  /\ delay_line' = Cleared(delay_line, Piece(k))
  /\ IF uncleared = Piece(k)
       THEN /\ clearing' = "fir_queue"
            /\ uncleared' = 0 .. QueueCleared(kind, len) - 1
       ELSE uncleared' = uncleared \ Piece(k) /\ UNCHANGED clearing
  /\ UNCHANGED <<kind, len, fir_queue, fir_index, delay_index, position, resets,
                 firPast, delayPast, midway>>

ClearFirQueue(k) ==
  /\ clearing = "fir_queue" /\ Piece(k) # {}
  /\ fir_queue' = Cleared(fir_queue, Piece(k))
  /\ uncleared' = uncleared \ Piece(k)
  /\ clearing' = IF uncleared = Piece(k) THEN "none" ELSE clearing
  /\ UNCHANGED <<kind, len, fir_index, delay_line, delay_index, position,
                 resets, firPast, delayPast, midway>>

Reset ==
  \/ ResetFirIndex
  \/ ResetDelayIndex
  \/ \E k \in {e \div PIECE : e \in uncleared} :
       ClearDelayLine(k) \/ ClearFirQueue(k)

-----------------------------------------------------------------------------
(* process().                                                              *)

(* No sample counts that is taken before the reset has ended.              *)
Since(n) == IF clearing = "none" THEN n + 1 ELSE 0

(* The kernel is symmetric.                                                *)
Tap(j) == Taps[IF j < half_len THEN j ELSE len - 1 - j]

(* What a loop leaves in acc.                                              *)
SumTo(terms, n) ==
  LET acc[k \in 0 .. n] == IF k = 0 THEN 0 ELSE acc[k - 1] + terms[k - 1]
  IN acc[n]

(* The first of every two pairs of a block is negated.                     *)
Translated(number) == IF i % 2 = 0 THEN -number ELSE number

(* Four lengths have a loop that folds the kernel, the others one of eight *)
(* taps at a time, then four, then two.                                    *)
Folded(queue, at) ==
  SumTo([j \in 0 .. half_len - 1 |->
           Tap(j) * (queue[at + j] + queue[at + len - 1 - j])], half_len)

Eights(queue, at) ==
  LET taps(from, n) == SumTo([j \in 0 .. n - 1 |->
                                Tap(from + j) * queue[at + from + j]], n)
      it == 8 * (len \div 8)
      fours == 4 * ((len % 8) \div 4)
      twos == 2 * ((len % 4) \div 2)
  IN taps(0, it) + taps(it, fours) + taps(it + fours, twos)

Straight(queue, at) ==
  SumTo([j \in 0 .. len - 1 |-> Tap(j) * queue[at + j]], len)

FirInterleaved(queue, at) ==
  IF kind = "int16" THEN Straight(queue, at)
  ELSE IF len \in {4, 8, 12, 24} THEN Folded(queue, at)
  ELSE Eights(queue, at)

Begin(n) ==
  /\ loop = "none"
  /\ fir_count + n <= MaxPairs
  /\ loop' = "fir" /\ i' = 0 /\ index' = fir_index /\ pairs' = n
  /\ midway' = (midway \/ clearing # "none")
  /\ UNCHANGED <<kind, len, memory, reset, firPast, delayPast>>

(* Mutation of WrapIndex: one place too high.                              *)
WrapIndexHigh == len * (SIZE_FACTOR - 1) + 1

WrapIndex == len * (SIZE_FACTOR - 1)

(* Mutation of Wrapped: one sample too few is copied.                      *)
WrappedShort(queue) ==
  [e \in DOMAIN queue |-> IF e \in WrapIndex + 1 .. WrapIndex + len - 2
                            THEN queue[e - WrapIndex - 1] ELSE queue[e]]

(* The newest len - 1 samples are copied to the upper end.                 *)
Wrapped(queue) ==
  [e \in DOMAIN queue |-> IF e \in WrapIndex + 1 .. WrapIndex + len - 1
                            THEN queue[e - WrapIndex - 1] ELSE queue[e]]

(* The sample is stored, ...                                               *)
FirStore ==
  /\ loop = "fir" /\ i < pairs /\ loop' = "sum"
  /\ fir_queue' = [fir_queue EXCEPT ![index] = Translated(fir_count + 1)]
  /\ fir_count' = fir_count + 1 /\ fir_since' = Since(fir_since)
  /\ UNCHANGED <<kind, len, fir_index, delay_line, delay_index, i, index, pairs,
                 reset, fir_out, delayPast, midway>>

(* ... the taps are summed up, ...                                         *)
FirSum ==
  /\ loop = "sum" /\ loop' = IF index = 0 THEN "wrap" ELSE "fir"
  /\ fir_out' = FirInterleaved(fir_queue, index)
  /\ index' = IF index = 0 THEN WrapIndex ELSE index - 1
  /\ i' = i + 1
  /\ UNCHANGED <<kind, len, memory, pairs, reset, fir_count, fir_since,
                 delayPast, midway>>

(* ... and when the queue is used up it begins anew at its upper end.      *)
FirWrap ==
  /\ loop = "wrap" /\ loop' = "fir"
  /\ fir_queue' = Wrapped(fir_queue)
  /\ UNCHANGED <<kind, len, fir_index, delay_line, delay_index, i, index, pairs,
                 reset, firPast, delayPast, midway>>

FirEnd ==
  /\ loop = "fir" /\ i = pairs /\ loop' = "delay"
  /\ fir_index' = index
  /\ i' = 0 /\ index' = delay_index
  /\ UNCHANGED <<kind, len, fir_queue, delay_line, delay_index, pairs, reset,
                 firPast, delayPast, midway>>

DelayRead ==
  /\ loop = "delay" /\ i < pairs /\ loop' = "put"
  /\ delay_out' = delay_line[index]
  /\ delay_count' = delay_count + 1 /\ delay_since' = Since(delay_since)
  /\ UNCHANGED <<kind, len, memory, i, index, pairs, reset, firPast, midway>>

DelayStore ==
  /\ loop = "put" /\ loop' = "delay"
  /\ delay_line' = [delay_line EXCEPT ![index] = Translated(delay_count)]
  /\ index' = IF index + 1 >= half_len THEN 0 ELSE index + 1
  /\ i' = i + 1
  /\ UNCHANGED <<kind, len, fir_queue, fir_index, delay_index, pairs, reset,
                 firPast, delayPast, midway>>

DelayEnd ==
  /\ loop = "delay" /\ i = pairs /\ loop' = "none"
  /\ delay_index' = index
  /\ i' = 0 /\ index' = 0
  /\ UNCHANGED <<kind, len, fir_queue, fir_index, delay_line, pairs, reset,
                 firPast, delayPast, midway>>

(* The loops of a block that has begun.                                    *)
Filter ==
  FirStore \/ FirSum \/ FirWrap \/ FirEnd \/ DelayRead \/ DelayStore \/ DelayEnd

-----------------------------------------------------------------------------
(* Properties.                                                             *)

(* All indices stay inside the memory of the FIR and of the delay line,    *)
(* also when a reset comes in the middle of a block.                       *)
IndicesInRange ==
  /\ fir_index \in 0 .. WrapIndex
  /\ delay_index \in 0 .. half_len - 1
  /\ loop \in {"fir", "sum", "wrap"} => index + len - 1 \in DOMAIN fir_queue
  /\ loop \in {"delay", "put"} => index \in DOMAIN delay_line

(* The sample that the stream had at this place, silence before a reset.   *)
Heard(number, since, ago) ==
  IF ago >= since THEN Silence
  ELSE IF (number - ago) % 2 = 1 THEN ago - number
  ELSE number - ago

(* What leaves the FIR is the convolution of the kernel with the latest    *)
(* samples since the end of the last reset, over blocks and turns of the   *)
(* queue: no sample is lost, repeated or left from before, and no fresh    *)
(* memory is read.  That is so from the first sample on when no block ran  *)
(* during the reset; otherwise what it left half cleared must have passed  *)
(* through the kernel.                                                     *)
FirIsConvolution ==
  loop # "sum" /\ fir_since > (IF midway THEN len - 1 ELSE 0) =>
    fir_out = SumTo([j \in 0 .. len - 1 |->
                       Tap(j) * Heard(fir_count, fir_since, j)], len)

(* The odd samples leave the delay line half a kernel later, in step with  *)
(* the FIR, in the same sense.  (After any reset of the int16 converter    *)
(* there may come old samples or fresh memory first.)                      *)
DelayIsHalfKernel ==
  delay_since > (IF kind = "int16" \/ midway THEN half_len ELSE 0) =>
    delay_out = Heard(delay_count, delay_since, half_len)
=============================================================================
