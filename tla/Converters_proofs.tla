------------------------- MODULE Converters_proofs -------------------------
(***************************************************************************)
(* For FIRs of any even length, any symmetric kernel, a queue of any size, *)
(* blocks of any length, and for resets whose stores come one by one at    *)
(* any time, and changes of the sample type: the indices of the filters    *)
(* stay in their memory, a block is unpacked in order and announced as     *)
(* what it is, the odd samples leave the delay line in step, and the FIR   *)
(* computes the convolution.  For any coefficient, samples up to half of   *)
(* the range never wrap the removal of the DC offset, and a constant input *)
(* fades to nothing.                                                       *)
(***************************************************************************)
EXTENDS Converters, TLAPS, WellFoundedInduction

(* What the memory is, and where the loops are.                            *)
MemoryInv ==
  /\ len \in Nat /\ len >= 4
  /\ DOMAIN fir_queue = 0 .. len * SIZE_FACTOR - 1
  /\ DOMAIN delay_line = 0 .. Iq!half_len - 1

IndexInv ==
  /\ fir_index \in 0 .. Iq!WrapIndex
  /\ delay_index \in 0 .. Iq!half_len - 1
  /\ loop \in {"fir", "sum", "wrap"} => index \in 0 .. Iq!WrapIndex
  /\ loop \in {"delay", "put"} => index \in 0 .. Iq!half_len - 1

IInv == MemoryInv /\ IndexInv

(* The kernel, laid on the queue at its last index, ends where the queue   *)
(* ends; the delay line is not empty.                                      *)
LEMMA Sizes ==
  ASSUME len \in Nat, len >= 4
  PROVE  /\ Iq!WrapIndex \in Nat
         /\ Iq!WrapIndex + len = len * SIZE_FACTOR
         /\ Iq!half_len \in Nat /\ Iq!half_len >= 1
<1>1. SIZE_FACTOR \in Nat /\ SIZE_FACTOR >= 2
  BY ConvertersAssumption DEF Iq!ConverterAssumption
<1>2. len * (SIZE_FACTOR - 1) + len = len * SIZE_FACTOR
  BY <1>1
<1>3. len * (SIZE_FACTOR - 1) \in Nat
  <2>1. SIZE_FACTOR - 1 \in Nat
    BY <1>1
  <2> QED BY <2>1
<1>4. len \div 2 \in Nat /\ len \div 2 >= 1
  OBVIOUS
<1> QED BY <1>2, <1>3, <1>4 DEF Iq!WrapIndex, Iq!half_len

(* iqconverter_*_create() leaves the indices at rest in cleared memory.    *)
LEMMA InitInv == Init => IInv
<1> SUFFICES ASSUME Init PROVE IInv
  OBVIOUS
<1>1. len \in Nat /\ len >= 4
  BY ConvertersAssumption DEF Iq!ConverterAssumption, Init, Iq!Init
<1>2. MemoryInv
  BY <1>1 DEF MemoryInv, Init, Iq!Init, Iq!Cleared
<1>3. IndexInv
  <2>1. fir_index = 0 /\ delay_index = 0 /\ loop = "none"
    BY DEF Init, Iq!Init
  <2> QED BY <1>1, <2>1, Sizes DEF IndexInv
<1> QED BY <1>2, <1>3 DEF IInv

(* Steps outside the filters leave them as they are.                       *)
LEMMA Unchanged == IInv /\ UNCHANGED iqvars => IInv'
BY DEF IInv, MemoryInv, IndexInv, iqvars, Iq!WrapIndex, Iq!half_len

(* The kernel's length never changes, nor the size of the memory.          *)
LEMMA MemoryKept ==
  ASSUME MemoryInv, len' = len,
         DOMAIN fir_queue' = DOMAIN fir_queue,
         DOMAIN delay_line' = DOMAIN delay_line
  PROVE  MemoryInv' /\ Iq!WrapIndex' = Iq!WrapIndex /\ Iq!half_len' = Iq!half_len
BY DEF MemoryInv, Iq!WrapIndex, Iq!half_len

(* Each store of a reset, which may come between any two of the loops',    *)
(* keeps the memory's size and the indices in it.                          *)
LEMMA ResetInv == IInv /\ Iq!Reset => IInv'
<1> SUFFICES ASSUME IInv, Iq!Reset PROVE IInv'
  OBVIOUS
<1>1. /\ len' = len /\ UNCHANGED <<loop, index>>
      /\ fir_index' \in {0, fir_index} /\ delay_index' \in {0, delay_index}
      /\ DOMAIN fir_queue' = DOMAIN fir_queue
      /\ DOMAIN delay_line' = DOMAIN delay_line
  BY DEF Iq!Reset, Iq!ResetFirIndex, Iq!ResetDelayIndex, Iq!ClearDelayLine,
         Iq!ClearFirQueue, Iq!Cleared, Iq!position
<1>2. MemoryInv' /\ Iq!WrapIndex' = Iq!WrapIndex /\ Iq!half_len' = Iq!half_len
  BY <1>1, MemoryKept DEF IInv
<1>3. IndexInv'
  BY <1>1, <1>2, Sizes DEF IInv, MemoryInv, IndexInv
<1> QED BY <1>2, <1>3 DEF IInv

(* A block enters the filters where the last one left them.                *)
LEMMA BeginInv == ASSUME NEW n, IInv, Iq!Begin(n) PROVE IInv'
<1>1. MemoryInv' /\ Iq!WrapIndex' = Iq!WrapIndex /\ Iq!half_len' = Iq!half_len
  BY MemoryKept DEF IInv, Iq!Begin, Iq!memory
<1>2. loop' = "fir" /\ index' = fir_index /\ UNCHANGED <<fir_index, delay_index>>
  BY DEF Iq!Begin, Iq!memory
<1>3. IndexInv'
  BY <1>1, <1>2 DEF IInv, IndexInv
<1> QED BY <1>1, <1>3 DEF IInv

(* The loops of fir_interleaved() and delay_interleaved(): an index that   *)
(* runs off its end is turned before it is used.                           *)
LEMMA FilterInv == IInv /\ Iq!Filter => IInv'
<1> SUFFICES ASSUME IInv, Iq!Filter PROVE IInv'
  OBVIOUS
<1>1. /\ len' = len
      /\ DOMAIN fir_queue' = DOMAIN fir_queue
      /\ DOMAIN delay_line' = DOMAIN delay_line
  BY DEF Iq!Filter, Iq!FirStore, Iq!FirSum, Iq!FirWrap, Iq!FirEnd, Iq!DelayRead,
         Iq!DelayStore, Iq!DelayEnd, Iq!Wrapped, Iq!memory
<1>2. MemoryInv' /\ Iq!WrapIndex' = Iq!WrapIndex /\ Iq!half_len' = Iq!half_len
  BY <1>1, MemoryKept DEF IInv
<1>3. /\ Iq!WrapIndex \in Nat /\ Iq!half_len \in Nat /\ Iq!half_len >= 1
      /\ IndexInv
  BY Sizes DEF IInv, MemoryInv
<1> SUFFICES IndexInv'
  BY <1>2 DEF IInv
<1>4. CASE Iq!FirStore \/ Iq!FirWrap
  BY <1>2, <1>3, <1>4 DEF Iq!FirStore, Iq!FirWrap, IndexInv
<1>5. CASE Iq!FirSum
  <2>1. /\ loop = "sum" /\ loop' \in {"fir", "wrap"}
        /\ UNCHANGED <<fir_index, delay_index>>
        /\ index' = IF index = 0 THEN Iq!WrapIndex ELSE index - 1
    BY <1>5 DEF Iq!FirSum, Iq!memory
  <2> QED BY <1>2, <1>3, <2>1 DEF IndexInv
<1>6. CASE Iq!FirEnd
  BY <1>2, <1>3, <1>6 DEF Iq!FirEnd, IndexInv
<1>7. CASE Iq!DelayRead
  BY <1>2, <1>3, <1>7 DEF Iq!DelayRead, Iq!memory, IndexInv
<1>8. CASE Iq!DelayStore
  <2>1. /\ loop = "put" /\ loop' = "delay" /\ UNCHANGED <<fir_index, delay_index>>
        /\ index' = IF index + 1 >= Iq!half_len THEN 0 ELSE index + 1
    BY <1>8 DEF Iq!DelayStore
  <2> QED BY <1>2, <1>3, <2>1 DEF IndexInv
<1>9. CASE Iq!DelayEnd
  BY <1>2, <1>3, <1>9 DEF Iq!DelayEnd, IndexInv
<1> QED
  BY <1>4, <1>5, <1>6, <1>7, <1>8, <1>9 DEF Iq!Filter

(* Every step of the consumer and of the application keeps the invariant.  *)
LEMMA NextInv == IInv /\ [Next]_vars => IInv'
<1> SUFFICES ASSUME IInv, [Next]_vars PROVE IInv'
  OBVIOUS
<1>1. CASE ConsumerStep
  BY <1>1, Unchanged DEF ConsumerStep
<1>2. CASE Process
  BY <1>2, BeginInv DEF Process
<1>3. CASE FilterStep
  BY <1>3, FilterInv DEF FilterStep
<1>4. CASE Processed
  BY <1>4, Unchanged DEF Processed
<1>5. CASE SetSampleType
  BY <1>5, Unchanged DEF SetSampleType
<1>6. CASE StartRx
  BY <1>6, ResetInv DEF StartRx
<1>7. CASE UNCHANGED iqvars
  BY <1>7, Unchanged
<1>8. CASE UNCHANGED vars
  BY <1>8, Unchanged DEF vars
<1> QED BY <1>1, <1>2, <1>3, <1>4, <1>5, <1>6, <1>7, <1>8 DEF Next, Finished

(* The invariant is about the indices that the property names.             *)
LEMMA InvImpliesRange == IInv => IndicesInRange
<1> SUFFICES ASSUME IInv PROVE IndicesInRange
  OBVIOUS
<1>1. ASSUME loop \in {"fir", "sum", "wrap"} PROVE index + len - 1 \in DOMAIN fir_queue
  BY <1>1, Sizes DEF IInv, MemoryInv, IndexInv
<1>2. ASSUME loop \in {"delay", "put"} PROVE index \in DOMAIN delay_line
  BY <1>2 DEF IInv, MemoryInv, IndexInv
<1> QED BY <1>1, <1>2 DEF IInv, IndexInv, IndicesInRange, Iq!IndicesInRange

(* fir_index, delay_index and the index of a loop that runs are inside the *)
(* memory they are used on, with the whole kernel laid on the queue.       *)
THEOREM IndicesStayInRange == Spec => []IndicesInRange
<1>1. Init => IInv
  BY InitInv
<1>2. IInv /\ [Next]_vars => IInv'
  BY NextInv
<1>3. IInv => IndicesInRange
  BY InvImpliesRange
<1> QED BY <1>1, <1>2, <1>3, PTL DEF Spec

-----------------------------------------------------------------------------
(* Unpacking.                                                              *)

(* The bits from bit number first on.                                      *)
Bits(first, n) == [k \in 1 .. n |-> first + k - 1]

(* A shift and a mask take some bits of one word.                          *)
LEMMA FieldIsBits ==
  ASSUME NEW w \in Nat, NEW high \in 0 .. 31, NEW low \in 0 .. high
  PROVE  Block!Field(w, high, low) = Bits(32 * w + 31 - high, high - low + 1)
BY DEF Block!Field, Bits

(* Two samples of a group are put together from two words.                 *)
LEMMA BitsJoin ==
  ASSUME NEW b \in Nat
  PROVE  /\ Bits(b, 8) \o Bits(b + 8, 4) = Bits(b, 12)
         /\ Bits(b, 4) \o Bits(b + 4, 8) = Bits(b, 12)
BY DEF Bits

(* Three words are eight samples, in order and without a gap.              *)
LEMMA GroupIsBits ==
  ASSUME NEW m \in Nat
  PROVE  \A r \in 0 .. 7 : Block!Group(3 * m)[r + 1] = Bits(12 * (8 * m + r), 12)
<1> DEFINE w == 3 * m
<1>1. w \in Nat /\ w + 1 \in Nat /\ w + 2 \in Nat
  OBVIOUS
<1>2. /\ Block!Field(w, 31, 20) = Bits(96 * m, 12)
      /\ Block!Field(w, 19, 8) = Bits(96 * m + 12, 12)
      /\ Block!Field(w, 7, 0) = Bits(96 * m + 24, 8)
  BY <1>1, FieldIsBits
<1>3. /\ Block!Field(w + 1, 31, 28) = Bits(96 * m + 32, 4)
      /\ Block!Field(w + 1, 27, 16) = Bits(96 * m + 36, 12)
      /\ Block!Field(w + 1, 15, 4) = Bits(96 * m + 48, 12)
      /\ Block!Field(w + 1, 3, 0) = Bits(96 * m + 60, 4)
  BY <1>1, FieldIsBits
<1>4. /\ Block!Field(w + 2, 31, 24) = Bits(96 * m + 64, 8)
      /\ Block!Field(w + 2, 23, 12) = Bits(96 * m + 72, 12)
      /\ Block!Field(w + 2, 11, 0) = Bits(96 * m + 84, 12)
  BY <1>1, FieldIsBits
<1>5. /\ Bits(96 * m + 24, 8) \o Bits(96 * m + 32, 4) = Bits(96 * m + 24, 12)
      /\ Bits(96 * m + 60, 4) \o Bits(96 * m + 64, 8) = Bits(96 * m + 60, 12)
  <2>1. PICK b \in Nat : b = 96 * m + 24
    OBVIOUS
  <2>2. PICK c \in Nat : c = 96 * m + 60
    OBVIOUS
  <2>3. 96 * m + 32 = b + 8 /\ 96 * m + 64 = c + 4
    BY <2>1, <2>2
  <2>4. /\ Bits(b, 8) \o Bits(b + 8, 4) = Bits(b, 12)
        /\ Bits(c, 4) \o Bits(c + 4, 8) = Bits(c, 12)
    BY BitsJoin
  <2> HIDE DEF w
  <2> QED BY <2>1, <2>2, <2>3, <2>4, Zenon
<1>6. Block!Group(w) =
        <<Bits(96 * m, 12), Bits(96 * m + 12, 12), Bits(96 * m + 24, 12),
          Bits(96 * m + 36, 12), Bits(96 * m + 48, 12), Bits(96 * m + 60, 12),
          Bits(96 * m + 72, 12), Bits(96 * m + 84, 12)>>
  BY <1>2, <1>3, <1>4, <1>5 DEF Block!Group
<1>7. ASSUME NEW r \in 0 .. 7 PROVE Block!Group(w)[r + 1] = Bits(96 * m + 12 * r, 12)
  BY <1>6
<1>8. \A r \in 0 .. 7 : 96 * m + 12 * r = 12 * (8 * m + r)
  OBVIOUS
<1> QED BY <1>7, <1>8

(* A block's samples, each made of the next so many bits.                  *)
Samples(n, bits) == [j \in 1 .. n |-> Bits(bits * (j - 1), bits)]

(* unpack_samples() gives all samples of a block of whole groups, in order.*)
LEMMA UnpackedInOrder ==
  ASSUME NEW m \in Nat
  PROVE  Block!Unpacked(8 * m) = Samples(8 * m, 12)
<1>1. 8 * ((8 * m + 7) \div 8) = 8 * m
  OBVIOUS
<1>2. ASSUME NEW j \in 1 .. 8 * m
      PROVE  Block!Group(3 * ((j - 1) \div 8))[((j - 1) % 8) + 1] = Bits(12 * (j - 1), 12)
  <2>1. PICK q \in Nat, r \in 0 .. 7 : q = (j - 1) \div 8 /\ r = (j - 1) % 8 /\ j - 1 = 8 * q + r
    OBVIOUS
  <2> QED BY <2>1, GroupIsBits
<1> QED BY <1>1, <1>2 DEF Block!Unpacked, Samples

-----------------------------------------------------------------------------
(* Blocks, of any number of words.                                         *)

(* A block's samples: how wide, how many, and what they are made of.       *)
SampleBits == IF packing_enabled THEN 12 ELSE 16
Whole      == (32 * Block!Words) \div SampleBits
InOrder    == Samples(Whole, SampleBits)
AsItCame   == Block!Halves(Block!Words)
Counted(type) == IF type \in Block!IQ THEN Whole \div 2 ELSE Whole

(* What the samples and the count of a block are at each point, as far as  *)
(* the types it was seen with allow to say.                                *)
BlockInv ==
  /\ packing_enabled \in BOOLEAN
  /\ sample_type \in Block!SampleTypes
  /\ phase \in {"waiting", "unpacking", "converting", "filtering", "announcing",
                "client"}
  /\ seen \subseteq Block!SampleTypes
  /\ phase # "waiting" => sample_type \in seen
  /\ phase = "unpacking" => input_samples = AsItCame
  /\ phase \in {"converting", "filtering", "announcing"} =>
       /\ "RAW" \notin seen => input_samples = InOrder
       /\ seen = {"RAW"} => input_samples = AsItCame
  /\ phase \in {"converting", "filtering"} => sample_count = Whole
  /\ phase \in {"filtering", "announcing"} => converted \in seen
  /\ phase = "filtering" => converted \in Block!IQ
  /\ phase = "announcing" => sample_count = Counted(converted)
  /\ phase = "client" =>
       /\ transfer.type \in seen /\ transfer.made_of \in seen
       /\ "RAW" \notin seen => transfer.samples = InOrder
       /\ seen = {"RAW"} => transfer.samples = AsItCame
       /\ transfer.count = Counted(transfer.made_of)

(* The count that consumer_threadproc() computes and the loop of           *)
(* unpack_samples() agree on how many samples a block has.                 *)
LEMMA WholeBlock ==
  ASSUME packing_enabled \in BOOLEAN
  PROVE  /\ (IF packing_enabled THEN (((4 * Block!Words) \div 2) * 4) \div 3
                                ELSE (4 * Block!Words) \div 2) = Whole
         /\ packing_enabled => Block!Unpacked(Whole) = InOrder
         /\ ~packing_enabled => AsItCame = InOrder
<1>1. CASE packing_enabled
  <2>1. PICK m \in Nat : PackedWords = 3 * m
    <3>1. PackedWords \in Nat /\ PackedWords % 3 = 0
      BY ConvertersAssumption, Zenon DEF Block!BlockAssumption
    <3>2. PackedWords = 3 * (PackedWords \div 3) /\ PackedWords \div 3 \in Nat
      BY <3>1
    <3> QED BY <3>2
  <2>2. Block!Words = 3 * m /\ SampleBits = 12
    BY <1>1, <2>1 DEF Block!Words, SampleBits
  <2>3. Whole = 8 * m /\ (((4 * (3 * m)) \div 2) * 4) \div 3 = 8 * m
    BY <2>2 DEF Whole
  <2>4. Block!Unpacked(Whole) = InOrder
    BY <2>2, <2>3, UnpackedInOrder DEF InOrder
  <2> QED BY <1>1, <2>2, <2>3, <2>4
<1>2. CASE ~packing_enabled
  <2>1. PlainWords \in Nat
    BY ConvertersAssumption DEF Block!BlockAssumption
  <2>2. Block!Words = PlainWords /\ SampleBits = 16
    BY <1>2 DEF Block!Words, SampleBits
  <2>3. Whole = 2 * PlainWords /\ (4 * PlainWords) \div 2 = 2 * PlainWords
    BY <2>1, <2>2 DEF Whole
  <2>4. AsItCame = InOrder
    BY <2>1, <2>2, <2>3 DEF AsItCame, InOrder, Block!Halves, Samples, Bits
  <2> QED BY <1>2, <2>2, <2>3, <2>4
<1> QED BY <1>1, <1>2

(* No block is there at first.                                             *)
LEMMA BlockInit == Init => BlockInv
BY DEF Init, Block!Init, BlockInv, Block!SampleTypes, Block!IQ

(* Every step keeps it, a change of the sample type included.              *)
LEMMA BlockNext == BlockInv /\ [Next]_vars => BlockInv'
<1> SUFFICES ASSUME BlockInv, [Next]_vars PROVE BlockInv'
  OBVIOUS
<1>1. CASE packing_enabled' = packing_enabled
  <2> USE <1>1
  <2>1. /\ Whole' = Whole /\ InOrder' = InOrder /\ AsItCame' = AsItCame
        /\ \A type : Counted(type)' = Counted(type)
    BY DEF Whole, InOrder, AsItCame, Counted, SampleBits, Block!Words
  <2> USE <2>1
  <2>2. CASE Block!SetSampleType
    <3>1. PICK t \in Block!SampleTypes \ {sample_type} :
            /\ sample_type' = t
            /\ seen' = IF phase = "waiting" THEN {} ELSE seen \union {t}
            /\ UNCHANGED <<phase, input_samples, sample_count, converted, transfer>>
      BY <2>2 DEF Block!SetSampleType
    <3>2. phase # "waiting" => seen' # {"RAW"} /\ seen \subseteq seen'
      BY <3>1 DEF BlockInv
    <3> QED BY <3>1, <3>2 DEF BlockInv
  <2>3. CASE Block!TakeBlock
    BY <2>3 DEF Block!TakeBlock, BlockInv, AsItCame
  <2>4. CASE Block!Unpack
    <3>1. sample_count' = Whole
      BY <2>4, WholeBlock DEF Block!Unpack, BlockInv
    <3>2. input_samples' = IF Block!MustUnpack THEN Block!Unpacked(Whole) ELSE input_samples
      BY <2>4, WholeBlock DEF Block!Unpack, BlockInv
    <3>3. "RAW" \notin seen => input_samples' = InOrder
      BY <2>4, <3>2, WholeBlock DEF Block!Unpack, Block!MustUnpack, BlockInv
    <3>4. seen = {"RAW"} => input_samples' = AsItCame
      BY <2>4, <3>2 DEF Block!Unpack, Block!MustUnpack, BlockInv
    <3> QED BY <2>4, <3>1, <3>3, <3>4 DEF Block!Unpack, BlockInv
  <2>5. CASE Block!Convert
    BY <2>5 DEF Block!Convert, BlockInv, Counted
  <2>6. CASE Block!Filtered
    BY <2>6 DEF Block!Filtered, BlockInv, Counted
  <2>7. CASE Block!Announce
    BY <2>7 DEF Block!Announce, BlockInv
  <2>8. CASE Block!Return
    BY <2>8 DEF Block!Return, BlockInv
  <2>9. CASE UNCHANGED blockvars
    BY <2>9 DEF blockvars, BlockInv
  <2> QED
    BY <2>2, <2>3, <2>4, <2>5, <2>6, <2>7, <2>8, <2>9
    DEF Next, ConsumerStep, Process, FilterStep, Processed, SetSampleType, StartRx,
        Finished, vars
<1> QED
  BY <1>1
  DEF Next, ConsumerStep, Process, FilterStep, Processed, SetSampleType, StartRx,
      Finished, vars, blockvars, Block!SetSampleType, Block!TakeBlock, Block!Unpack,
      Block!Convert, Block!Filtered, Block!Announce, Block!Return

(* Of a packed block of any length the client gets 12 bits in turn, all of *)
(* them and nothing behind its end, unless RAW is chosen during the block. *)
THEOREM SamplesStayInOrder == Spec => []SamplesInOrder
<1>1. BlockInv => SamplesInOrder
  BY DEF BlockInv, SamplesInOrder, Block!SamplesInOrder, InOrder, Samples, Bits, Whole,
     SampleBits
<1> QED BY <1>1, BlockInit, BlockNext, PTL DEF Spec

(* A block during which the type does not change is announced as the type  *)
(* it was made of, with the count of that type.                            *)
THEOREM AnnouncedAsMade == Spec => []BlockAsAnnounced
<1>1. BlockInv => BlockAsAnnounced
  <2> SUFFICES ASSUME BlockInv, phase = "client", NEW type, seen = {type}
               PROVE  /\ transfer.type = transfer.made_of
                      /\ transfer.type = "RAW" => transfer.samples = AsItCame
                      /\ transfer.count = Counted(transfer.type)
    BY DEF BlockAsAnnounced, Block!BlockAsAnnounced, AsItCame, Counted, Whole, SampleBits
  <2> QED BY DEF BlockInv
<1> QED BY <1>1, BlockInit, BlockNext, PTL DEF Spec

-----------------------------------------------------------------------------
(* The delay line: the circle of samples that it holds.                    *)

(* The sign that the loops give to a number of the stream.                 *)
Sent(number) == IF number % 2 = 1 THEN -number ELSE number

(* What the loops and a reset are at, and how far the histories have come: *)
(* the signs go on from one block to the next, blocks being of even        *)
(* length; no sample counts until the reset has ended; and midway says     *)
(* whether the loops ran during the reset.                                 *)
ControlInv ==
  /\ kind \in {"int16", "float"} /\ loop \in Iq!Loops
  /\ clearing \in {"none", "delay_index", "delay_line", "fir_queue"}
  /\ i \in Nat /\ pairs \in Nat /\ pairs % 2 = 0
  /\ fir_count \in Nat /\ fir_since \in Nat
  /\ delay_count \in Nat /\ delay_since \in Nat
  /\ fir_count % 2 = IF loop \in {"fir", "wrap"} THEN i % 2
                     ELSE IF loop = "sum" THEN (i + 1) % 2 ELSE 0
  /\ delay_count % 2 = IF loop = "delay" THEN i % 2
                       ELSE IF loop = "put" THEN (i + 1) % 2 ELSE 0
  /\ clearing # "none" => fir_since = 0 /\ delay_since = 0
  /\ clearing # "none" /\ loop # "none" => midway
  /\ loop = "put" /\ delay_since = 0 => midway

(* Nothing has happened at first.                                          *)
LEMMA ControlInit == Init => ControlInv
<1> SUFFICES ASSUME Init PROVE ControlInv
  OBVIOUS
<1>1. kind \in {"int16", "float"}
  BY ConvertersAssumption DEF Iq!ConverterAssumption, Init, Iq!Init
<1> QED BY <1>1 DEF Init, Iq!Init, ControlInv, Iq!Loops

(* A reset: midway from its start on, if the loops are inside a block.     *)
LEMMA ControlReset == ControlInv /\ Iq!Reset => ControlInv'
<1> SUFFICES ASSUME ControlInv, Iq!Reset PROVE ControlInv'
  OBVIOUS
<1>1. CASE Iq!ResetFirIndex
  BY <1>1 DEF Iq!ResetFirIndex, Iq!position, ControlInv, Iq!Loops
<1>2. CASE ~Iq!ResetFirIndex
  <2>1. /\ UNCHANGED <<kind, loop, i, pairs, fir_count, fir_since, delay_count,
                       delay_since, midway>>
        /\ clearing # "none"
        /\ clearing' \in {"none", "delay_line", "fir_queue"}
    BY <1>2 DEF Iq!Reset, Iq!ResetDelayIndex, Iq!ClearDelayLine,
         Iq!ClearFirQueue, Iq!position, Iq!firPast, Iq!delayPast, ControlInv
  <2> QED BY <2>1 DEF ControlInv, Iq!Loops
<1> QED BY <1>1, <1>2

(* The loops.                                                              *)
LEMMA ControlFilter == ControlInv /\ Iq!Filter => ControlInv'
<1> SUFFICES ASSUME ControlInv, Iq!Filter PROVE ControlInv'
  OBVIOUS
<1>1. /\ UNCHANGED <<kind, clearing, pairs, midway>>
  BY DEF Iq!Filter, Iq!FirStore, Iq!FirSum, Iq!FirWrap, Iq!FirEnd, Iq!DelayRead,
         Iq!DelayStore, Iq!DelayEnd, Iq!reset
<1>2. CASE Iq!FirStore
  BY <1>1, <1>2 DEF Iq!FirStore, Iq!Since, Iq!delayPast, ControlInv, Iq!Loops
<1>3. CASE Iq!FirSum
  BY <1>1, <1>3 DEF Iq!FirSum, Iq!delayPast, ControlInv, Iq!Loops
<1>4. CASE Iq!FirWrap
  BY <1>1, <1>4 DEF Iq!FirWrap, Iq!firPast, Iq!delayPast, ControlInv, Iq!Loops
<1>5. CASE Iq!FirEnd
  BY <1>1, <1>5 DEF Iq!FirEnd, Iq!firPast, Iq!delayPast, ControlInv, Iq!Loops
<1>6. CASE Iq!DelayRead
  BY <1>1, <1>6 DEF Iq!DelayRead, Iq!Since, Iq!firPast, ControlInv, Iq!Loops
<1>7. CASE Iq!DelayStore
  BY <1>1, <1>7 DEF Iq!DelayStore, Iq!firPast, Iq!delayPast, ControlInv, Iq!Loops
<1>8. CASE Iq!DelayEnd
  BY <1>1, <1>8 DEF Iq!DelayEnd, Iq!firPast, Iq!delayPast, ControlInv, Iq!Loops
<1> QED BY <1>2, <1>3, <1>4, <1>5, <1>6, <1>7, <1>8 DEF Iq!Filter

(* The pairs of a block, packed or not, are an even number.                *)
LEMMA EvenPairs ==
  ASSUME packing_enabled \in BOOLEAN
  PROVE  Whole \div 2 \in Nat /\ (Whole \div 2) % 2 = 0
<1>1. CASE packing_enabled
  <2>1. PackedWords \in Nat /\ PackedWords % 3 = 0
    BY ConvertersAssumption, Zenon DEF Block!BlockAssumption
  <2>2. PICK m \in Nat : PackedWords = 3 * m
    <3>1. PackedWords = 3 * (PackedWords \div 3) /\ PackedWords \div 3 \in Nat
      BY <2>1
    <3> QED BY <3>1
  <2>3. Whole = 8 * m
    BY <1>1, <2>2 DEF Whole, Block!Words, SampleBits
  <2> QED BY <2>2, <2>3
<1>2. CASE ~packing_enabled
  <2>1. PlainWords \in Nat /\ PlainWords % 2 = 0
    BY ConvertersAssumption, Zenon DEF Block!BlockAssumption
  <2>2. Whole = 2 * PlainWords
    BY <1>2, <2>1 DEF Whole, Block!Words, SampleBits
  <2> QED BY <2>1, <2>2
<1> QED BY <1>1, <1>2

(* A block enters the filters: its pairs are those of sample_count.        *)
LEMMA ControlBegins == BlockInv /\ ControlInv /\ Process => ControlInv'
<1> SUFFICES ASSUME BlockInv, ControlInv, Process PROVE ControlInv'
  OBVIOUS
<1>1. /\ loop = "none" /\ loop' = "fir" /\ i' = 0 /\ pairs' = sample_count \div 2
      /\ UNCHANGED <<kind, clearing, fir_count, fir_since, delay_count, delay_since>>
  BY DEF Process, Iq!Begin, Iq!reset, Iq!firPast, Iq!delayPast
<1>2. sample_count = Whole
  BY DEF Process, Block!Convert, BlockInv
<1>3. pairs' \in Nat /\ pairs' % 2 = 0
  BY <1>1, <1>2, EvenPairs DEF BlockInv
<1>4. clearing # "none" => midway'
  BY Zenon DEF Process, Iq!Begin
<1> QED BY <1>1, <1>3, <1>4 DEF ControlInv, Iq!Loops

(* Every step.                                                             *)
LEMMA ControlNext == BlockInv /\ ControlInv /\ [Next]_vars => ControlInv'
<1> SUFFICES ASSUME BlockInv, ControlInv, [Next]_vars PROVE ControlInv'
  OBVIOUS
<1>1. CASE UNCHANGED iqvars
  BY <1>1 DEF iqvars, ControlInv
<1>2. CASE Process
  BY <1>2, ControlBegins
<1>3. CASE FilterStep
  BY <1>3, ControlFilter DEF FilterStep
<1>4. CASE StartRx
  BY <1>4, ControlReset DEF StartRx
<1> QED
  BY <1>1, <1>2, <1>3, <1>4
     DEF Next, ConsumerStep, Processed, SetSampleType, Finished, vars, iqvars

-----------------------------------------------------------------------------
(* The delay line.                                                         *)

(* Where it is read and written next; a loop has a copy.                   *)
Place == IF loop \in {"delay", "put"} THEN index ELSE delay_index

(* How many samples have been stored, in all and that count.               *)
Stored == IF loop = "put" THEN delay_count - 1 ELSE delay_count
Kept   == IF loop = "put" /\ delay_since > 0 THEN delay_since - 1 ELSE delay_since

(* How many samples ago an entry was written, counted from the place.      *)
Ago(e) == IF e < Place THEN Place - e ELSE Place - e + Iq!half_len

(* A reset has come past the entry.                                        *)
LineCleared(e) ==
  \/ clearing \in {"none", "fir_queue"}
  \/ clearing = "delay_line" /\ e \notin uncleared

(* Each entry since the reset is the sample of its turn; the others are    *)
(* silence, where the reset clears them all and no loop ran during it.     *)
EntriesInv ==
  \A e \in 0 .. Iq!half_len - 1 :
    IF Ago(e) <= Kept
      THEN delay_line[e] = Sent(Stored + 1 - Ago(e))
      ELSE kind = "float" /\ ~midway /\ LineCleared(e) =>
             delay_line[e] = Iq!Silence

DelayInv == EntriesInv /\ DelayIsHalfKernel

(* Between two places of a circle.                                         *)
LEMMA AroundTheCircle ==
  ASSUME NEW h \in Nat, NEW place \in 0 .. h - 1, NEW e \in 0 .. h - 1
  PROVE  (IF e < place THEN place - e ELSE place - e + h) \in 1 .. h
OBVIOUS

(* The place is in the delay line, and every entry was written before.     *)
PlaceInv ==
  /\ Iq!half_len \in Nat /\ Iq!half_len >= 1
  /\ Place \in 0 .. Iq!half_len - 1
  /\ \A e \in 0 .. Iq!half_len - 1 : Ago(e) \in 1 .. Iq!half_len

LEMMA AgoIsPast == IInv => PlaceInv
<1> SUFFICES ASSUME IInv PROVE PlaceInv
  OBVIOUS
<1>1. PICK h \in Nat : h = Iq!half_len /\ h >= 1
  BY Sizes DEF IInv, MemoryInv
<1>2. PICK place \in 0 .. h - 1 : place = Place
  BY <1>1 DEF Place, IInv, IndexInv
<1>3. \A e \in 0 .. h - 1 : Ago(e) \in 1 .. h
  BY <1>1, <1>2 DEF Ago
<1> QED BY <1>1, <1>2, <1>3 DEF PlaceInv

(* Fresh memory, partly cleared.                                           *)
LEMMA DelayInit == Init => DelayInv
<1> SUFFICES ASSUME Init PROVE DelayInv
  OBVIOUS
<1>1. /\ len \in Nat /\ len >= 4 /\ loop = "none"
      /\ delay_count = 0 /\ delay_since = 0 /\ delay_index = 0
      /\ delay_line = Iq!Cleared([e \in 0 .. Iq!half_len - 1 |-> Iq!Garbage],
                                 0 .. Iq!DelayCleared(kind, len) - 1)
  BY ConvertersAssumption DEF Iq!ConverterAssumption, Init, Iq!Init
<1>2. PICK h \in Nat : h = Iq!half_len /\ h >= 1
  BY <1>1, Sizes
<1>3. ASSUME NEW e \in 0 .. h - 1 PROVE ~(Ago(e) <= Kept)
  BY <1>1, <1>2 DEF Ago, Place, Kept
<1>4. ASSUME kind = "float", NEW e \in 0 .. h - 1
      PROVE  delay_line[e] = Iq!Silence
  <2>1. Iq!DelayCleared(kind, len) = h
    BY <1>2, <1>4 DEF Iq!DelayCleared, Iq!half_len
  <2> QED BY <1>1, <1>2, <2>1 DEF Iq!Cleared
<1>5. EntriesInv
  BY <1>2, <1>3, <1>4 DEF EntriesInv
<1>6. DelayIsHalfKernel
  BY <1>1, <1>2 DEF DelayIsHalfKernel, Iq!DelayIsHalfKernel
<1> QED BY <1>5, <1>6 DEF DelayInv

(* Steps that leave the delay line and its place alone.                    *)
LEMMA EntriesKept ==
  ASSUME EntriesInv, len' = len, kind' = kind, delay_line' = delay_line,
         Place' = Place, Stored' = Stored, Kept' = Kept, midway => midway',
         clearing' = clearing, uncleared' = uncleared
  PROVE  EntriesInv'
<1>1. /\ Iq!half_len' = Iq!half_len
      /\ \A e : Ago(e)' = Ago(e) /\ LineCleared(e)' = LineCleared(e)
  BY DEF Ago, LineCleared, Iq!half_len
<1> QED BY <1>1 DEF EntriesInv

(* Steps after which no sample counts.                                     *)
LEMMA NothingCounts ==
  ASSUME IInv', Kept' = 0,
         kind' = "float" /\ ~midway' =>
           \A e \in 0 .. Iq!half_len' - 1 :
             LineCleared(e)' => delay_line'[e] = Iq!Silence
  PROVE  EntriesInv'
<1>1. PlaceInv'
  BY AgoIsPast, PTL
<1>2. PICK h \in Nat : h = Iq!half_len' /\ h >= 1
  BY <1>1 DEF PlaceInv
<1>3. ASSUME NEW e \in 0 .. h - 1 PROVE ~(Ago(e)' <= Kept')
  <2>1. PICK place \in 0 .. h - 1 : place = Place'
    BY <1>1, <1>2 DEF PlaceInv
  <2>2. Ago(e)' = IF e < place THEN place - e ELSE place - e + h
    BY <1>2, <2>1 DEF Ago
  <2>3. PICK ago \in 1 .. h : ago = Ago(e)'
    BY <2>2, AroundTheCircle
  <2> QED BY <2>3
<1> QED BY <1>2, <1>3 DEF EntriesInv

(* The stores of a reset: no sample counts any more, and an entry that it  *)
(* has come past stays silent as long as no loop runs.                     *)
LEMMA DelayReset ==
  IInv /\ ControlInv /\ DelayInv /\ Iq!Reset /\ IInv' => DelayInv'
<1> SUFFICES ASSUME IInv, ControlInv, DelayInv, Iq!Reset, IInv' PROVE DelayInv'
  OBVIOUS
<1>1. /\ UNCHANGED <<kind, len, loop>> /\ delay_since' = 0
      /\ ~midway' /\ clearing # "none" => ~midway
  BY DEF Iq!Reset, Iq!ResetFirIndex, Iq!ResetDelayIndex, Iq!ClearDelayLine,
         Iq!ClearFirQueue, Iq!position, Iq!delayPast, ControlInv
<1>2. PICK h \in Nat : h = Iq!half_len /\ h >= 1 /\ Iq!half_len' = h
  BY <1>1, Sizes DEF IInv, MemoryInv, Iq!half_len
<1>3. DelayIsHalfKernel'
  BY <1>1, <1>2 DEF DelayIsHalfKernel, Iq!DelayIsHalfKernel
<1>4. Kept' = 0
  BY <1>1 DEF Kept
<1>5. clearing # "none" =>
        \A e \in 0 .. h - 1 :
          kind = "float" /\ ~midway /\ LineCleared(e) => delay_line[e] = Iq!Silence
  <2> SUFFICES ASSUME clearing # "none", NEW e \in 0 .. h - 1
               PROVE  kind = "float" /\ ~midway /\ LineCleared(e) =>
                        delay_line[e] = Iq!Silence
    OBVIOUS
  <2>1. Kept = 0
    BY DEF Kept, ControlInv
  <2>2. PICK ago \in 1 .. h : ago = Ago(e)
    BY <1>2, AgoIsPast DEF PlaceInv
  <2>3. ~(Ago(e) <= Kept)
    BY <2>1, <2>2
  <2> QED BY <1>2, <2>3 DEF DelayInv, EntriesInv
<1>6. ASSUME kind = "float", ~midway', NEW e \in 0 .. h - 1, LineCleared(e)'
      PROVE  delay_line'[e] = Iq!Silence
  <2>1. CASE Iq!ResetFirIndex
    BY <1>6, <2>1 DEF Iq!ResetFirIndex, LineCleared
  <2>2. CASE Iq!ResetDelayIndex
    <3>1. Iq!DelayCleared(kind, len) = h
      BY <1>2, <1>6 DEF Iq!DelayCleared, Iq!half_len
    <3> QED BY <1>6, <2>2, <3>1 DEF Iq!ResetDelayIndex, LineCleared
  <2>3. CASE \E k : Iq!ClearDelayLine(k)
    <3>1. PICK k : Iq!ClearDelayLine(k)
      BY <2>3
    <3>2. /\ clearing = "delay_line" /\ DOMAIN delay_line = 0 .. h - 1
          /\ delay_line' = Iq!Cleared(delay_line, Iq!Piece(k))
      BY <1>2, <3>1 DEF Iq!ClearDelayLine, IInv, MemoryInv
    <3>3. CASE e \in Iq!Piece(k)
      BY <3>2, <3>3 DEF Iq!Cleared
    <3>4. CASE e \notin Iq!Piece(k)
      <4>1. delay_line'[e] = delay_line[e]
        BY <3>2, <3>4 DEF Iq!Cleared
      <4>2. e \notin uncleared
        BY <1>6, <3>1, <3>4 DEF Iq!ClearDelayLine, LineCleared
      <4> QED BY <1>1, <1>5, <1>6, <3>2, <4>1, <4>2 DEF LineCleared
    <3> QED BY <3>3, <3>4
  <2>4. CASE \E k : Iq!ClearFirQueue(k)
    <3>1. clearing = "fir_queue" /\ delay_line' = delay_line
      BY <2>4 DEF Iq!ClearFirQueue
    <3> QED BY <1>1, <1>5, <1>6, <3>1 DEF LineCleared
  <2> QED BY <2>1, <2>2, <2>3, <2>4 DEF Iq!Reset
<1>7. EntriesInv'
  BY <1>1, <1>2, <1>4, <1>6, NothingCounts
<1> QED BY <1>3, <1>7 DEF DelayInv

(* The oldest entry leaves; ...                                            *)
LEMMA DelayReadKeeps ==
  IInv /\ ControlInv /\ DelayInv /\ Iq!DelayRead => DelayInv'
<1> SUFFICES ASSUME IInv, ControlInv, DelayInv, Iq!DelayRead PROVE DelayInv'
  OBVIOUS
<1>1. /\ loop = "delay" /\ loop' = "put"
      /\ UNCHANGED <<kind, len, delay_line, index, clearing, uncleared, midway>>
      /\ delay_out' = delay_line[index]
      /\ delay_count' = delay_count + 1
      /\ delay_since' = IF clearing = "none" THEN delay_since + 1 ELSE 0
  BY DEF Iq!DelayRead, Iq!Since, Iq!memory, Iq!reset
<1>2. /\ delay_count \in Nat /\ delay_since \in Nat
      /\ kind \in {"int16", "float"}
      /\ clearing # "none" => delay_since = 0
  BY DEF ControlInv
<1>3. PICK h \in Nat : h = Iq!half_len /\ h >= 1 /\ Iq!half_len' = h
  BY <1>1, Sizes DEF IInv, MemoryInv, Iq!half_len
<1>4. Place' = Place /\ Stored' = Stored /\ Kept' = Kept
  BY <1>1, <1>2 DEF Place, Stored, Kept
<1>5. EntriesInv'
  BY <1>1, <1>4, EntriesKept DEF DelayInv
<1>6. DelayIsHalfKernel'
  <2>1. SUFFICES
          ASSUME clearing = "none",
                 delay_since + 1 > (IF kind = "int16" \/ midway THEN h ELSE 0)
          PROVE  delay_out' = Iq!Heard(delay_count + 1, delay_since + 1, h)
    <3>1. Iq!Heard(delay_count, delay_since, Iq!half_len)'
            = Iq!Heard(delay_count', delay_since', h)
      BY <1>3 DEF Iq!Heard
    <3>2. clearing # "none" =>
            ~(delay_since' > (IF kind' = "int16" \/ midway' THEN h ELSE 0))
      BY <1>1, <1>2
    <3> QED BY <1>1, <1>3, <3>1, <3>2 DEF DelayIsHalfKernel, Iq!DelayIsHalfKernel
  <2>2. index \in 0 .. h - 1 /\ Ago(index) = h /\ Kept = delay_since
        /\ Stored = delay_count
    BY <1>1, <1>3 DEF Ago, Place, Kept, Stored, IInv, IndexInv
  <2>3. IF h <= delay_since
          THEN delay_out' = Sent(delay_count + 1 - h)
          ELSE kind = "float" /\ ~midway => delay_out' = Iq!Silence
    BY <1>1, <1>3, <2>1, <2>2 DEF DelayInv, EntriesInv, LineCleared
  <2>4. Iq!Heard(delay_count + 1, delay_since + 1, h)
          = IF h <= delay_since THEN Sent(delay_count + 1 - h) ELSE Iq!Silence
    BY <1>2, <1>3 DEF Iq!Heard, Sent
  <2>5. h <= delay_since \/ (kind = "float" /\ ~midway)
    BY <1>2, <2>1
  <2> QED BY <2>3, <2>4, <2>5
<1> QED BY <1>5, <1>6 DEF DelayInv

(* ... the newest takes its place.                                         *)
LEMMA DelayStoreKeeps ==
  IInv /\ ControlInv /\ DelayInv /\ Iq!DelayStore => DelayInv'
<1> SUFFICES ASSUME IInv, ControlInv, DelayInv, Iq!DelayStore PROVE DelayInv'
  OBVIOUS
<1>1. /\ loop = "put" /\ loop' = "delay"
      /\ UNCHANGED <<kind, len, delay_count, delay_since, delay_out, clearing,
                     uncleared, midway>>
      /\ delay_line' = [delay_line EXCEPT ![index] = Iq!Translated(delay_count)]
      /\ index' = IF index + 1 >= Iq!half_len THEN 0 ELSE index + 1
  BY DEF Iq!DelayStore, Iq!delayPast, Iq!reset
<1>2. PICK h \in Nat : h = Iq!half_len /\ h >= 1 /\ Iq!half_len' = h
  BY <1>1, Sizes DEF IInv, MemoryInv, Iq!half_len
<1>3. /\ i \in Nat /\ delay_count \in Nat /\ delay_since \in Nat
      /\ delay_count % 2 = (i + 1) % 2
      /\ index \in 0 .. h - 1 /\ DOMAIN delay_line = 0 .. h - 1
      /\ delay_since = 0 => midway
  BY <1>1, <1>2 DEF ControlInv, IInv, IndexInv, MemoryInv
<1>4. Iq!Translated(delay_count) = Sent(delay_count)
  BY <1>3 DEF Iq!Translated, Sent
<1>5. ASSUME NEW e \in 0 .. h - 1
      PROVE  /\ Ago(e) \in 1 .. h
             /\ e = index => Ago(e)' = 1
             /\ e # index => Ago(e)' = Ago(e) + 1
  BY <1>1, <1>2, <1>3 DEF Ago, Place
<1>6. /\ Stored = delay_count - 1 /\ Stored' = delay_count
      /\ Kept = (IF delay_since > 0 THEN delay_since - 1 ELSE 0)
      /\ Kept' = delay_since
  BY <1>1, <1>3 DEF Stored, Kept
<1>7. ASSUME NEW e \in 0 .. h - 1
      PROVE  IF Ago(e)' <= Kept'
               THEN delay_line'[e] = Sent(Stored' + 1 - Ago(e)')
               ELSE kind' = "float" /\ ~midway' /\ LineCleared(e)' =>
                      delay_line'[e] = Iq!Silence
  <2>1. CASE e = index
    <3>1. delay_line'[e] = Sent(delay_count)
      BY <1>1, <1>3, <1>4, <2>1
    <3>2. Ago(e)' = 1
      BY <1>5, <2>1
    <3>3. Stored' + 1 - Ago(e)' = delay_count
      BY <1>3, <1>6, <3>2
    <3>4. Ago(e)' <= Kept' \/ midway'
      BY <1>1, <1>3, <1>6, <3>2
    <3> QED BY <3>1, <3>3, <3>4
  <2>2. CASE e # index
    <3>1. delay_line'[e] = delay_line[e]
      BY <1>1, <1>3, <2>2
    <3>2. PICK ago \in 1 .. h : ago = Ago(e) /\ Ago(e)' = ago + 1
      BY <1>5, <2>2
    <3>3. IF ago <= Kept THEN delay_line[e] = Sent(Stored + 1 - ago)
          ELSE kind = "float" /\ ~midway /\ LineCleared(e) =>
                 delay_line[e] = Iq!Silence
      BY <1>2, <3>2 DEF DelayInv, EntriesInv
    <3>4. LineCleared(e)' = LineCleared(e)
      BY <1>1 DEF LineCleared
    <3>5. CASE delay_since > 0
      <4>1. /\ Ago(e)' <= Kept' <=> ago <= Kept
            /\ Stored' + 1 - Ago(e)' = Stored + 1 - ago
        BY <1>3, <1>6, <3>2, <3>5
      <4> QED BY <1>1, <3>1, <3>3, <3>4, <4>1
    <3>6. CASE ~(delay_since > 0)
      <4>1. ~(Ago(e)' <= Kept') /\ midway'
        BY <1>1, <1>3, <1>6, <3>2, <3>6
      <4> QED BY <4>1
    <3> QED BY <3>5, <3>6
  <2> QED BY <2>1, <2>2
<1>8. EntriesInv'
  BY <1>2, <1>7 DEF EntriesInv
<1>9. DelayIsHalfKernel'
  BY <1>1 DEF DelayInv, DelayIsHalfKernel, Iq!DelayIsHalfKernel, Iq!Heard,
     Iq!half_len
<1> QED BY <1>8, <1>9 DEF DelayInv

(* The other steps of the loops hand its place over, or are not about it.  *)
LEMMA DelayFilter == IInv /\ ControlInv /\ DelayInv /\ Iq!Filter => DelayInv'
<1> SUFFICES ASSUME IInv, ControlInv, DelayInv, Iq!Filter PROVE DelayInv'
  OBVIOUS
<1>1. CASE Iq!DelayRead
  BY <1>1, DelayReadKeeps
<1>2. CASE Iq!DelayStore
  BY <1>2, DelayStoreKeeps
<1>3. CASE Iq!FirStore \/ Iq!FirSum \/ Iq!FirWrap \/ Iq!FirEnd \/ Iq!DelayEnd
  <2>1. UNCHANGED <<kind, len, delay_line, clearing, uncleared, midway,
                    delay_count, delay_since, delay_out>>
    BY <1>3 DEF Iq!FirStore, Iq!FirSum, Iq!FirWrap, Iq!FirEnd, Iq!DelayEnd,
         Iq!delayPast, Iq!reset, Iq!memory
  <2>2. /\ loop # "put" /\ loop' # "put" /\ Place' = Place
    BY <1>3 DEF Iq!FirStore, Iq!FirSum, Iq!FirWrap, Iq!FirEnd, Iq!DelayEnd, Place,
         Iq!memory
  <2>3. Stored' = Stored /\ Kept' = Kept
    BY <2>1, <2>2 DEF Stored, Kept
  <2>4. EntriesInv'
    BY <2>1, <2>2, <2>3, EntriesKept DEF DelayInv
  <2>5. DelayIsHalfKernel'
    BY <2>1 DEF DelayInv, DelayIsHalfKernel, Iq!DelayIsHalfKernel, Iq!Heard,
       Iq!half_len
  <2> QED BY <2>4, <2>5 DEF DelayInv
<1> QED BY <1>1, <1>2, <1>3 DEF Iq!Filter

(* A block enters the filters; when that is during a reset, no sample      *)
(* counts.                                                                 *)
LEMMA DelayBegins == IInv /\ ControlInv /\ DelayInv /\ Process => DelayInv'
<1> SUFFICES ASSUME IInv, ControlInv, DelayInv, Process PROVE DelayInv'
  OBVIOUS
<1>1. /\ loop = "none" /\ loop' = "fir"
      /\ UNCHANGED <<kind, len, delay_line, delay_index, clearing, uncleared,
                     delay_count, delay_since, delay_out>>
  BY DEF Process, Iq!Begin, Iq!memory, Iq!reset, Iq!delayPast
<1>2. /\ midway => midway'
      /\ clearing = "none" => (midway' <=> midway)
  BY Zenon DEF Process, Iq!Begin
<1>3. Place' = Place /\ Stored' = Stored /\ Kept' = Kept
  BY <1>1 DEF Place, Stored, Kept
<1>4. EntriesInv'
  BY <1>1, <1>2, <1>3, EntriesKept DEF DelayInv
<1>5. PICK h \in Nat : h = Iq!half_len /\ Iq!half_len' = h
  BY <1>1, Sizes DEF IInv, MemoryInv, Iq!half_len
<1>6. CASE clearing = "none"
  <2>1. DelayIsHalfKernel'
    BY <1>1, <1>2, <1>6 DEF DelayInv, DelayIsHalfKernel, Iq!DelayIsHalfKernel,
       Iq!Heard, Iq!half_len
  <2> QED BY <1>4, <2>1 DEF DelayInv
<1>7. CASE clearing # "none"
  <2>1. delay_since' = 0
    BY <1>1, <1>7 DEF ControlInv
  <2>2. DelayIsHalfKernel'
    BY <1>5, <2>1 DEF DelayIsHalfKernel, Iq!DelayIsHalfKernel
  <2> QED BY <1>4, <2>2 DEF DelayInv
<1> QED BY <1>6, <1>7

(* Every step.                                                             *)
LEMMA DelayNext ==
  IInv /\ ControlInv /\ DelayInv /\ [Next]_vars /\ IInv' => DelayInv'
<1> SUFFICES ASSUME IInv, ControlInv, DelayInv, [Next]_vars, IInv'
             PROVE  DelayInv'
  OBVIOUS
<1>1. CASE UNCHANGED iqvars
  <2>1. UNCHANGED <<kind, len, loop, index, delay_line, delay_index, clearing,
                    uncleared, midway, delay_count, delay_since, delay_out>>
    BY <1>1 DEF iqvars
  <2>2. Place' = Place /\ Stored' = Stored /\ Kept' = Kept
    BY <2>1 DEF Place, Stored, Kept
  <2>3. EntriesInv'
    BY <2>1, <2>2, EntriesKept DEF DelayInv
  <2>4. DelayIsHalfKernel'
    BY <2>1 DEF DelayInv, DelayIsHalfKernel, Iq!DelayIsHalfKernel, Iq!Heard,
       Iq!half_len
  <2> QED BY <2>3, <2>4 DEF DelayInv
<1>2. CASE Process
  BY <1>2, DelayBegins
<1>3. CASE FilterStep
  BY <1>3, DelayFilter DEF FilterStep
<1>4. CASE StartRx
  BY <1>4, DelayReset DEF StartRx
<1> QED
  BY <1>1, <1>2, <1>3, <1>4
     DEF Next, ConsumerStep, Processed, SetSampleType, Finished, vars, iqvars

(* What leaves the delay line is the sample of half a kernel ago, for any  *)
(* length of the kernel and of the blocks, with the sign it was given, or  *)
(* silence after a reset; its stores may come between any two accesses of  *)
(* the loops, and then the line must have been filled once since it ended. *)
THEOREM DelayInStep == Spec => []DelayIsHalfKernel
<1>1. Init => IInv /\ BlockInv /\ ControlInv /\ DelayInv
  BY InitInv, BlockInit, ControlInit, DelayInit
<1>2. IInv /\ BlockInv /\ ControlInv /\ DelayInv /\ [Next]_vars
        => (IInv /\ BlockInv /\ ControlInv /\ DelayInv)'
  BY NextInv, BlockNext, ControlNext, DelayNext
<1>3. DelayInv => DelayIsHalfKernel
  BY DEF DelayInv
<1> QED BY <1>1, <1>2, <1>3, PTL DEF Spec

-----------------------------------------------------------------------------
(* Sums as loops compute them.                                             *)

(* Induction over the natural numbers, for a set.                          *)
LEMMA Induction ==
  ASSUME NEW S, 0 \in S, \A n \in Nat : n \in S => n + 1 \in S
  PROVE  \A n \in Nat : n \in S
<1> DEFINE Less == OpToRel(<, Nat)
           Missing == Nat \ S
<1>1. SUFFICES ASSUME Missing # {} PROVE FALSE
  OBVIOUS
<1>2. IsWellFoundedOn(Less, Nat)
  BY NatLessThanWellFounded
<1>3. PICK m \in Missing : \A k \in Missing : ~(<<k, m>> \in Less)
  <2>1. Missing \subseteq Nat
    OBVIOUS
  <2> HIDE DEF Missing, Less
  <2> QED BY <1>1, <1>2, <2>1, WFMin
<1>4. m \in Nat /\ m # 0
  BY <1>3
<1>5. m - 1 \in Nat /\ m - 1 < m /\ (m - 1) + 1 = m
  BY <1>4
<1>6. m - 1 \in S
  BY <1>3, <1>4, <1>5 DEF OpToRel
<1> QED BY <1>3, <1>5, <1>6

(* The values that acc runs through.                                       *)
IsSum(terms, n, acc) ==
  acc = [k \in 0 .. n |-> IF k = 0 THEN 0 ELSE acc[k - 1] + terms[k - 1]]

(* There are such values, ...                                              *)
LEMMA SumExists ==
  ASSUME NEW terms, NEW n \in Nat
  PROVE  \E acc : IsSum(terms, n, acc)
<1> DEFINE S == {k \in Nat : \E acc : IsSum(terms, k, acc)}
<1>1. 0 \in S
  <2>1. IsSum(terms, 0, [k \in 0 .. 0 |-> 0])
    BY DEF IsSum
  <2> QED BY <2>1
<1>2. ASSUME NEW m \in Nat, m \in S PROVE m + 1 \in S
  <2>1. PICK acc : IsSum(terms, m, acc)
    BY <1>2
  <2> DEFINE more == [k \in 0 .. m + 1 |->
                        IF k = m + 1 THEN acc[m] + terms[m] ELSE acc[k]]
  <2>2. ASSUME NEW k \in 0 .. m + 1
        PROVE  more[k] = IF k = 0 THEN 0 ELSE more[k - 1] + terms[k - 1]
    <3>1. CASE k = 0
      <4>1. acc[0] = 0
        BY <2>1 DEF IsSum
      <4> QED BY <3>1, <4>1
    <3>2. CASE k \in 1 .. m
      <4>1. acc[k] = acc[k - 1] + terms[k - 1]
        <5>1. k \in 0 .. m /\ k # 0
          BY <3>2
        <5> QED BY <2>1, <5>1 DEF IsSum
      <4>2. more[k] = acc[k] /\ more[k - 1] = acc[k - 1]
        BY <3>2
      <4> QED BY <3>2, <4>1, <4>2
    <3>3. CASE k = m + 1
      <4>1. k - 1 = m /\ k # 0 /\ more[m] = acc[m] /\ more[k] = acc[m] + terms[m]
        BY <3>3
      <4> QED BY <4>1
    <3> QED BY <3>1, <3>2, <3>3
  <2>3. more = [k \in 0 .. m + 1 |->
                  IF k = 0 THEN 0 ELSE more[k - 1] + terms[k - 1]]
    <3>1. more = [k \in 0 .. m + 1 |-> more[k]]
      OBVIOUS
    <3> HIDE DEF more
    <3> QED BY <2>2, <3>1
  <2>4. IsSum(terms, m + 1, more)
    <3> HIDE DEF more
    <3> QED BY <2>3 DEF IsSum
  <2> HIDE DEF more
  <2> QED BY <2>4
<1>3. \A k \in Nat : k \in S
  <2> HIDE DEF S
  <2> QED BY <1>1, <1>2, Induction
<1> QED BY <1>3

(* ... a longer loop runs through the same ones first, ...                 *)
LEMMA SumUnique ==
  ASSUME NEW terms, NEW n \in Nat, NEW more \in Nat, n <= more,
         NEW a, IsSum(terms, n, a), NEW b, IsSum(terms, more, b)
  PROVE  a[n] = b[n]
<1> DEFINE S == {k \in Nat : k <= n => a[k] = b[k]}
<1>1. 0 \in S
  BY DEF IsSum
<1>2. ASSUME NEW m \in Nat, m \in S PROVE m + 1 \in S
  <2>1. CASE m + 1 <= n
    <3>1. a[m] = b[m]
      BY <1>2, <2>1
    <3>2. m + 1 \in 0 .. n /\ m + 1 \in 0 .. more /\ m + 1 # 0 /\ (m + 1) - 1 = m
      BY <2>1
    <3>3. a[m + 1] = a[m] + terms[m]
      BY <3>2 DEF IsSum
    <3>4. b[m + 1] = b[m] + terms[m]
      BY <3>2 DEF IsSum
    <3> QED BY <3>1, <3>3, <3>4
  <2> QED BY <2>1
<1>3. n \in S
  <2> HIDE DEF S
  <2> QED BY <1>1, <1>2, Induction
<1> QED BY <1>3

(* ... and SumTo() is the last one.                                        *)
LEMMA SumIsLast ==
  ASSUME NEW terms, NEW n \in Nat
  PROVE  \E acc : IsSum(terms, n, acc) /\ Iq!SumTo(terms, n) = acc[n]
<1>1. \E acc : acc = [k \in 0 .. n |->
                        IF k = 0 THEN 0 ELSE acc[k - 1] + terms[k - 1]]
  BY SumExists DEF IsSum
<1> QED BY <1>1 DEF Iq!SumTo, IsSum

(* A sum of nothing, and of one term more.                                 *)
LEMMA SumStep ==
  ASSUME NEW terms, NEW n \in Nat
  PROVE  /\ Iq!SumTo(terms, 0) = 0
         /\ Iq!SumTo(terms, n + 1) = Iq!SumTo(terms, n) + terms[n]
<1>1. Iq!SumTo(terms, 0) = 0
  <2>1. PICK acc : IsSum(terms, 0, acc) /\ Iq!SumTo(terms, 0) = acc[0]
    BY SumIsLast
  <2> QED BY <2>1 DEF IsSum
<1>2. Iq!SumTo(terms, n + 1) = Iq!SumTo(terms, n) + terms[n]
  <2>1. PICK a : IsSum(terms, n, a) /\ Iq!SumTo(terms, n) = a[n]
    BY SumIsLast
  <2>2. n + 1 \in Nat /\ n <= n + 1
    OBVIOUS
  <2>3. PICK b : IsSum(terms, n + 1, b) /\ Iq!SumTo(terms, n + 1) = b[n + 1]
    BY <2>2, SumIsLast
  <2>4. a[n] = b[n]
    BY <2>1, <2>2, <2>3, SumUnique
  <2>5. n + 1 \in 0 .. n + 1 /\ n + 1 # 0 /\ (n + 1) - 1 = n
    OBVIOUS
  <2>6. b[n + 1] = b[n] + terms[n]
    BY <2>3, <2>5 DEF IsSum
  <2> QED BY <2>1, <2>3, <2>4, <2>6
<1> QED BY <1>1, <1>2

(* The same terms have the same sum.                                       *)
LEMMA SumSame ==
  ASSUME NEW f, NEW g, NEW n \in Nat, \A k \in 0 .. n - 1 : f[k] = g[k]
  PROVE  Iq!SumTo(f, n) = Iq!SumTo(g, n)
<1> DEFINE S == {k \in Nat : k <= n => Iq!SumTo(f, k) = Iq!SumTo(g, k)}
<1>1. 0 \in S
  <2>1. Iq!SumTo(f, 0) = 0 /\ Iq!SumTo(g, 0) = 0
    BY SumStep
  <2> QED BY <2>1
<1>2. ASSUME NEW m \in Nat, m \in S PROVE m + 1 \in S
  <2>1. /\ Iq!SumTo(f, m + 1) = Iq!SumTo(f, m) + f[m]
        /\ Iq!SumTo(g, m + 1) = Iq!SumTo(g, m) + g[m]
    BY SumStep
  <2>2. m + 1 <= n => m <= n /\ m \in 0 .. n - 1
    OBVIOUS
  <2> QED BY <1>2, <2>1, <2>2
<1>3. n \in S
  <2> HIDE DEF S
  <2> QED BY <1>1, <1>2, Induction
<1> QED BY <1>3

(* Terms that are numbers have a number as their sum.                      *)
LEMMA SumIsInt ==
  ASSUME NEW f, NEW n \in Nat, \A k \in 0 .. n - 1 : f[k] \in Int
  PROVE  \A k \in 0 .. n : Iq!SumTo(f, k) \in Int
<1> DEFINE S == {k \in Nat : k <= n => Iq!SumTo(f, k) \in Int}
<1>1. 0 \in S
  <2>1. Iq!SumTo(f, 0) = 0
    BY SumStep
  <2> QED BY <2>1
<1>2. ASSUME NEW m \in Nat, m \in S PROVE m + 1 \in S
  <2>1. Iq!SumTo(f, m + 1) = Iq!SumTo(f, m) + f[m]
    BY SumStep
  <2>2. m + 1 <= n => m <= n /\ m \in 0 .. n - 1
    OBVIOUS
  <2> QED BY <1>2, <2>1, <2>2
<1>3. \A k \in Nat : k \in S
  <2> HIDE DEF S
  <2> QED BY <1>1, <1>2, Induction
<1> QED BY <1>3

(* A part of a sum: from a term on, a number of terms.                     *)
LEMMA SumPart ==
  ASSUME NEW f, NEW g, NEW from \in Nat, NEW n \in Nat,
         \A k \in 0 .. from + n - 1 : f[k] \in Int,
         \A k \in 0 .. n - 1 : g[k] = f[from + k]
  PROVE  Iq!SumTo(g, n) = Iq!SumTo(f, from + n) - Iq!SumTo(f, from)
<1> DEFINE S == {k \in Nat : k <= n =>
                   Iq!SumTo(f, from + k) = Iq!SumTo(f, from) + Iq!SumTo(g, k)}
<1>1. \A k \in 0 .. from + n : Iq!SumTo(f, k) \in Int
  <2>1. from + n \in Nat
    OBVIOUS
  <2> QED BY <2>1, SumIsInt
<1>2. \A k \in 0 .. n : Iq!SumTo(g, k) \in Int
  <2>1. \A k \in 0 .. n - 1 : g[k] \in Int
    OBVIOUS
  <2> QED BY <2>1, SumIsInt
<1>3. 0 \in S
  <2>1. Iq!SumTo(g, 0) = 0
    BY SumStep
  <2>2. from + 0 = from /\ from \in 0 .. from + n
    OBVIOUS
  <2>3. Iq!SumTo(f, from) \in Int
    BY <1>1, <2>2
  <2> QED BY <2>1, <2>2, <2>3
<1>4. ASSUME NEW m \in Nat, m \in S PROVE m + 1 \in S
  <2>1. SUFFICES ASSUME m + 1 <= n
                 PROVE  Iq!SumTo(f, from + (m + 1))
                          = Iq!SumTo(f, from) + Iq!SumTo(g, m + 1)
    BY <1>4
  <2>2. from + (m + 1) = (from + m) + 1 /\ from + m \in Nat /\ m \in 0 .. n - 1
    BY <2>1
  <2>3. Iq!SumTo(f, (from + m) + 1) = Iq!SumTo(f, from + m) + f[from + m]
    BY <2>2, SumStep
  <2>4. Iq!SumTo(g, m + 1) = Iq!SumTo(g, m) + g[m]
    BY SumStep
  <2>5. Iq!SumTo(f, from + m) = Iq!SumTo(f, from) + Iq!SumTo(g, m)
    BY <1>4, <2>1
  <2>6. f[from + m] = g[m] /\ g[m] \in Int
    BY <2>2
  <2>7. Iq!SumTo(f, from) \in Int /\ Iq!SumTo(g, m) \in Int
    BY <1>1, <1>2, <2>2
  <2> QED BY <2>2, <2>3, <2>4, <2>5, <2>6, <2>7
<1>5. n \in S
  <2> HIDE DEF S
  <2> QED BY <1>3, <1>4, Induction
<1>6. Iq!SumTo(f, from) \in Int /\ Iq!SumTo(g, n) \in Int
  BY <1>1, <1>2
<1> QED BY <1>5, <1>6

(* The terms of both ends, taken together.                                 *)
LEMMA SumFolded ==
  ASSUME NEW f, NEW g, NEW n \in Nat,
         \A k \in 0 .. 2 * n - 1 : f[k] \in Int,
         \A k \in 0 .. n - 1 : g[k] = f[k] + f[2 * n - 1 - k]
  PROVE  Iq!SumTo(g, n) = Iq!SumTo(f, 2 * n)
<1> DEFINE S == {k \in Nat : k <= n =>
                   Iq!SumTo(g, k) + Iq!SumTo(f, 2 * n - k)
                     = Iq!SumTo(f, k) + Iq!SumTo(f, 2 * n)}
<1>1. \A k \in 0 .. 2 * n : Iq!SumTo(f, k) \in Int
  <2>1. 2 * n \in Nat
    OBVIOUS
  <2> QED BY <2>1, SumIsInt
<1>2. \A k \in 0 .. n : Iq!SumTo(g, k) \in Int
  <2>1. \A k \in 0 .. n - 1 : g[k] \in Int
    OBVIOUS
  <2> QED BY <2>1, SumIsInt
<1>3. 0 \in S
  <2>1. Iq!SumTo(g, 0) = 0 /\ Iq!SumTo(f, 0) = 0
    BY SumStep
  <2>2. 2 * n - 0 = 2 * n
    OBVIOUS
  <2> QED BY <2>1, <2>2
<1>4. ASSUME NEW m \in Nat, m \in S PROVE m + 1 \in S
  <2>1. SUFFICES ASSUME m + 1 <= n
                 PROVE  Iq!SumTo(g, m + 1) + Iq!SumTo(f, 2 * n - (m + 1))
                          = Iq!SumTo(f, m + 1) + Iq!SumTo(f, 2 * n)
    BY <1>4
  <2>2. PICK e \in Nat : e = 2 * n - (m + 1)
    BY <2>1
  <2>3. 2 * n - m = e + 1 /\ 2 * n - 1 - m = e /\ m \in 0 .. n - 1
    BY <2>1, <2>2
  <2>4. /\ Iq!SumTo(g, m + 1) = Iq!SumTo(g, m) + g[m]
        /\ Iq!SumTo(f, m + 1) = Iq!SumTo(f, m) + f[m]
        /\ Iq!SumTo(f, e + 1) = Iq!SumTo(f, e) + f[e]
    BY SumStep
  <2>5. g[m] = f[m] + f[e]
    BY <2>3
  <2>6. Iq!SumTo(g, m) + Iq!SumTo(f, e + 1) = Iq!SumTo(f, m) + Iq!SumTo(f, 2 * n)
    BY <1>4, <2>1, <2>3
  <2>7. /\ f[m] \in Int /\ f[e] \in Int
        /\ Iq!SumTo(g, m) \in Int /\ Iq!SumTo(f, m) \in Int
        /\ Iq!SumTo(f, e) \in Int /\ Iq!SumTo(f, 2 * n) \in Int
    BY <1>1, <1>2, <2>1, <2>2
  <2> QED BY <2>2, <2>4, <2>5, <2>6, <2>7
<1>5. n \in S
  <2> HIDE DEF S
  <2> QED BY <1>3, <1>4, Induction
<1>6. /\ 2 * n - n = n /\ Iq!SumTo(g, n) \in Int /\ Iq!SumTo(f, n) \in Int
      /\ Iq!SumTo(f, 2 * n) \in Int
  BY <1>1, <1>2
<1> QED BY <1>5, <1>6

-----------------------------------------------------------------------------
(* The FIR.                                                                *)

(* Where the latest sample is in the queue: at the index while it is       *)
(* summed, behind it when the index has moved on, and where it was when    *)
(* the index has moved to the other end.  A loop has a copy of the index.  *)
Latest == CASE loop = "sum"  -> index
            [] loop = "wrap" -> 0
            [] loop = "fir"  -> index + 1
            [] OTHER         -> fir_index + 1

(* There are the latest samples, and silence from before the reset, when   *)
(* that has ended and no loop ran during it.                               *)
Behind(queue, front, ago, count, since) ==
  IF ago < since THEN queue[front + ago] = Sent(count - ago)
  ELSE midway \/ clearing # "none" \/ queue[front + ago] = Iq!Silence

(* As many of them as the kernel needs, for this sum or besides the next   *)
(* sample.                                                                 *)
WindowInv ==
  /\ \A ago \in 0 .. len - 2 :
       Behind(fir_queue, Latest, ago, fir_count, fir_since)
  /\ loop = "sum" => Behind(fir_queue, Latest, len - 1, fir_count, fir_since)
  /\ loop = "wrap" => index = Iq!WrapIndex

(* A reset during which no loop has run is clearing the queue at its       *)
(* index, which is 0.                                                      *)
ClearingInv ==
  clearing # "none" /\ ~midway =>
    /\ fir_index = 0
    /\ clearing = "fir_queue" =>
         \A e \in 0 .. len - 1 : e \in uncleared \/ fir_queue[e] = Iq!Silence

FirInv == WindowInv /\ ClearingInv /\ FirIsConvolution

(* A converter is one of Kernels.                                          *)
KernelInv ==
  /\ len % 2 = 0
  /\ \A j \in 0 .. Iq!half_len - 1 : Taps[j] \in Int

(* The number of taps is even, and the kernel is symmetric.                *)
LEMMA TapsAreInt ==
  ASSUME MemoryInv, KernelInv
  PROVE  /\ len = 2 * Iq!half_len
         /\ \A j \in 0 .. len - 1 :
              /\ Iq!Tap(j) \in Int
              /\ Iq!Tap(len - 1 - j) = Iq!Tap(j)
<1>1. PICK h \in Nat : h = Iq!half_len /\ len = 2 * h /\ h >= 1
  BY DEF MemoryInv, KernelInv, Iq!half_len
<1>2. \A j \in 0 .. h - 1 : Taps[j] \in Int
  BY <1>1 DEF KernelInv
<1>3. ASSUME NEW j \in 0 .. len - 1
      PROVE  Iq!Tap(j) \in Int /\ Iq!Tap(len - 1 - j) = Iq!Tap(j)
  <2>1. CASE j < h
    <3>1. j \in 0 .. h - 1 /\ ~(len - 1 - j < h) /\ len - 1 - (len - 1 - j) = j
      BY <1>1, <2>1
    <3> QED BY <1>1, <1>2, <2>1, <3>1 DEF Iq!Tap
  <2>2. CASE ~(j < h)
    <3>1. len - 1 - j \in 0 .. h - 1 /\ len - 1 - j < h
      BY <1>1, <2>2
    <3> QED BY <1>1, <1>2, <2>2, <3>1 DEF Iq!Tap
  <2> QED BY <2>1, <2>2
<1> QED BY <1>1, <1>3

(* The loops that fold the kernel, and those that take eight taps, then    *)
(* four, then two, compute the sum that goes straight through it.          *)
LEMMA LoopsAgree ==
  ASSUME MemoryInv, KernelInv, NEW queue, NEW at \in Nat,
         \A j \in 0 .. len - 1 : queue[at + j] \in Int
  PROVE  Iq!FirInterleaved(queue, at)
           = Iq!SumTo([j \in 0 .. len - 1 |-> Iq!Tap(j) * queue[at + j]], len)
<1> DEFINE f == [j \in 0 .. len - 1 |-> Iq!Tap(j) * queue[at + j]]
<1>1. PICK n \in Nat : n = Iq!half_len /\ len = 2 * n
  BY TapsAreInt DEF MemoryInv, Iq!half_len
<1>2. \A k \in 0 .. len - 1 : f[k] \in Int
  BY TapsAreInt
<1>3. Iq!Folded(queue, at) = Iq!SumTo(f, len)
  <2> DEFINE g == [j \in 0 .. n - 1 |->
                     Iq!Tap(j) * (queue[at + j] + queue[at + len - 1 - j])]
  <2>1. ASSUME NEW k \in 0 .. n - 1 PROVE g[k] = f[k] + f[2 * n - 1 - k]
    <3>1. k \in 0 .. len - 1 /\ len - 1 - k \in 0 .. len - 1
          /\ 2 * n - 1 - k = len - 1 - k /\ at + len - 1 - k = at + (len - 1 - k)
      BY <1>1
    <3>2. PICK t \in Int : t = Iq!Tap(k) /\ Iq!Tap(len - 1 - k) = t
      BY <3>1, TapsAreInt
    <3>3. PICK a \in Int : a = queue[at + k]
      BY <3>1
    <3>4. PICK b \in Int : b = queue[at + (len - 1 - k)]
      BY <3>1
    <3>5. t * (a + b) = t * a + t * b
      OBVIOUS
    <3>6. f[k] = t * a /\ f[len - 1 - k] = t * b
      BY <3>1, <3>2, <3>3, <3>4
    <3>7. g[k] = t * (a + b)
      BY <3>1, <3>2, <3>3, <3>4
    <3> QED BY <3>1, <3>5, <3>6, <3>7
  <2>2. Iq!SumTo(g, n) = Iq!SumTo(f, 2 * n)
    <3>1. \A k \in 0 .. 2 * n - 1 : f[k] \in Int
      BY <1>1, <1>2
    <3> HIDE DEF f, g
    <3> QED BY <2>1, <3>1, SumFolded
  <2>3. Iq!Folded(queue, at) = Iq!SumTo(g, n)
    BY <1>1 DEF Iq!Folded
  <2> QED BY <1>1, <2>2, <2>3
<1>4. Iq!Eights(queue, at) = Iq!SumTo(f, len)
  <2> DEFINE it == 8 * (len \div 8)
             fours == 4 * ((len % 8) \div 4)
             twos == 2 * ((len % 4) \div 2)
             part(from, m) == [j \in 0 .. m - 1 |->
                                 Iq!Tap(from + j) * queue[at + from + j]]
  <2>1. it \in Nat /\ fours \in Nat /\ twos \in Nat /\ it + fours + twos = len
    BY <1>1
  <2>2. ASSUME NEW from \in Nat, NEW m \in Nat, from + m <= len
        PROVE  Iq!SumTo(part(from, m), m)
                 = Iq!SumTo(f, from + m) - Iq!SumTo(f, from)
    <3>1. \A k \in 0 .. from + m - 1 : f[k] \in Int
      BY <1>1, <1>2, <2>2
    <3>2. ASSUME NEW k \in 0 .. m - 1
          PROVE  part(from, m)[k] = f[from + k]
      <4>1. from + k \in 0 .. len - 1 /\ at + from + k = at + (from + k)
        BY <1>1, <2>2
      <4> QED BY <4>1
    <3> DEFINE g == part(from, m)
    <3>3. \A k \in 0 .. m - 1 : g[k] = f[from + k]
      BY <3>2
    <3>4. Iq!SumTo(g, m) = Iq!SumTo(f, from + m) - Iq!SumTo(f, from)
      <4> HIDE DEF f, g
      <4> QED BY <3>1, <3>3, SumPart
    <3> QED BY <3>4
  <2>3. \A k \in 0 .. len : Iq!SumTo(f, k) \in Int
    <3>1. len \in Nat
      BY <1>1
    <3> HIDE DEF f
    <3> QED BY <1>2, <3>1, SumIsInt
  <2>4. Iq!SumTo(part(0, it), it) = Iq!SumTo(f, it) - Iq!SumTo(f, 0)
    <3>1. 0 + it = it /\ it <= len
      BY <1>1, <2>1
    <3> HIDE DEF f, part, it
    <3> QED BY <2>1, <2>2, <3>1
  <2>5. Iq!SumTo(part(it, fours), fours)
          = Iq!SumTo(f, it + fours) - Iq!SumTo(f, it)
    <3>1. it + fours <= len
      BY <1>1, <2>1
    <3> HIDE DEF f, part, it, fours
    <3> QED BY <2>1, <2>2, <3>1
  <2>6. Iq!SumTo(part(it + fours, twos), twos)
          = Iq!SumTo(f, len) - Iq!SumTo(f, it + fours)
    <3>1. it + fours \in Nat /\ it + fours + twos <= len
      BY <1>1, <2>1
    <3> HIDE DEF f, part, it, fours, twos
    <3> QED BY <2>1, <2>2, <3>1
  <2>7. Iq!SumTo(f, 0) = 0
    <3> HIDE DEF f
    <3> QED BY SumStep
  <2>8. /\ Iq!SumTo(f, it) \in Int /\ Iq!SumTo(f, it + fours) \in Int
        /\ Iq!SumTo(f, len) \in Int
    <3>1. it \in 0 .. len /\ it + fours \in 0 .. len /\ len \in 0 .. len
      BY <1>1, <2>1
    <3> HIDE DEF f, it, fours
    <3> QED BY <2>3, <3>1
  <2>9. Iq!Eights(queue, at)
          = Iq!SumTo(part(0, it), it) + Iq!SumTo(part(it, fours), fours)
              + Iq!SumTo(part(it + fours, twos), twos)
    BY DEF Iq!Eights
  <2> HIDE DEF f, part, it, fours, twos
  <2> QED BY <2>4, <2>5, <2>6, <2>7, <2>8, <2>9
<1>5. Iq!Straight(queue, at) = Iq!SumTo(f, len)
  BY DEF Iq!Straight
<1> HIDE DEF f
<1>6. Iq!FirInterleaved(queue, at) = Iq!SumTo(f, len)
  BY <1>3, <1>4, <1>5 DEF Iq!FirInterleaved
<1> QED BY <1>6 DEF f

(* What Heard() says of a sample that is in the queue.                     *)
LEMMA HeardIsSent ==
  ASSUME NEW count \in Nat, NEW since \in Nat, NEW ago \in Nat
  PROVE  Iq!Heard(count, since, ago)
           = IF ago < since THEN Sent(count - ago) ELSE Iq!Silence
<1>1. CASE ago < since
  BY <1>1 DEF Iq!Heard, Sent
<1>2. CASE ~(ago < since)
  BY <1>2 DEF Iq!Heard
<1> QED BY <1>1, <1>2

(* The convolution of the kernel with the latest samples.                  *)
Convolution(count, since) ==
  Iq!SumTo([j \in 0 .. len - 1 |-> Iq!Tap(j) * Iq!Heard(count, since, j)], len)

(* With the whole window in the queue the loop computes the convolution.   *)
LEMMA WindowGivesConvolution ==
  ASSUME MemoryInv, KernelInv, clearing = "none",
         NEW queue, NEW at \in Nat, NEW count \in Nat, NEW since \in Nat,
         since > (IF midway THEN len - 1 ELSE 0),
         \A ago \in 0 .. len - 1 : Behind(queue, at, ago, count, since)
  PROVE  Iq!FirInterleaved(queue, at) = Convolution(count, since)
<1>1. ASSUME NEW ago \in 0 .. len - 1
      PROVE  queue[at + ago] = Iq!Heard(count, since, ago)
  <2>1. Behind(queue, at, ago, count, since)
    OBVIOUS
  <2>2. ago \in Nat /\ (midway => ago < since)
    BY DEF MemoryInv
  <2> QED BY <2>1, <2>2, HeardIsSent DEF Behind
<1>2. \A j \in 0 .. len - 1 : queue[at + j] \in Int
  <2>1. ASSUME NEW j \in 0 .. len - 1
        PROVE  Iq!Heard(count, since, j) \in Int
    BY DEF MemoryInv, Iq!Heard, Iq!Silence
  <2> QED BY <1>1, <2>1
<1>3. Iq!FirInterleaved(queue, at)
        = Iq!SumTo([j \in 0 .. len - 1 |-> Iq!Tap(j) * queue[at + j]], len)
  BY <1>2, LoopsAgree
<1>4. [j \in 0 .. len - 1 |-> Iq!Tap(j) * queue[at + j]]
        = [j \in 0 .. len - 1 |-> Iq!Tap(j) * Iq!Heard(count, since, j)]
  BY <1>1
<1> QED BY <1>3, <1>4 DEF Convolution

(* The part of the queue that a reset clears holds the kernel.             *)
LEMMA QueueClears ==
  ASSUME len \in Nat, len >= 4, NEW e \in 0 .. len - 1
  PROVE  /\ e \in 0 .. Iq!QueueCleared(kind, len) - 1
         /\ e \in 0 .. len * SIZE_FACTOR - 1
<1>1. PICK half \in Nat : SIZE_FACTOR = 2 * half /\ half >= 1
  <2>1. SIZE_FACTOR \in Nat /\ SIZE_FACTOR >= 2 /\ SIZE_FACTOR % 2 = 0
    BY ConvertersAssumption DEF Iq!ConverterAssumption
  <2>2. SIZE_FACTOR = 2 * (SIZE_FACTOR \div 2) /\ SIZE_FACTOR \div 2 \in Nat
    BY <2>1
  <2> QED BY <2>1, <2>2
<1>2. PICK entries \in Nat : entries = len * half /\ entries >= len
  <2>1. len * half \in Nat /\ len * 1 <= len * half
    BY <1>1
  <2> QED BY <2>1
<1>3. len * SIZE_FACTOR = 2 * entries
  BY <1>1, <1>2
<1> QED BY <1>2, <1>3 DEF Iq!QueueCleared

(* Fresh memory, partly cleared.                                           *)
LEMMA FirInit == Init => KernelInv /\ FirInv
<1> SUFFICES ASSUME Init PROVE KernelInv /\ FirInv
  OBVIOUS
<1>1. PICK c \in Kernels : kind = c[1] /\ len = c[2]
  BY DEF Init, Iq!Init
<1>2. /\ len \in Nat /\ len >= 4 /\ len % 2 = 0
      /\ \A j \in 0 .. len \div 2 - 1 : Taps[j] \in Int
  BY <1>1, ConvertersAssumption DEF Iq!ConverterAssumption
<1>3. /\ loop = "none" /\ clearing = "none" /\ fir_index = 0 /\ fir_since = 0
      /\ fir_queue = Iq!Cleared([e \in 0 .. len * SIZE_FACTOR - 1 |-> Iq!Garbage],
                                0 .. Iq!QueueCleared(kind, len) - 1)
  BY DEF Init, Iq!Init
<1>4. KernelInv
  BY <1>2 DEF KernelInv, Iq!half_len
<1>5. ASSUME NEW e \in 0 .. len - 1 PROVE fir_queue[e] = Iq!Silence
  BY <1>2, <1>3, QueueClears DEF Iq!Cleared
<1>6. WindowInv
  <2>1. ASSUME NEW ago \in 0 .. len - 2
        PROVE  Behind(fir_queue, Latest, ago, fir_count, fir_since)
    <3>1. Latest = 1 /\ ~(ago < fir_since) /\ 1 + ago \in 0 .. len - 1
      BY <1>2, <1>3 DEF Latest
    <3> QED BY <1>5, <3>1 DEF Behind
  <2> QED BY <1>3, <2>1 DEF WindowInv
<1>7. ClearingInv /\ FirIsConvolution
  BY <1>2, <1>3 DEF ClearingInv, FirIsConvolution, Iq!FirIsConvolution
<1> QED BY <1>4, <1>6, <1>7 DEF FirInv

(* Steps that are not about the queue, and those that hand its index over. *)
LEMMA WindowKept ==
  ASSUME MemoryInv, KernelInv, FirInv, fir_since \in Nat, len' = len,
         fir_queue' = fir_queue, Latest' = Latest, fir_count' = fir_count,
         fir_since' = fir_since, fir_out' = fir_out, clearing' = clearing,
         loop # "sum", loop' \notin {"sum", "wrap"}, midway => midway',
         ClearingInv'
  PROVE  KernelInv' /\ FirInv'
<1>1. KernelInv'
  BY DEF KernelInv, Iq!half_len
<1>2. WindowInv'
  BY DEF FirInv, WindowInv, Behind
<1>3. FirIsConvolution'
  <2>1. fir_since > (IF midway' THEN len - 1 ELSE 0) =>
          fir_since > (IF midway THEN len - 1 ELSE 0)
    BY DEF MemoryInv
  <2> QED
    BY <2>1 DEF FirInv, FirIsConvolution, Iq!FirIsConvolution, Iq!Heard, Iq!Tap,
       Iq!half_len, Iq!SumTo
<1> QED BY <1>1, <1>2, <1>3 DEF FirInv

(* The stores of a reset: no sample counts any more, and in the end there  *)
(* is silence behind the index, if no loop runs meanwhile.                 *)
LEMMA FirReset ==
  IInv /\ ControlInv /\ KernelInv /\ FirInv /\ Iq!Reset => KernelInv' /\ FirInv'
<1> SUFFICES ASSUME IInv, ControlInv, KernelInv, FirInv, Iq!Reset
             PROVE  KernelInv' /\ FirInv'
  OBVIOUS
<1>1. /\ UNCHANGED <<kind, len, loop, index>> /\ fir_since' = 0
      /\ clearing # "none" => fir_since = 0 /\ (midway' <=> midway)
  BY DEF Iq!Reset, Iq!ResetFirIndex, Iq!ResetDelayIndex, Iq!ClearDelayLine,
         Iq!ClearFirQueue, Iq!position, Iq!firPast, ControlInv
<1>2. /\ len \in Nat /\ len >= 4
      /\ DOMAIN fir_queue = 0 .. len * SIZE_FACTOR - 1
      /\ Iq!WrapIndex' = Iq!WrapIndex
  BY <1>1 DEF IInv, MemoryInv, Iq!WrapIndex
<1>3. KernelInv'
  BY <1>1 DEF KernelInv, Iq!half_len
<1>4. FirIsConvolution'
  BY <1>1, <1>2 DEF FirIsConvolution, Iq!FirIsConvolution
<1>5. loop = "wrap" => index = Iq!WrapIndex
  BY DEF FirInv, WindowInv
<1>6. CASE \E k : Iq!ClearFirQueue(k)
  <2>1. PICK k : Iq!ClearFirQueue(k)
    BY <1>6
  <2>2. /\ clearing = "fir_queue" /\ fir_index' = fir_index
        /\ fir_queue' = Iq!Cleared(fir_queue, Iq!Piece(k))
        /\ uncleared' = uncleared \ Iq!Piece(k)
        /\ clearing' = IF uncleared = Iq!Piece(k) THEN "none" ELSE clearing
    BY <2>1 DEF Iq!ClearFirQueue
  <2>3. ASSUME ~midway, NEW e \in 0 .. len - 1
        PROVE  e \in uncleared' \/ fir_queue'[e] = Iq!Silence
    <3>1. e \in DOMAIN fir_queue
      BY <1>2, QueueClears
    <3>2. e \in uncleared \/ fir_queue[e] = Iq!Silence
      BY <2>2, <2>3 DEF FirInv, ClearingInv
    <3> QED BY <2>2, <3>1, <3>2 DEF Iq!Cleared
  <2>4. ~midway => fir_index = 0 /\ loop = "none"
    BY <2>2 DEF FirInv, ClearingInv, ControlInv
  <2>5. ClearingInv'
    BY <1>1, <2>2, <2>3, <2>4 DEF ClearingInv
  <2>6. ASSUME ~midway, clearing' = "none", NEW ago \in 0 .. len - 2
        PROVE  fir_queue'[Latest' + ago] = Iq!Silence
    <3>1. Latest' = 1
      BY <1>1, <2>2, <2>4, <2>6 DEF Latest
    <3>2. 1 + ago \in 0 .. len - 1
      BY <1>2
    <3>3. uncleared' = {}
      BY <2>2, <2>6
    <3> QED BY <2>3, <2>6, <3>1, <3>2, <3>3
  <2>7. ASSUME NEW ago \in 0 .. len - 2
        PROVE  Behind(fir_queue, Latest, ago, fir_count, fir_since)'
    BY <1>1, <1>2, <2>2, <2>6 DEF Behind
  <2>8. loop = "sum" => midway'
    BY <1>1, <2>2, <2>4
  <2>9. WindowInv'
    BY <1>1, <1>2, <1>5, <2>7, <2>8 DEF WindowInv, Behind
  <2> QED BY <1>3, <1>4, <2>5, <2>9 DEF FirInv
<1>7. CASE ~\E k : Iq!ClearFirQueue(k)
  <2>1. clearing' # "none"
    BY <1>7 DEF Iq!Reset, Iq!ResetFirIndex, Iq!ResetDelayIndex,
       Iq!ClearDelayLine
  <2>2. WindowInv'
    BY <1>1, <1>2, <1>5, <2>1 DEF WindowInv, Behind
  <2> SUFFICES ClearingInv'
    BY <1>3, <1>4, <2>2 DEF FirInv
  <2>3. CASE Iq!ResetFirIndex
    BY <2>3 DEF Iq!ResetFirIndex, ClearingInv
  <2>4. CASE Iq!ResetDelayIndex
    BY <1>1, <2>4 DEF Iq!ResetDelayIndex, ClearingInv, FirInv
  <2>5. CASE \E k : Iq!ClearDelayLine(k)
    <3>1. PICK k : Iq!ClearDelayLine(k)
      BY <2>5
    <3>2. /\ clearing = "delay_line" /\ fir_index' = fir_index
          /\ \/ clearing' = "delay_line"
             \/ uncleared' = 0 .. Iq!QueueCleared(kind, len) - 1
      BY <3>1 DEF Iq!ClearDelayLine
    <3>3. \A e \in 0 .. len - 1 : e \in 0 .. Iq!QueueCleared(kind, len) - 1
      BY <1>2, QueueClears
    <3>4. ~midway => fir_index = 0
      BY <3>2 DEF FirInv, ClearingInv
    <3> QED BY <1>1, <3>2, <3>3, <3>4 DEF ClearingInv
  <2> QED BY <1>7, <2>3, <2>4, <2>5 DEF Iq!Reset
<1> QED BY <1>6, <1>7

(* The newest sample goes to the front, ...                                *)
LEMMA FirStoreKeeps ==
  IInv /\ ControlInv /\ KernelInv /\ FirInv /\ Iq!FirStore => KernelInv' /\ FirInv'
<1> SUFFICES ASSUME IInv, ControlInv, KernelInv, FirInv, Iq!FirStore
             PROVE  KernelInv' /\ FirInv'
  OBVIOUS
<1>1. /\ loop = "fir" /\ loop' = "sum"
      /\ UNCHANGED <<kind, len, index, midway, clearing>>
      /\ fir_queue' = [fir_queue EXCEPT ![index] = Iq!Translated(fir_count + 1)]
      /\ fir_count' = fir_count + 1
      /\ fir_since' = IF clearing = "none" THEN fir_since + 1 ELSE 0
  BY DEF Iq!FirStore, Iq!Since, Iq!reset
<1>2. /\ len \in Nat /\ len >= 4 /\ index \in 0 .. Iq!WrapIndex
      /\ Iq!WrapIndex \in Nat
      /\ DOMAIN fir_queue = 0 .. Iq!WrapIndex + len - 1
  <2>1. len \in Nat /\ len >= 4 /\ index \in 0 .. Iq!WrapIndex
        /\ DOMAIN fir_queue = 0 .. len * SIZE_FACTOR - 1
    BY <1>1 DEF IInv, IndexInv, MemoryInv
  <2>2. Iq!WrapIndex \in Nat /\ Iq!WrapIndex + len = len * SIZE_FACTOR
    BY <2>1, Sizes
  <2> QED BY <2>1, <2>2
<1>3. /\ fir_count \in Nat /\ fir_since \in Nat
      /\ i \in Nat /\ fir_count % 2 = i % 2
      /\ clearing # "none" => midway
  BY <1>1 DEF ControlInv
<1>4. Iq!Translated(fir_count + 1) = Sent(fir_count + 1)
  BY <1>3 DEF Iq!Translated, Sent
<1>5. Latest = index + 1 /\ Latest' = index
  BY <1>1 DEF Latest
<1>6. ASSUME NEW ago \in 0 .. len - 1
      PROVE  Behind(fir_queue, Latest, ago, fir_count, fir_since)'
  <2>1. CASE clearing # "none"
    BY <1>1, <2>1 DEF Behind
  <2>2. CASE clearing = "none" /\ ago = 0
    <3>1. fir_queue'[index + ago] = Sent(fir_count + 1)
      BY <1>1, <1>2, <1>4, <2>2
    <3>2. ago < fir_since' /\ fir_count' - ago = fir_count + 1
      BY <1>1, <1>3, <2>2
    <3> QED BY <1>5, <3>1, <3>2 DEF Behind
  <2>3. CASE clearing = "none" /\ ago # 0
    <3>1. PICK before \in 0 .. len - 2 : ago = before + 1
      <4>1. ago - 1 \in 0 .. len - 2 /\ ago = (ago - 1) + 1
        BY <1>2, <2>3
      <4> QED BY <4>1
    <3>2. fir_queue'[index + ago] = fir_queue[index + 1 + before]
      <4>1. index + ago = index + 1 + before /\ index + ago # index
            /\ index + ago \in 0 .. Iq!WrapIndex + len - 1
        BY <1>2, <3>1
      <4> QED BY <1>1, <1>2, <4>1
    <3>3. /\ ago < fir_since' <=> before < fir_since
          /\ fir_count' - ago = fir_count - before
      BY <1>1, <1>3, <2>3, <3>1
    <3>4. Behind(fir_queue, index + 1, before, fir_count, fir_since)
      BY <1>5 DEF FirInv, WindowInv
    <3> QED BY <1>1, <1>5, <3>2, <3>3, <3>4 DEF Behind
  <2> QED BY <2>1, <2>2, <2>3
<1>7. WindowInv'
  <2>1. ASSUME NEW ago \in 0 .. len - 2
        PROVE  Behind(fir_queue, Latest, ago, fir_count, fir_since)'
    <3>1. ago \in 0 .. len - 1
      BY <1>2
    <3> QED BY <1>6, <3>1
  <2>2. Behind(fir_queue, Latest, len - 1, fir_count, fir_since)'
    <3>1. PICK ago \in 0 .. len - 1 : ago = len - 1 /\ ago = len' - 1
      BY <1>1, <1>2
    <3>2. Behind(fir_queue, Latest, ago, fir_count, fir_since)'
      BY <1>6
    <3> QED BY <3>1, <3>2 DEF Behind
  <2> QED BY <1>1, <2>1, <2>2 DEF WindowInv
<1>8. KernelInv'
  BY <1>1 DEF KernelInv, Iq!half_len
<1>9. ClearingInv' /\ FirIsConvolution'
  BY <1>1, <1>3 DEF ClearingInv, FirIsConvolution, Iq!FirIsConvolution
<1> QED BY <1>7, <1>8, <1>9 DEF FirInv

(* ... the sum over the whole window is the convolution, ...               *)
LEMMA FirSumKeeps ==
  IInv /\ ControlInv /\ KernelInv /\ FirInv /\ Iq!FirSum => KernelInv' /\ FirInv'
<1> SUFFICES ASSUME IInv, ControlInv, KernelInv, FirInv, Iq!FirSum
             PROVE  KernelInv' /\ FirInv'
  OBVIOUS
<1>1. /\ loop = "sum" /\ loop' = IF index = 0 THEN "wrap" ELSE "fir"
      /\ UNCHANGED <<kind, len, fir_queue, fir_count, fir_since, midway, clearing>>
      /\ fir_out' = Iq!FirInterleaved(fir_queue, index)
      /\ index' = IF index = 0 THEN Iq!WrapIndex ELSE index - 1
  BY DEF Iq!FirSum, Iq!memory, Iq!reset
<1>2. /\ len \in Nat /\ len >= 4 /\ index \in Nat /\ MemoryInv
      /\ fir_count \in Nat /\ fir_since \in Nat
      /\ clearing # "none" => midway /\ fir_since = 0
  BY <1>1 DEF IInv, IndexInv, MemoryInv, ControlInv
<1>3. Latest = index /\ Latest' = index
  BY <1>1, <1>2 DEF Latest
<1>4. ASSUME NEW ago \in 0 .. len - 1
      PROVE  Behind(fir_queue, index, ago, fir_count, fir_since)
  BY <1>1, <1>2, <1>3 DEF FirInv, WindowInv
<1>5. WindowInv'
  <2>1. ASSUME NEW ago \in 0 .. len - 2
        PROVE  Behind(fir_queue, Latest, ago, fir_count, fir_since)'
    <3>1. Behind(fir_queue, index, ago, fir_count, fir_since)
      BY <1>2, <1>4
    <3> QED BY <1>1, <1>3, <3>1 DEF Behind
  <2>2. Iq!WrapIndex' = Iq!WrapIndex
    BY <1>1 DEF Iq!WrapIndex
  <2> QED BY <1>1, <2>1, <2>2 DEF WindowInv
<1>6. KernelInv'
  BY <1>1 DEF KernelInv, Iq!half_len
<1>7. ClearingInv'
  BY <1>1, <1>2 DEF ClearingInv
<1>8. FirIsConvolution'
  <2> DEFINE full == fir_since > (IF midway THEN len - 1 ELSE 0)
  <2>1. full => fir_out' = Convolution(fir_count, fir_since)
    <3>1. SUFFICES ASSUME full
                   PROVE  Iq!FirInterleaved(fir_queue, index)
                            = Convolution(fir_count, fir_since)
      BY <1>1
    <3>2. clearing = "none"
      BY <1>2, <3>1
    <3> QED BY <1>2, <1>4, <3>1, <3>2, WindowGivesConvolution
  <2>2. \A j : Iq!Tap(j)' = Iq!Tap(j)
    BY <1>1 DEF Iq!Tap, Iq!half_len
  <2>3. \A j : Iq!Heard(fir_count, fir_since, j)'
                 = Iq!Heard(fir_count, fir_since, j)
    BY <1>1 DEF Iq!Heard
  <2> DEFINE terms == [j \in 0 .. len - 1 |->
                         Iq!Tap(j) * Iq!Heard(fir_count, fir_since, j)]
  <2>4. terms' = terms
    BY <1>1, <2>2, <2>3
  <2>5. Iq!SumTo(terms, len)' = Iq!SumTo(terms', len')
    BY DEF Iq!SumTo
  <2>6. Iq!SumTo(terms, len)' = Convolution(fir_count, fir_since)
    BY <1>1, <2>4, <2>5 DEF Convolution
  <2>7. (fir_since > (IF midway THEN len - 1 ELSE 0))' <=> full
    BY <1>1
  <2> QED
    BY <2>1, <2>6, <2>7 DEF FirIsConvolution, Iq!FirIsConvolution
<1> QED BY <1>5, <1>6, <1>7, <1>8 DEF FirInv

(* ... and where the queue begins, the window moves to its end.            *)
LEMMA FirWrapKeeps ==
  IInv /\ ControlInv /\ KernelInv /\ FirInv /\ Iq!FirWrap => KernelInv' /\ FirInv'
<1> SUFFICES ASSUME IInv, ControlInv, KernelInv, FirInv, Iq!FirWrap
             PROVE  KernelInv' /\ FirInv'
  OBVIOUS
<1>1. /\ loop = "wrap" /\ loop' = "fir" /\ index = Iq!WrapIndex
      /\ UNCHANGED <<kind, len, index, fir_count, fir_since, fir_out, midway,
                     clearing>>
      /\ fir_queue' = Iq!Wrapped(fir_queue)
  BY DEF Iq!FirWrap, Iq!firPast, Iq!reset, FirInv, WindowInv
<1>2. /\ len \in Nat /\ len >= 4 /\ Iq!WrapIndex \in Nat
      /\ DOMAIN fir_queue = 0 .. Iq!WrapIndex + len - 1
  <2>1. len \in Nat /\ len >= 4 /\ DOMAIN fir_queue = 0 .. len * SIZE_FACTOR - 1
    BY DEF IInv, MemoryInv
  <2>2. Iq!WrapIndex \in Nat /\ Iq!WrapIndex + len = len * SIZE_FACTOR
    BY <2>1, Sizes
  <2> QED BY <2>1, <2>2
<1>3. Latest = 0 /\ Latest' = Iq!WrapIndex + 1
  BY <1>1 DEF Latest
<1>4. ASSUME NEW ago \in 0 .. len - 2
      PROVE  fir_queue'[Latest' + ago] = fir_queue[Latest + ago]
  <2>1. PICK e \in 0 .. Iq!WrapIndex + len - 1 : e = Iq!WrapIndex + 1 + ago
    BY <1>2
  <2>2. /\ e \in Iq!WrapIndex + 1 .. Iq!WrapIndex + len - 1
        /\ e - Iq!WrapIndex - 1 = ago /\ 0 + ago = ago
    BY <1>2, <2>1
  <2>3. Iq!Wrapped(fir_queue)[e] = fir_queue[ago]
    BY <1>2, <2>1, <2>2 DEF Iq!Wrapped
  <2> QED BY <1>1, <1>3, <2>1, <2>2, <2>3
<1>5. WindowInv'
  <2>1. ASSUME NEW ago \in 0 .. len - 2
        PROVE  Behind(fir_queue, Latest, ago, fir_count, fir_since)'
    <3>1. Behind(fir_queue, Latest, ago, fir_count, fir_since)
      BY DEF FirInv, WindowInv
    <3> QED BY <1>1, <1>4, <3>1 DEF Behind
  <2> QED BY <1>1, <2>1 DEF WindowInv
<1>6. KernelInv'
  BY <1>1 DEF KernelInv, Iq!half_len
<1>7. ClearingInv'
  BY <1>1 DEF ClearingInv, ControlInv
<1>8. FirIsConvolution'
  BY <1>1 DEF FirInv, FirIsConvolution, Iq!FirIsConvolution, Iq!Heard, Iq!Tap,
     Iq!half_len, Iq!SumTo
<1> QED BY <1>5, <1>6, <1>7, <1>8 DEF FirInv

(* The other steps of the loops hand the index over, or are not about it.  *)
LEMMA FirFilter ==
  IInv /\ ControlInv /\ KernelInv /\ FirInv /\ Iq!Filter => KernelInv' /\ FirInv'
<1> SUFFICES ASSUME IInv, ControlInv, KernelInv, FirInv, Iq!Filter
             PROVE  KernelInv' /\ FirInv'
  OBVIOUS
<1>1. CASE Iq!FirStore
  BY <1>1, FirStoreKeeps
<1>2. CASE Iq!FirSum
  BY <1>2, FirSumKeeps
<1>3. CASE Iq!FirWrap
  BY <1>3, FirWrapKeeps
<1>4. CASE Iq!FirEnd \/ Iq!DelayRead \/ Iq!DelayStore \/ Iq!DelayEnd
  <2>1. /\ UNCHANGED <<len, fir_queue, fir_count, fir_since, fir_out, midway,
                       clearing>>
        /\ loop \in {"fir", "delay", "put"}
        /\ loop' \in {"delay", "put", "none"}
        /\ Latest' = Latest
    BY <1>4 DEF Iq!FirEnd, Iq!DelayRead, Iq!DelayStore, Iq!DelayEnd, Iq!memory,
         Iq!firPast, Iq!reset, Latest
  <2>2. clearing # "none" => midway'
    BY <2>1 DEF ControlInv
  <2>3. ClearingInv'
    BY <2>1, <2>2 DEF ClearingInv
  <2>4. MemoryInv /\ fir_since \in Nat
    BY DEF IInv, ControlInv
  <2> QED BY <2>1, <2>3, <2>4, WindowKept
<1> QED BY <1>1, <1>2, <1>3, <1>4 DEF Iq!Filter

(* A block enters the filters.                                             *)
LEMMA FirBegins ==
  IInv /\ ControlInv /\ KernelInv /\ FirInv /\ Process => KernelInv' /\ FirInv'
<1> SUFFICES ASSUME IInv, ControlInv, KernelInv, FirInv, Process
             PROVE  KernelInv' /\ FirInv'
  OBVIOUS
<1>1. /\ loop = "none" /\ loop' = "fir" /\ index' = fir_index
      /\ UNCHANGED <<len, fir_queue, fir_count, fir_since, fir_out, clearing>>
  BY DEF Process, Iq!Begin, Iq!memory, Iq!firPast, Iq!reset
<1>2. /\ midway => midway'
      /\ clearing # "none" => midway'
  BY Zenon DEF Process, Iq!Begin
<1>3. Latest' = Latest
  BY <1>1 DEF Latest
<1>4. ClearingInv'
  BY <1>1, <1>2 DEF ClearingInv
<1>5. MemoryInv /\ fir_since \in Nat
  BY DEF IInv, ControlInv
<1> QED BY <1>1, <1>2, <1>3, <1>4, <1>5, WindowKept

(* Every step.                                                             *)
LEMMA FirNext ==
  IInv /\ ControlInv /\ KernelInv /\ FirInv /\ [Next]_vars => KernelInv' /\ FirInv'
<1> SUFFICES ASSUME IInv, ControlInv, KernelInv, FirInv, [Next]_vars
             PROVE  KernelInv' /\ FirInv'
  OBVIOUS
<1>1. CASE UNCHANGED iqvars
  <2>1. UNCHANGED <<kind, len, loop, index, fir_index, fir_queue, fir_count,
                    fir_since, fir_out, midway, clearing, uncleared>>
    BY <1>1 DEF iqvars
  <2>2. KernelInv'
    BY <2>1 DEF KernelInv, Iq!half_len
  <2>3. WindowInv' /\ ClearingInv'
    BY <2>1 DEF FirInv, WindowInv, ClearingInv, Behind, Latest, Iq!WrapIndex
  <2>4. FirIsConvolution'
    BY <2>1 DEF FirInv, FirIsConvolution, Iq!FirIsConvolution, Iq!Heard, Iq!Tap,
       Iq!half_len, Iq!SumTo
  <2> QED BY <2>2, <2>3, <2>4 DEF FirInv
<1>2. CASE Process
  BY <1>2, FirBegins
<1>3. CASE FilterStep
  BY <1>3, FirFilter DEF FilterStep
<1>4. CASE StartRx
  BY <1>4, FirReset DEF StartRx
<1> QED
  BY <1>1, <1>2, <1>3, <1>4
     DEF Next, ConsumerStep, Processed, SetSampleType, Finished, vars, iqvars

(* What leaves the FIR is the convolution of the kernel with the latest    *)
(* samples since the end of the last reset, for every symmetric kernel of  *)
(* an even length, blocks of any length and a queue of any size: no sample *)
(* is lost, repeated or left from before where the queue turns or a block  *)
(* ends.  The stores of a reset may come between any two accesses of the   *)
(* loops; then as many samples as the kernel has must have come since it   *)
(* ended.                                                                  *)
THEOREM FirConvolves == Spec => []FirIsConvolution
<1>1. Init => IInv /\ BlockInv /\ ControlInv /\ KernelInv /\ FirInv
  BY InitInv, BlockInit, ControlInit, FirInit
<1>2. IInv /\ BlockInv /\ ControlInv /\ KernelInv /\ FirInv /\ [Next]_vars
        => (IInv /\ BlockInv /\ ControlInv /\ KernelInv /\ FirInv)'
  BY NextInv, BlockNext, ControlNext, FirNext
<1>3. FirInv => FirIsConvolution
  BY DEF FirInv
<1> QED BY <1>1, <1>2, <1>3, PTL DEF Spec

-----------------------------------------------------------------------------
(* The removal of the DC offset.                                           *)

(* Output and error, less the input, in the units of the rounding error: a *)
(* mean of all the inputs before, so that it stays in their range.         *)
Lag == SCALE * old_y + old_e - SCALE * old_x

LagInv ==
  /\ 2 * old_x \in Dc!Low .. Dc!High
  /\ 2 * Lag >= -(SCALE * Dc!High)
  /\ 2 * Lag <= 2 * (SCALE - 1) - SCALE * Dc!Low

(* That is lost while a reset clears the fields one by one; but when no    *)
(* block runs meanwhile they come to silence.                              *)
DcInv ==
  /\ old_x \in Int /\ old_y \in Int /\ old_e \in 0 .. SCALE - 1
  /\ last \in Int
  /\ ~loud /\ ~torn => ~wrapped /\ (to_clear = {} => LagInv)
  /\ ~torn /\ to_clear # {} =>
       /\ ~within
       /\ "x" \in to_clear \/ old_x = 0
       /\ "y" \in to_clear \/ old_y = 0
       /\ "e" \in to_clear \/ old_e = 0

(* A weighted mean is no more than what both of its terms do not exceed,   *)
(* and no less than what neither of them falls below.                      *)
LEMMA MeanBetween ==
  ASSUME NEW m \in Nat, m > 0, NEW a \in 0 .. m, NEW p \in Int, NEW q \in Int,
         NEW v \in Int, m * v = a * p + (m - a) * q,
         NEW low \in Int, NEW high \in Int,
         low <= p, low <= q, p <= high, q <= high
  PROVE  low <= v /\ v <= high
<1>1. /\ a * low <= a * p /\ (m - a) * low <= (m - a) * q
      /\ a * p <= a * high /\ (m - a) * q <= (m - a) * high
  OBVIOUS
<1>2. a * low + (m - a) * low = m * low /\ a * high + (m - a) * high = m * high
  OBVIOUS
<1>3. m * low <= m * v /\ m * v <= m * high
  <2>1. /\ a * low \in Int /\ (m - a) * low \in Int /\ a * p \in Int
        /\ (m - a) * q \in Int /\ a * high \in Int /\ (m - a) * high \in Int
    OBVIOUS
  <2> QED BY <1>1, <1>2, <2>1
<1> QED BY <1>3

(* The quotient of a number between two multiples.                         *)
LEMMA QuotientBetween ==
  ASSUME NEW m \in Nat, m > 0, NEW v \in Int, NEW rest \in 0 .. m - 1,
         NEW low \in Int, NEW high \in Int,
         m * low <= m * v + rest, m * v + rest <= m * high + (m - 1)
  PROVE  low <= v /\ v <= high
<1>1. m * low < m * (v + 1)
  OBVIOUS
<1>2. m * v < m * (high + 1)
  OBVIOUS
<1>3. low < v + 1
  BY <1>1
<1>4. v < high + 1
  BY <1>2
<1> QED BY <1>3, <1>4

(* u >> 15 is a quotient, with a rest.                                     *)
LEMMA ShiftLeavesRest ==
  ASSUME NEW u \in Int
  PROVE  /\ u \div SCALE \in Int /\ Dc!Rest(u) \in 0 .. SCALE - 1
         /\ u = SCALE * (u \div SCALE) + Dc!Rest(u)
<1>1. SCALE \in Nat /\ SCALE > 0
  BY ConvertersAssumption DEF Dc!DcAssumption
<1>2. /\ u \div SCALE \in Int /\ u % SCALE \in 0 .. SCALE - 1
      /\ u = SCALE * (u \div SCALE) + (u % SCALE)
  BY <1>1
<1>3. Dc!Rest(u) = u % SCALE
  BY <1>1, <1>2 DEF Dc!Rest
<1> QED BY <1>2, <1>3

(* What fits is left as it is.                                             *)
LEMMA SignedIsSame == ASSUME NEW v \in Int, Dc!Fits(v) PROVE Dc!Signed(v) = v
<1>1. PICK b \in Nat : RANGE = 4 * b /\ b >= 1
  <2>1. RANGE \in Nat /\ RANGE > 0 /\ RANGE % 4 = 0
    BY ConvertersAssumption DEF Dc!DcAssumption
  <2>2. RANGE = 4 * (RANGE \div 4) /\ RANGE \div 4 \in Nat
    BY <2>1
  <2> QED BY <2>1, <2>2
<1>2. RANGE \div 2 = 2 * b
  BY <1>1
<1>3. v + 2 * b \in 0 .. 4 * b - 1
  BY <1>2 DEF Dc!Fits, Dc!Low, Dc!High
<1>4. (v + 2 * b) % (4 * b) = v + 2 * b
  BY <1>3, <1>1
<1> QED BY <1>1, <1>2, <1>4 DEF Dc!Signed, Dc!Low

(* The low bits are a number.                                              *)
LEMMA SignedIsInt == ASSUME NEW v \in Int PROVE Dc!Signed(v) \in Int
<1>1. RANGE \in Nat /\ RANGE > 0
  BY ConvertersAssumption DEF Dc!DcAssumption
<1>2. RANGE \div 2 \in Int
  BY <1>1
<1> QED BY <1>1, <1>2 DEF Dc!Signed, Dc!Low

(* Silence is in the range.                                                *)
LEMMA SilenceLags ==
  ASSUME NEW x, NEW y, NEW e, x = 0, y = 0, e = 0
  PROVE  /\ 2 * x \in Dc!Low .. Dc!High
         /\ 2 * (SCALE * y + e - SCALE * x) >= -(SCALE * Dc!High)
         /\ 2 * (SCALE * y + e - SCALE * x) <= 2 * (SCALE - 1) - SCALE * Dc!Low
         /\ y \in Dc!Low .. Dc!High /\ e \in 0 .. SCALE - 1
<1>1. SCALE \in Nat /\ SCALE > 0 /\ RANGE \in Nat /\ RANGE > 0 /\ RANGE % 4 = 0
  BY ConvertersAssumption DEF Dc!DcAssumption
<1>2. PICK half \in Nat : half = RANGE \div 2 /\ half >= 1
  BY <1>1
<1>3. SCALE * (half - 1) >= 0 /\ SCALE * half >= 0
  BY <1>1, <1>2
<1>4. SCALE * y + e - SCALE * x = 0
  BY <1>1
<1>5. -(SCALE * (half - 1)) <= 0
  BY <1>1, <1>2, <1>3
<1>6. 2 * (SCALE - 1) - SCALE * (-half) >= 0
  BY <1>1, <1>2, <1>3
<1> QED BY <1>1, <1>2, <1>4, <1>5, <1>6 DEF Dc!Low, Dc!High

(* The filter begins in silence.                                           *)
LEMMA DcInit == Init => DcInv
<1> SUFFICES ASSUME Init PROVE DcInv
  OBVIOUS
<1>1. /\ old_x = 0 /\ old_y = 0 /\ old_e = 0 /\ last = 0 /\ to_clear = {}
      /\ ~wrapped
  BY DEF Init, Dc!Init
<1>2. LagInv /\ old_e \in 0 .. SCALE - 1
  BY <1>1, SilenceLags DEF LagInv, Lag
<1> QED BY <1>1, <1>2 DEF DcInv

(* One sample in half of the range, after samples in half of the range.    *)
LEMMA QuietSample ==
  ASSUME DcInv, LagInv, NEW x \in Int, Dc!Filtered(x), 2 * x \in Dc!Low .. Dc!High
  PROVE  LagInv' /\ (wrapped' <=> wrapped)
<1> DEFINE u == old_e + old_y * ALPHA
           s == u \div SCALE
           w == Dc!Change(x)
           y == Dc!Signed(w) + s
<1>1. PICK b \in Nat : RANGE = 4 * b /\ b >= 1
  <2>1. RANGE \in Nat /\ RANGE > 0 /\ RANGE % 4 = 0
    BY ConvertersAssumption DEF Dc!DcAssumption
  <2>2. RANGE = 4 * (RANGE \div 4) /\ RANGE \div 4 \in Nat
    BY <2>1
  <2> QED BY <2>1, <2>2
<1>2. Dc!Low = -(2 * b) /\ Dc!High = 2 * b - 1
  BY <1>1 DEF Dc!Low, Dc!High
<1>3. PICK m \in Nat : m = SCALE /\ m > 0
  BY ConvertersAssumption DEF Dc!DcAssumption
<1>4. PICK a \in 0 .. m : a = ALPHA
  BY <1>3, ConvertersAssumption DEF Dc!DcAssumption
<1>5. /\ old_x \in Int /\ old_y \in Int /\ old_e \in 0 .. m - 1
      /\ 2 * old_x \in -(2 * b) .. 2 * b - 1 /\ 2 * x \in -(2 * b) .. 2 * b - 1
  BY <1>2, <1>3 DEF DcInv, LagInv
<1>6. u \in Int
  BY <1>4, <1>5
<1>7. /\ s \in Int /\ Dc!Rest(u) \in 0 .. m - 1
      /\ u = m * s + Dc!Rest(u)
  BY <1>3, <1>6, ShiftLeavesRest
<1>8. w = x - old_x /\ Dc!Fits(w) /\ Dc!Signed(w) = w
  <2>1. w = x - old_x
    BY DEF Dc!Change
  <2>2. Dc!Fits(w)
    BY <1>2, <1>5, <2>1 DEF Dc!Fits
  <2> QED BY <1>5, <2>1, <2>2, SignedIsSame
<1>9. PICK e \in 0 .. m - 1 : e = Dc!Rest(u)
  BY <1>7
<1>10. y \in Int /\ y = x - old_x + s
  BY <1>5, <1>7, <1>8
<1> DEFINE lag == m * y + e - m * x
<1>11. lag \in Int
  BY <1>5, <1>9, <1>10
<1>12. lag = old_e + a * old_y - m * old_x
  <2>1. m * y = m * x - m * old_x + m * s
    BY <1>5, <1>7, <1>10
  <2>2. u = old_e + a * old_y
    BY <1>4, <1>5
  <2>3. m * y \in Int /\ m * x \in Int /\ m * old_x \in Int /\ m * s \in Int
    BY <1>5, <1>7, <1>10
  <2>4. u = m * s + e
    BY <1>7, <1>9
  <2> HIDE DEF u, s, y
  <2> QED BY <1>5, <1>9, <2>1, <2>2, <2>3, <2>4
<1>13. Lag \in Int /\ Lag = m * old_y + old_e - m * old_x
  BY <1>3, <1>5 DEF Lag
<1>14. m * (2 * lag) = a * (2 * Lag) + (m - a) * (2 * (old_e - m * old_x))
  <2>1. m * lag = m * old_e + m * (a * old_y) - m * (m * old_x)
    BY <1>5, <1>12
  <2>2. a * Lag = a * (m * old_y) + a * old_e - a * (m * old_x)
    BY <1>5, <1>13
  <2>3. (m - a) * (old_e - m * old_x)
          = m * old_e - m * (m * old_x) - a * old_e + a * (m * old_x)
    BY <1>5
  <2>4. a * (m * old_y) = m * (a * old_y)
    BY <1>5
  <2>5. /\ m * old_e \in Int /\ m * (a * old_y) \in Int /\ m * (m * old_x) \in Int
        /\ a * old_e \in Int /\ a * (m * old_x) \in Int /\ m * lag \in Int
        /\ a * Lag \in Int /\ (m - a) * (old_e - m * old_x) \in Int
    BY <1>5, <1>11, <1>13
  <2>6. m * lag = a * Lag + (m - a) * (old_e - m * old_x)
    BY <2>1, <2>2, <2>3, <2>4, <2>5
  <2>7. /\ m * (2 * lag) = 2 * (m * lag) /\ a * (2 * Lag) = 2 * (a * Lag)
        /\ (m - a) * (2 * (old_e - m * old_x))
             = 2 * ((m - a) * (old_e - m * old_x))
    BY <1>5, <1>11, <1>13
  <2> QED BY <2>5, <2>6, <2>7
<1> DEFINE low  == -(m * (2 * b - 1))
           high == 2 * (m - 1) + m * (2 * b)
<1>15. low \in Int /\ high \in Int
  OBVIOUS
<1>16. low <= 2 * Lag /\ 2 * Lag <= high
  <2>1. m * (-(2 * b)) = -(m * (2 * b))
    OBVIOUS
  <2>2. m * (2 * b) \in Int /\ m * (2 * b - 1) \in Int
    OBVIOUS
  <2> QED BY <1>2, <1>3, <1>13, <2>1, <2>2 DEF LagInv
<1>17. low <= 2 * (old_e - m * old_x) /\ 2 * (old_e - m * old_x) <= high
  <2>1. 2 * (old_e - m * old_x) = 2 * old_e - m * (2 * old_x)
    BY <1>5
  <2>2. m * (2 * old_x) <= m * (2 * b - 1) /\ m * (-(2 * b)) <= m * (2 * old_x)
    BY <1>3, <1>5
  <2>3. m * (-(2 * b)) = -(m * (2 * b))
    OBVIOUS
  <2>4. m * (2 * b) \in Int /\ m * (2 * b - 1) \in Int /\ m * (2 * old_x) \in Int
    BY <1>5
  <2> QED BY <1>5, <2>1, <2>2, <2>3, <2>4
<1>18. low <= 2 * lag /\ 2 * lag <= high
  <2>1. 2 * lag \in Int /\ 2 * Lag \in Int /\ 2 * (old_e - m * old_x) \in Int
    BY <1>5, <1>11, <1>13
  <2> HIDE DEF lag, low, high
  <2> QED BY <1>3, <1>14, <1>15, <1>16, <1>17, <2>1, MeanBetween
<1>19. -(2 * b) <= y /\ y <= 2 * b - 1
  <2>1. m * y + e = lag + m * x
    BY <1>5, <1>9, <1>10
  <2>2. x >= -b /\ x <= b - 1
    BY <1>5
  <2>3. m * (-b) <= m * x /\ m * x <= m * (b - 1)
    BY <1>5, <2>2
  <2>4. m * (-(2 * b)) <= m * y + e
    <3>1. /\ m * (-b) = -(m * b) /\ m * (-(2 * b)) = -(2 * (m * b))
          /\ low = m - 2 * (m * b)
      OBVIOUS
    <3>2. m * b \in Int /\ m * x \in Int /\ m * y + e \in Int
      BY <1>5, <1>9, <1>10
    <3> HIDE DEF lag, low, high
    <3> QED BY <1>3, <1>11, <1>18, <2>1, <2>3, <3>1, <3>2
  <2>5. m * y + e <= m * (2 * b - 1) + (m - 1)
    <3>1. m * (b - 1) = m * b - m /\ m * (2 * b - 1) = 2 * (m * b) - m
          /\ high = 2 * (m - 1) + 2 * (m * b)
      OBVIOUS
    <3>2. m * b \in Int /\ m * x \in Int /\ m * y + e \in Int
      BY <1>5, <1>9, <1>10
    <3> HIDE DEF lag, low, high
    <3> QED BY <1>3, <1>11, <1>18, <2>1, <2>3, <3>1, <3>2
  <2>6. -(2 * b) \in Int /\ 2 * b - 1 \in Int
    OBVIOUS
  <2> QED BY <1>3, <1>9, <1>10, <2>4, <2>5, <2>6, QuotientBetween
<1>20. Dc!Fits(y) /\ Dc!Signed(y) = y
  BY <1>2, <1>10, <1>19, SignedIsSame DEF Dc!Fits
<1>21. old_x' = x /\ old_y' = y /\ old_e' = e /\ (wrapped' <=> wrapped)
  <2>1. /\ old_y' = Dc!Signed(y) /\ old_e' = Dc!Rest(u) /\ old_x' = x
        /\ wrapped' = (wrapped \/ ~Dc!Fits(w) \/ ~Dc!Fits(y))
    BY DEF Dc!Filtered
  <2> HIDE DEF u, s, w, y
  <2> QED BY <1>8, <1>9, <1>20, <2>1
<1>22. Lag' = lag
  BY <1>3, <1>21 DEF Lag
<1>23. LagInv'
  <2>1. m * (-(2 * b)) = -(m * (2 * b))
    OBVIOUS
  <2>2. -(SCALE * Dc!High) = low /\ 2 * (SCALE - 1) - SCALE * Dc!Low = high
    BY <1>2, <1>3, <2>1
  <2> HIDE DEF lag, low, high
  <2> QED BY <1>2, <1>5, <1>18, <1>21, <1>22, <2>2 DEF LagInv, Dc!Low, Dc!High
<1> QED BY <1>21, <1>23

(* Any sample.                                                             *)
LEMMA DcSample ==
  ASSUME DcInv, NEW x \in Int, Dc!Filtered(x), last' = x,
         torn' = (torn \/ to_clear # {}), to_clear' = to_clear
  PROVE  DcInv'
<1> DEFINE u == old_e + old_y * ALPHA
           s == u \div SCALE
           w == Dc!Change(x)
           y == Dc!Signed(w) + s
<1>1. /\ old_y' = Dc!Signed(y) /\ old_e' = Dc!Rest(u) /\ old_x' = x
      /\ wrapped' = (wrapped \/ ~Dc!Fits(w) \/ ~Dc!Fits(y))
      /\ loud' = (loud \/ ~(2 * x \in Dc!Low .. Dc!High))
  BY DEF Dc!Filtered
<1>2. u \in Int
  <2>1. ALPHA \in Int /\ SCALE \in Int
    BY ConvertersAssumption DEF Dc!DcAssumption
  <2> QED BY <2>1 DEF DcInv
<1>3. s \in Int /\ Dc!Rest(u) \in 0 .. SCALE - 1
  BY <1>2, ShiftLeavesRest
<1>4. Dc!Signed(y) \in Int
  <2>1. w \in Int
    BY DEF Dc!Change, DcInv
  <2>2. y \in Int
    BY <1>3, <2>1, SignedIsInt
  <2> HIDE DEF y
  <2> QED BY <2>2, SignedIsInt
<1> HIDE DEF u, s, w, y
<1>5. /\ old_x' \in Int /\ old_y' \in Int /\ old_e' \in 0 .. SCALE - 1
      /\ last' \in Int
  BY <1>1, <1>3, <1>4
<1>6. ASSUME ~torn' PROVE ~torn /\ to_clear = {} /\ to_clear' = {}
  BY <1>6, Zenon
<1>7. ASSUME ~loud', ~torn' PROVE ~wrapped' /\ LagInv'
  <2>1. ~loud /\ 2 * x \in Dc!Low .. Dc!High
    BY <1>1, <1>7, Zenon
  <2>2. ~wrapped /\ LagInv
    BY <1>6, <1>7, <2>1, Zenon DEF DcInv
  <2> QED BY <2>1, <2>2, QuietSample
<1>8. ~torn' => to_clear' = {}
  BY <1>6
<1> QED BY <1>5, <1>7, <1>8 DEF DcInv

(* A reset begins: when it is not during a block, the fields come to       *)
(* silence one by one.                                                     *)
LEMMA DcReset ==
  ASSUME DcInv, Dc!StartReset
  PROVE  DcInv'
<1>1. /\ UNCHANGED <<old_x, old_y, old_e, last, within>>
      /\ to_clear' = {"x", "y", "e"} /\ ~wrapped'
  BY DEF Dc!StartReset, Dc!state
<1>2. ~torn' => ~within
  BY Zenon DEF Dc!StartReset
<1> QED BY <1>1, <1>2 DEF DcInv

(* A field is cleared; the last one leaves silence.                        *)
LEMMA DcClear ==
  ASSUME DcInv, NEW field \in to_clear, Dc!Clear(field)
  PROVE  DcInv'
<1>1. /\ UNCHANGED <<within, last, loud, wrapped, torn>>
      /\ to_clear' = to_clear \ {field} /\ to_clear # {}
      /\ old_x' = IF field = "x" /\ ~within THEN 0 ELSE old_x
      /\ old_y' = IF field = "y" /\ ~within THEN 0 ELSE old_y
      /\ old_e' = IF field = "e" /\ ~within THEN 0 ELSE old_e
  BY DEF Dc!Clear, Dc!past
<1>2. 0 \in 0 .. SCALE - 1
  BY ConvertersAssumption DEF Dc!DcAssumption
<1>3. /\ old_x' \in Int /\ old_y' \in Int /\ old_e' \in 0 .. SCALE - 1
      /\ last' \in Int
  BY <1>1, <1>2 DEF DcInv
<1>4. ~torn' => /\ ~within'
                /\ "x" \in to_clear' \/ old_x' = 0
                /\ "y" \in to_clear' \/ old_y' = 0
                /\ "e" \in to_clear' \/ old_e' = 0
  BY <1>1 DEF DcInv
<1>5. ASSUME ~torn', to_clear' = {} PROVE LagInv'
  <2>1. old_x' = 0 /\ old_y' = 0 /\ old_e' = 0
    BY <1>4, <1>5
  <2> QED BY <2>1, SilenceLags DEF LagInv, Lag, Dc!Low, Dc!High
<1>6. ~loud' /\ ~torn' => ~wrapped'
  BY <1>1 DEF DcInv
<1> QED BY <1>3, <1>4, <1>5, <1>6 DEF DcInv

(* The input of a sample, held or not.                                     *)
LEMMA DcInput ==
  ASSUME DcInv, Dc!Sample
  PROVE  \E x \in Int :
           /\ Dc!Filtered(x) /\ last' = x /\ (held => x = last)
           /\ torn' = (torn \/ to_clear # {}) /\ to_clear' = to_clear
           /\ UNCHANGED held
<1>1. PICK x \in IF held THEN {last} ELSE Levels :
        Dc!Filtered(x) /\ last' = x
  BY DEF Dc!Sample
<1>2. x \in Int /\ (held => x = last)
  <2>1. RANGE \div 2 \in Int
    BY ConvertersAssumption DEF Dc!DcAssumption
  <2> QED BY <1>1, <2>1, ConvertersAssumption DEF Dc!DcAssumption, DcInv
<1>3. /\ torn' = (torn \/ to_clear # {}) /\ to_clear' = to_clear
      /\ UNCHANGED held
  BY Zenon DEF Dc!Sample
<1> QED BY <1>1, <1>2, <1>3

(* Every step.                                                             *)
LEMMA DcNext == DcInv /\ [Next]_vars => DcInv'
<1> SUFFICES ASSUME DcInv, [Next]_vars PROVE DcInv'
  OBVIOUS
<1>1. CASE UNCHANGED <<old_x, old_y, old_e, within, to_clear, last, loud,
                       wrapped, torn>>
  BY <1>1 DEF DcInv, LagInv, Lag, Dc!Low, Dc!High
<1>2. CASE Dc!Sample
  <2>1. PICK x \in Int :
          /\ Dc!Filtered(x) /\ last' = x
          /\ torn' = (torn \/ to_clear # {}) /\ to_clear' = to_clear
    BY <1>2, DcInput
  <2> QED BY <2>1, DcSample
<1>3. CASE Dc!StartReset
  BY <1>3, DcReset
<1>4. CASE \E field \in to_clear : Dc!Clear(field)
  BY <1>4, DcClear
<1> QED
  BY <1>1, <1>2, <1>3, <1>4
     DEF Next, vars, dcvars, DcStep, Dc!Next, Dc!Hold, Dc!state, Finished

(* Samples up to half of the range never wrap the DC filter, in any order, *)
(* for any coefficient below 1, with its rounding errors, and after any    *)
(* reset that no block ran during.                                         *)
THEOREM HalfRangeIsSafe == Spec => []HalfRangeFits
<1>1. DcInv => HalfRangeFits
  BY DEF DcInv, HalfRangeFits, Dc!HalfRangeFits
<1> QED BY <1>1, DcInit, DcNext, PTL DEF Spec

(* Once the input is constant, an output above 0 stays or sinks, and while *)
(* it stays the rounding error sinks; one below 0 stays or rises, and the  *)
(* rounding error rises while it stays; and neither crosses 0.  So each    *)
(* sample brings them closer to the 0 that no sample leaves.               *)
Fades ==
  /\ old_y = 0 => old_y' = 0
  /\ old_y > 0 => /\ old_y' \in 0 .. old_y
                  /\ old_y' = old_y => old_e' < old_e
  /\ old_y < 0 => /\ old_y' \in old_y .. 0
                  /\ old_y' = old_y => old_e' > old_e

(* With a constant input, every sample does so, except one that follows a  *)
(* reset of old_x; and that one puts old_x right.                          *)
HeldFades ==
  [][Dc!Sample /\ held => /\ old_x' = last' /\ held' /\ last' = last
                          /\ old_x = last => Fades]_dcvars

(* The output is one that Rounded makes.                                   *)
OutInv == DcInv /\ old_y \in Dc!Low .. Dc!High

(* The low bits are a sample.                                              *)
LEMMA SignedIsSample ==
  ASSUME NEW v \in Int
  PROVE  Dc!Signed(v) \in Dc!Low .. Dc!High
<1>1. PICK half \in Nat : RANGE = 2 * half /\ half >= 1 /\ RANGE \div 2 = half
  <2>1. RANGE \in Nat /\ RANGE > 0 /\ RANGE % 4 = 0
    BY ConvertersAssumption DEF Dc!DcAssumption
  <2>2. RANGE = 2 * (RANGE \div 2) /\ RANGE \div 2 \in Nat
    BY <2>1
  <2> QED BY <2>1, <2>2
<1>2. (v + half) % (2 * half) \in 0 .. 2 * half - 1
  BY <1>1
<1> QED BY <1>1, <1>2 DEF Dc!Signed, Dc!Low, Dc!High

(* Initially, and after every step, ...                                    *)
LEMMA OutInit == Init => OutInv
<1> SUFFICES ASSUME Init PROVE OutInv
  OBVIOUS
<1>1. old_x = 0 /\ old_y = 0 /\ old_e = 0
  BY DEF Init, Dc!Init
<1> QED BY <1>1, SilenceLags, DcInit DEF OutInv

(* ... the output is a sample.                                             *)
LEMMA OutNext == OutInv /\ [Next]_vars => OutInv'
<1> SUFFICES ASSUME OutInv, [Next]_vars PROVE OutInv'
  OBVIOUS
<1>1. DcInv'
  BY DcNext DEF OutInv
<1>2. CASE UNCHANGED old_y
  BY <1>1, <1>2 DEF OutInv, Dc!Low, Dc!High
<1>3. CASE Dc!Sample
  <2>1. PICK x \in Int : Dc!Filtered(x)
    BY <1>3, DcInput DEF OutInv
  <2> DEFINE u == old_e + old_y * ALPHA
             y == Dc!Signed(Dc!Change(x)) + u \div SCALE
  <2>2. u \in Int
    <3>1. ALPHA \in Int /\ SCALE \in Int
      BY ConvertersAssumption DEF Dc!DcAssumption
    <3> QED BY <3>1 DEF OutInv, DcInv
  <2>3. y \in Int
    <3>1. Dc!Change(x) \in Int
      BY DEF Dc!Change, OutInv, DcInv
    <3> HIDE DEF u
    <3> QED BY <2>2, <3>1, ShiftLeavesRest, SignedIsInt
  <2>4. old_y' = Dc!Signed(y)
    BY <2>1 DEF Dc!Filtered
  <2> HIDE DEF y
  <2>5. old_y' \in Dc!Low .. Dc!High
    BY <2>3, <2>4, SignedIsSample
  <2> QED BY <1>1, <2>5 DEF OutInv, Dc!Low, Dc!High
<1>4. CASE \E field \in to_clear : Dc!Clear(field)
  <2>1. old_y' \in {0, old_y}
    BY <1>4 DEF Dc!Clear
  <2>2. old_y' \in Dc!Low .. Dc!High
    BY <2>1, SilenceLags DEF OutInv
  <2> QED BY <1>1, <2>2 DEF OutInv, Dc!Low, Dc!High
<1> QED
  BY <1>2, <1>3, <1>4
     DEF Next, vars, dcvars, DcStep, Dc!Next, Dc!Hold, Dc!StartReset, Dc!state, Finished

(* One sample of a constant input.                                         *)
LEMMA HeldSample == ASSUME OutInv, Dc!Filtered(old_x) PROVE Fades
<1> DEFINE u == old_e + old_y * ALPHA
           s == u \div SCALE
           w == Dc!Change(old_x)
<1>1. PICK m \in Nat : m = SCALE /\ m > 0
  BY ConvertersAssumption DEF Dc!DcAssumption
<1>2. PICK a \in 1 .. m - 1 : a = ALPHA
  BY <1>1, ConvertersAssumption DEF Dc!DcAssumption
<1>3. PICK half \in Nat : half >= 1 /\ Dc!Low = -half /\ Dc!High = half - 1
  BY ConvertersAssumption DEF Dc!DcAssumption, Dc!Low, Dc!High
<1>4. /\ old_x \in Int /\ old_y \in -half .. half - 1 /\ old_e \in 0 .. m - 1
  BY <1>1, <1>3 DEF OutInv, DcInv
<1>5. u \in Int /\ u = old_e + a * old_y
  BY <1>2, <1>4
<1>6. PICK r \in 0 .. m - 1 : r = Dc!Rest(u) /\ s \in Int /\ u = m * s + r
  BY <1>1, <1>5, ShiftLeavesRest
<1>7. Dc!Signed(w) = 0
  <2>1. w = 0
    BY <1>4 DEF Dc!Change
  <2>2. Dc!Fits(0)
    BY <1>3 DEF Dc!Fits
  <2> QED BY <2>1, <2>2, SignedIsSame
<1>8. old_y' = Dc!Signed(s) /\ old_e' = r
  <2>1. old_y' = Dc!Signed(Dc!Signed(w) + s) /\ old_e' = Dc!Rest(u)
    BY DEF Dc!Filtered
  <2>2. 0 + s = s
    BY <1>6
  <2> HIDE DEF u, s, w
  <2> QED BY <1>6, <1>7, <2>1, <2>2
<1> HIDE DEF u, s, w
<1>9. m * s + r = old_e + a * old_y
  BY <1>5, <1>6
<1>10. CASE old_y >= 0
  <2>1. 0 <= a * old_y /\ a * old_y <= (m - 1) * old_y
    BY <1>2, <1>4, <1>10
  <2>2. (m - 1) * old_y = m * old_y - old_y
    BY <1>4
  <2>3. m * 0 <= m * s + r /\ m * s + r <= m * old_y + (m - 1)
    BY <1>1, <1>2, <1>4, <1>6, <1>9, <1>10, <2>1, <2>2
  <2>4. 0 <= s /\ s <= old_y
    BY <1>1, <1>4, <1>6, <2>3, QuotientBetween
  <2>5. Dc!Signed(s) = s
    BY <1>3, <1>4, <1>6, <2>4, SignedIsSame DEF Dc!Fits
  <2>6. old_y > 0 /\ s = old_y => r < old_e
    BY <1>1, <1>2, <1>4, <1>6, <1>9, <2>1, <2>2
  <2>7. old_y' = s /\ old_e' = r
    BY <1>8, <2>5
  <2>8. old_y \in Int /\ old_e \in Int /\ s \in Int
    BY <1>4, <1>6
  <2> QED BY <1>10, <2>4, <2>6, <2>7, <2>8 DEF Fades
<1>11. CASE old_y < 0
  <2>1. PICK n \in Nat : n = -old_y /\ n > 0
    BY <1>4, <1>11
  <2>2. 0 <= a * n /\ a * n <= (m - 1) * n
    BY <1>2, <2>1
  <2>3. (m - 1) * n = m * n - n /\ a * old_y = -(a * n) /\ m * old_y = -(m * n)
    BY <1>4, <2>1
  <2>4. m * old_y <= m * s + r /\ m * s + r <= m * 0 + (m - 1)
    <3>1. a * n \in Int /\ m * n \in Int /\ m * old_y \in Int /\ m * s + r \in Int
          /\ m * 0 = 0
      BY <1>4, <1>6
    <3> QED BY <1>4, <1>9, <2>1, <2>2, <2>3, <3>1
  <2>5. old_y <= s /\ s <= 0
    BY <1>1, <1>4, <1>6, <2>4, QuotientBetween
  <2>6. Dc!Signed(s) = s
    BY <1>3, <1>4, <1>6, <2>5, SignedIsSame DEF Dc!Fits
  <2>7. s = old_y => r > old_e
    <3>1. a * n \in Int /\ m * n \in Int
      BY <1>4
    <3> QED BY <1>4, <1>6, <1>9, <2>1, <2>2, <2>3, <3>1
  <2>8. old_y' = s /\ old_e' = r
    BY <1>8, <2>6
  <2>9. old_y \in Int /\ old_e \in Int /\ s \in Int
    BY <1>4, <1>6
  <2> QED BY <1>11, <2>5, <2>7, <2>8, <2>9 DEF Fades
<1> QED BY <1>4, <1>10, <1>11

(* A constant input fades: no sample takes the output away from 0 or       *)
(* across it, and a sample that leaves it as it is brings the next change  *)
(* closer, for any coefficient and after any wrap.  After a reset of old_x *)
(* that is so again from the second sample on.                             *)
THEOREM OffsetFades == Spec => HeldFades
<1> DEFINE Held == Dc!Sample /\ held =>
                     /\ old_x' = last' /\ held' /\ last' = last
                     /\ old_x = last => Fades
<1>1. ASSUME OutInv, [Next]_vars PROVE [Held]_dcvars
  <2>1. SUFFICES ASSUME Dc!Sample, held
                 PROVE  /\ old_x' = last' /\ held' /\ last' = last
                        /\ old_x = last => Fades
    OBVIOUS
  <2>2. PICK x \in Int : /\ Dc!Filtered(x) /\ last' = x /\ x = last
                         /\ UNCHANGED held
    BY <1>1, <2>1, DcInput DEF OutInv
  <2>3. old_x' = x
    BY <2>2 DEF Dc!Filtered
  <2>4. ASSUME old_x = last PROVE Fades
    <3>1. Dc!Filtered(old_x)
      BY <2>2, <2>4
    <3> QED BY <1>1, <3>1, HeldSample
  <2>5. held'
    BY <2>1, <2>2, Zenon
  <2> QED BY <2>2, <2>3, <2>4, <2>5
<1> QED BY <1>1, OutInit, OutNext, PTL DEF Spec, HeldFades
=============================================================================
