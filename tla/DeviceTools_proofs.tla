------------------------- MODULE DeviceTools_proofs -------------------------
(***************************************************************************)
(* Proofs about DeviceTools: the flash for every size, length and image,   *)
(* and the register tools for every number of registers, ports and pins.   *)
(***************************************************************************)
EXTENDS DeviceTools, SequenceTheorems, TLAPS

-----------------------------------------------------------------------------
(* Arithmetic.                                                             *)

(* What % does below n and below 2 * n.                                    *)
LEMMA Wraps ==
  ASSUME NEW n \in Nat \ {0}, NEW x \in Nat
  PROVE  /\ x % n \in 0 .. n - 1
         /\ x < n => x % n = x
         /\ x >= n /\ x < 2 * n => x % n = x - n
<1>1. x % n \in 0 .. n - 1
  OBVIOUS
<1>2. ASSUME x < n PROVE x % n = x
  BY <1>2
<1>3. ASSUME x >= n, x < 2 * n PROVE x % n = x - n
  BY <1>3
<1> QED BY <1>1, <1>2, <1>3

(* A number is put together from a quotient and a remainder in one way.    *)
LEMMA DivMod ==
  ASSUME NEW n \in Nat \ {0}, NEW x \in Nat, NEW p \in Nat, NEW q \in Nat,
         p < n, x = q * n + p
  PROVE  x % n = p /\ x \div n = q
  OBVIOUS

-----------------------------------------------------------------------------
(* The flash.                                                              *)

(* The steps of a run.                                                     *)
Runs == {"idle", "open", "erase", "chunks"}

(* What a run knows of itself, between its chunks.                         *)
RunInv ==
  /\ flash \in [Spi!FlashAddresses -> SUBSET Bits]
  /\ command \in [read : BOOLEAN, address : Nat, length : Nat, image : Seq(SUBSET Bits)]
  /\ step \in Runs /\ read \in BOOLEAN
  /\ outcome = "success" => step = "idle"
  /\ address \in Nat /\ length \in Nat /\ done \in Nat
  /\ step # "idle" =>
       /\ command.read = read
       /\ address = command.address + done
       /\ done + length = command.length
       /\ data \in Seq(SUBSET Bits)
       /\ Len(data) = IF read THEN done ELSE command.length
       /\ ~read => data = command.image
       /\ step # "chunks" => done = 0
       /\ step = "erase" => ~read

(* What is written and what is erased; what is read.                       *)
WriteInv ==
  step = "chunks" /\ ~read /\ command.address + command.length <= EraseSize =>
    \A k \in 1 .. command.length :
      flash[command.address + k - 1] = IF k <= done THEN data[k] ELSE Bits

ReadInv ==
  step = "chunks" /\ read /\ command.address + command.length <= MAX_LENGTH =>
    \A k \in 1 .. done : data[k] = flash[command.address + k - 1]

FlashInv == RunInv /\ WriteInv /\ ReadInv /\ WrittenIsThere /\ ReadIsFlash

(* The constants of the flash.                                             *)
LEMMA FlashConstants ==
  /\ MAX_LENGTH \in Nat \ {0} /\ ChunkSize \in Nat \ {0} /\ EraseSize \in Nat
  /\ ChunkSize <= EraseSize /\ EraseSize <= MAX_LENGTH
  /\ Spi!FlashAddresses = 0 .. MAX_LENGTH - 1
BY ToolsAssumption DEF Spi!FlashAssumption, Spi!FlashAddresses

(* The arguments of a run.                                                 *)
LEMMA FlashArguments ==
  /\ Bits # {} /\ StartAddresses \subseteq Nat /\ Lengths \subseteq Nat
  /\ Images \subseteq Seq(SUBSET Bits)
  /\ \A image \in Images, len \in Lengths : len <= Len(image)
BY ToolsAssumption DEF Spi!FlashAssumption

(* No run has begun.                                                       *)
LEMMA FlashInit == Init => FlashInv
<1> SUFFICES ASSUME Init PROVE FlashInv
  OBVIOUS
<1>1. flash \in [Spi!FlashAddresses -> SUBSET Bits]
  BY FlashArguments DEF Init, Spi!Init
<1>2. command \in [read : BOOLEAN, address : Nat, length : Nat, image : Seq(SUBSET Bits)]
  BY EmptySeq DEF Init, Spi!Init, Spi!NoCommand
<1>3. RunInv
  BY <1>1, <1>2 DEF Init, Spi!Init, RunInv, Runs
<1>4. WriteInv /\ ReadInv /\ WrittenIsThere /\ ReadIsFlash
  BY DEF Init, Spi!Init, WriteInv, ReadInv, WrittenIsThere, ReadIsFlash,
     Spi!WrittenIsThere, Spi!ReadIsFlash
<1> QED BY <1>3, <1>4 DEF FlashInv

(* A run begins with nothing transferred.                                  *)
LEMMA StartKeeps == FlashInv /\ Spi!Start => FlashInv'
<1> SUFFICES ASSUME FlashInv, Spi!Start PROVE FlashInv'
  OBVIOUS
<1> USE FlashConstants, FlashArguments
<1>1. /\ step = "idle" /\ flash' = flash /\ read' \in BOOLEAN
      /\ flash \in [Spi!FlashAddresses -> SUBSET Bits]
  BY DEF Spi!Start, FlashInv, RunInv
<1>2. PICK a \in StartAddresses, len \in Lengths, image \in Images :
        IF len = 0 \/ len > MAX_LENGTH
          THEN /\ Spi!End("refused")
               /\ command' = Spi!NoCommand
          ELSE /\ step' = "open" /\ outcome' = "none"
               /\ address' = a /\ length' = len
               /\ data' = IF read' THEN <<>> ELSE SubSeq(image, 1, len)
               /\ command' = [read |-> read', address |-> a, length |-> len,
                              image |-> data']
               /\ done' = 0
  BY DEF Spi!Start
<1>3. CASE len = 0 \/ len > MAX_LENGTH
  <2>1. /\ step' = "idle" /\ outcome' = "refused"
        /\ address' = 0 /\ length' = 0 /\ done' = 0 /\ command' = Spi!NoCommand
    BY <1>2, <1>3 DEF Spi!End
  <2>2. command' \in [read : BOOLEAN, address : Nat, length : Nat, image : Seq(SUBSET Bits)]
    BY <2>1, EmptySeq DEF Spi!NoCommand
  <2> QED
    BY <1>1, <2>1, <2>2 DEF FlashInv, RunInv, Runs, WriteInv, ReadInv, WrittenIsThere,
       ReadIsFlash, Spi!WrittenIsThere, Spi!ReadIsFlash
<1>4. CASE ~(len = 0 \/ len > MAX_LENGTH)
  <2>1. /\ step' = "open" /\ outcome' = "none"
        /\ address' = a /\ length' = len
        /\ data' = IF read' THEN <<>> ELSE SubSeq(image, 1, len)
        /\ command' = [read |-> read', address |-> a, length |-> len, image |-> data']
        /\ done' = 0
    BY <1>2, <1>4
  <2>2. /\ SubSeq(image, 1, len) \in Seq(SUBSET Bits)
        /\ Len(SubSeq(image, 1, len)) = len
    <3>1. image \in Seq(SUBSET Bits) /\ len \in Nat /\ len <= Len(image) /\ len # 0
      BY <1>4
    <3>2. /\ 1 \in 1 .. Len(image) + 1 /\ len \in 0 .. Len(image)
          /\ \A k \in 1 .. len : k \in 1 .. Len(image)
      BY <3>1
    <3> QED BY <3>1, <3>2, SubSeqProperties
  <2>3. /\ data' \in Seq(SUBSET Bits)
        /\ Len(data') = IF read' THEN 0 ELSE len
    BY <1>1, <2>1, <2>2, EmptySeq
  <2>4. command' \in [read : BOOLEAN, address : Nat, length : Nat, image : Seq(SUBSET Bits)]
    BY <1>1, <2>1, <2>3
  <2>5. RunInv'
    BY <1>1, <2>1, <2>3, <2>4 DEF RunInv, Runs
  <2> QED
    BY <2>1, <2>5 DEF FlashInv, WriteInv, ReadInv, WrittenIsThere,
       ReadIsFlash, Spi!WrittenIsThere, Spi!ReadIsFlash
<1> QED BY <1>3, <1>4

(* Reading begins at once, writing with the first part erased.             *)
LEMMA OpenKeeps == FlashInv /\ Spi!Open => FlashInv'
BY DEF Spi!Open, FlashInv, RunInv, Runs, WriteInv, ReadInv, WrittenIsThere, ReadIsFlash,
   Spi!WrittenIsThere, Spi!ReadIsFlash

(* The part that is erased is all ones.                                    *)
LEMMA EraseKeeps == FlashInv /\ Spi!Erase => FlashInv'
<1> SUFFICES ASSUME FlashInv, Spi!Erase PROVE FlashInv'
  OBVIOUS
<1> USE FlashConstants
<1>1. /\ step = "erase" /\ step' = "chunks" /\ done = 0
      /\ UNCHANGED <<runs, read, address, length, data, done, command, outcome>>
      /\ flash' = [a \in Spi!FlashAddresses |-> IF a < EraseSize THEN Bits ELSE flash[a]]
  BY DEF Spi!Erase, Spi!EraseFirst, Spi!Erased, FlashInv, RunInv
<1>2. flash' \in [Spi!FlashAddresses -> SUBSET Bits]
  BY <1>1 DEF FlashInv, RunInv
<1>3. RunInv'
  BY <1>1, <1>2 DEF FlashInv, RunInv, Runs
<1>4. WriteInv'
  <2> SUFFICES ASSUME command.address + command.length <= EraseSize,
                      NEW k \in 1 .. command.length
               PROVE  flash'[command.address + k - 1] = Bits
    BY <1>1 DEF WriteInv
  <2>1. command.address + k - 1 \in 0 .. EraseSize - 1
    BY DEF FlashInv, RunInv
  <2>2. command.address + k - 1 \in Spi!FlashAddresses
    BY <2>1
  <2> QED BY <1>1, <2>1, <2>2
<1>5. ReadInv' /\ WrittenIsThere' /\ ReadIsFlash'
  BY <1>1 DEF FlashInv, RunInv, ReadInv, WrittenIsThere, ReadIsFlash,
     Spi!WrittenIsThere, Spi!ReadIsFlash
<1> QED BY <1>3, <1>4, <1>5 DEF FlashInv

(* Programming keeps the type of the flash, and changes what it names, or  *)
(* what it wraps to.                                                       *)
LEMMA Programmed ==
  ASSUME RunInv, NEW n \in Nat, n <= ChunkSize, address < MAX_LENGTH, Spi!Program(n)
  PROVE  /\ flash' \in [Spi!FlashAddresses -> SUBSET Bits]
         /\ \A a \in Spi!FlashAddresses :
              flash'[a] # flash[a] => a < EraseSize \/ a \in address .. address + n - 1
         /\ address + n <= MAX_LENGTH =>
              \A a \in Spi!FlashAddresses :
                flash'[a] = IF a \in address .. address + n - 1
                              THEN flash[a] \cap Spi!BufferAt(done + (a - address))
                              ELSE flash[a]
<1> USE FlashConstants
<1>1. flash \in [Spi!FlashAddresses -> SUBSET Bits] /\ address \in Nat
  BY DEF RunInv
<1>2. flash' = [a \in Spi!FlashAddresses |->
              IF \E j \in 0 .. n - 1 : (address + j) % MAX_LENGTH = a
                THEN flash[a] \cap Spi!BufferAt(done + ((a - address) % MAX_LENGTH))
                ELSE flash[a]]
  BY DEF Spi!Program
<1>3. flash' \in [Spi!FlashAddresses -> SUBSET Bits]
  BY <1>1, <1>2
<1>4. ASSUME NEW a \in Spi!FlashAddresses, flash'[a] # flash[a]
      PROVE  a < EraseSize \/ a \in address .. address + n - 1
  <2>1. PICK j \in 0 .. n - 1 : (address + j) % MAX_LENGTH = a
    BY <1>2, <1>4
  <2>2. PICK x \in Nat : x = address + j
    BY <1>1
  <2>3. x < 2 * MAX_LENGTH
    BY <1>1, <2>2
  <2>4. /\ x < MAX_LENGTH => x % MAX_LENGTH = x
        /\ x >= MAX_LENGTH => x % MAX_LENGTH = x - MAX_LENGTH
    BY <2>3, Wraps
  <2> QED BY <1>1, <2>1, <2>2, <2>4
<1>5. ASSUME address + n <= MAX_LENGTH, NEW a \in Spi!FlashAddresses
      PROVE  flash'[a] = IF a \in address .. address + n - 1
                           THEN flash[a] \cap Spi!BufferAt(done + (a - address))
                           ELSE flash[a]
  <2>1. \A j \in 0 .. n - 1 : (address + j) % MAX_LENGTH = address + j
    <3> TAKE j \in 0 .. n - 1
    <3>1. PICK x \in Nat : x = address + j
      BY <1>1
    <3>2. x < MAX_LENGTH
      BY <1>1, <1>5, <3>1
    <3> QED BY <3>1, <3>2, Wraps
  <2>2. CASE a \in address .. address + n - 1
    <3>1. PICK x \in Nat : x = a - address
      BY <1>1, <2>2
    <3>2. x % MAX_LENGTH = x
      <4>1. x < MAX_LENGTH
        BY <1>1, <3>1
      <4> QED BY <4>1, Wraps
    <3>3. x \in 0 .. n - 1 /\ (address + x) % MAX_LENGTH = a
      BY <1>1, <2>1, <2>2, <3>1
    <3> QED BY <1>2, <2>2, <3>1, <3>2, <3>3
  <2>3. CASE a \notin address .. address + n - 1
    <3>1. ~ \E j \in 0 .. n - 1 : (address + j) % MAX_LENGTH = a
      <4> SUFFICES ASSUME NEW j \in 0 .. n - 1, (address + j) % MAX_LENGTH = a
                   PROVE  FALSE
        OBVIOUS
      <4>1. a = address + j
        BY <2>1
      <4> QED BY <1>1, <2>3, <4>1
    <3>2. flash'[a] = flash[a]
      BY <1>2, <3>1
    <3> QED BY <2>3, <3>2
  <2> QED BY <2>2, <2>3
<1> QED BY <1>3, <1>4, <1>5

(* What comes next is the next chunk of the command.                       *)
LEMMA NextChunk ==
  ASSUME RunInv, step = "chunks", length > 0
  PROVE  /\ Spi!XferLen \in 1 .. length /\ Spi!XferLen <= ChunkSize
         /\ address = command.address + done /\ done + length = command.length
         /\ command.address \in Nat /\ command.length \in Nat /\ done \in Nat
         /\ length \in Nat /\ address \in Nat /\ Spi!XferLen \in Nat
BY FlashConstants DEF RunInv, Spi!XferLen

(* A chunk is written over what was erased.                                *)
LEMMA WriteChunkKeeps == FlashInv /\ Spi!WriteChunk => FlashInv'
<1> SUFFICES ASSUME FlashInv, Spi!WriteChunk PROVE FlashInv'
  OBVIOUS
<1> DEFINE n == Spi!XferLen
<1>1. /\ step = "chunks" /\ ~read /\ length > 0 /\ address < MAX_LENGTH
      /\ Spi!Program(n)
      /\ address' = address + n /\ done' = done + n /\ length' = length - n
      /\ UNCHANGED <<runs, step, read, data, command, outcome>>
  BY DEF Spi!WriteChunk
<1>2. /\ n \in 1 .. length /\ n <= ChunkSize
      /\ address = command.address + done /\ done + length = command.length
      /\ command.address \in Nat /\ command.length \in Nat /\ done \in Nat
      /\ length \in Nat /\ address \in Nat /\ n \in Nat
  BY <1>1, NextChunk DEF FlashInv
<1> HIDE DEF n
<1>3. /\ flash' \in [Spi!FlashAddresses -> SUBSET Bits]
      /\ address + n <= MAX_LENGTH =>
           \A a \in Spi!FlashAddresses :
             flash'[a] = IF a \in address .. address + n - 1
                           THEN flash[a] \cap Spi!BufferAt(done + (a - address))
                           ELSE flash[a]
  <2>1. RunInv /\ n \in Nat
    BY <1>2 DEF FlashInv
  <2>2. Spi!Program(n)
    BY <1>1
  <2> QED BY <1>1, <1>2, <2>1, <2>2, Programmed
<1>4. RunInv'
  BY <1>1, <1>2, <1>3 DEF FlashInv, RunInv, Runs
<1>5. WriteInv'
  <2> SUFFICES ASSUME command.address + command.length <= EraseSize,
                      NEW k \in 1 .. command.length
               PROVE  flash'[command.address + k - 1] = IF k <= done + n THEN data[k] ELSE Bits
    BY <1>1 DEF WriteInv
  <2>1. flash[command.address + k - 1] = IF k <= done THEN data[k] ELSE Bits
    BY <1>1 DEF FlashInv, WriteInv
  <2>2. PICK a \in Spi!FlashAddresses : a = command.address + k - 1
    BY <1>2, FlashConstants
  <2>3. flash'[a] = IF a \in address .. address + n - 1
                      THEN flash[a] \cap Spi!BufferAt(done + (a - address))
                      ELSE flash[a]
    <3>1. address + n <= MAX_LENGTH
      BY <1>2, FlashConstants
    <3> QED BY <1>3, <3>1
  <2>4. CASE a \in address .. address + n - 1
    <3>1. PICK x \in Nat : x = done + (a - address)
      BY <1>2, <2>4
    <3>2. x = k - 1 /\ k > done /\ k <= done + n
      <4>1. k \in Nat /\ a \in Nat /\ address \in Nat /\ n \in Nat
        BY <1>2, FlashConstants
      <4> QED BY <1>2, <2>2, <2>4, <3>1, <4>1
    <3>3. data \in Seq(SUBSET Bits) /\ Len(data) = command.length
      BY <1>1 DEF FlashInv, RunInv
    <3>4. Spi!BufferAt(x) = data[k] /\ data[k] \subseteq Bits
      BY <1>2, <3>2, <3>3 DEF Spi!BufferAt
    <3> QED BY <1>2, <2>1, <2>2, <2>3, <2>4, <3>1, <3>2, <3>4
  <2>5. CASE a \notin address .. address + n - 1
    BY <1>2, <2>1, <2>2, <2>3, <2>5
  <2> QED BY <2>4, <2>5
<1>6. ReadInv' /\ WrittenIsThere' /\ ReadIsFlash'
  BY <1>1 DEF FlashInv, RunInv, ReadInv, WrittenIsThere, ReadIsFlash,
     Spi!WrittenIsThere, Spi!ReadIsFlash
<1> QED BY <1>4, <1>5, <1>6 DEF FlashInv

(* A chunk is put behind those that were read before.                      *)
LEMMA ReadChunkKeeps == FlashInv /\ Spi!ReadChunk => FlashInv'
<1> SUFFICES ASSUME FlashInv, Spi!ReadChunk PROVE FlashInv'
  OBVIOUS
<1> DEFINE n == Spi!XferLen
           chunk == Spi!FlashBytes(n)
<1>1. /\ step = "chunks" /\ read /\ length > 0
      /\ data' = data \o chunk
      /\ address' = address + n /\ done' = done + n /\ length' = length - n
      /\ UNCHANGED <<flash, runs, step, read, command, outcome>>
  BY DEF Spi!ReadChunk
<1>2. /\ n \in 1 .. length /\ n <= ChunkSize
      /\ address = command.address + done /\ done + length = command.length
      /\ command.address \in Nat /\ command.length \in Nat /\ done \in Nat
      /\ length \in Nat /\ address \in Nat /\ n \in Nat
  BY <1>1, NextChunk DEF FlashInv
<1> HIDE DEF n
<1>3. /\ data \in Seq(SUBSET Bits) /\ Len(data) = done
      /\ flash \in [Spi!FlashAddresses -> SUBSET Bits] /\ address \in Nat
  BY <1>1 DEF FlashInv, RunInv
<1>4. chunk \in Seq(SUBSET Bits) /\ Len(chunk) = n
      /\ \A k \in 1 .. n : chunk[k] = flash[(address + k - 1) % MAX_LENGTH]
  <2>1. ASSUME NEW k \in 1 .. n PROVE flash[(address + k - 1) % MAX_LENGTH] \in SUBSET Bits
    <3>1. PICK x \in Nat : x = address + k - 1
      BY <1>2, <1>3
    <3>2. x % MAX_LENGTH \in Spi!FlashAddresses
      BY FlashConstants, Wraps
    <3> QED BY <1>3, <3>1, <3>2
  <2>2. chunk \in [1 .. n -> SUBSET Bits]
    BY <2>1 DEF Spi!FlashBytes
  <2>3. chunk \in Seq(SUBSET Bits) /\ Len(chunk) = n
    <3> HIDE DEF chunk
    <3> QED BY <1>2, <2>2, SeqDef
  <2>4. \A k \in 1 .. n : chunk[k] = flash[(address + k - 1) % MAX_LENGTH]
    BY DEF Spi!FlashBytes
  <2> QED BY <2>3, <2>4
<1> HIDE DEF chunk
<1>5. /\ data' \in Seq(SUBSET Bits) /\ Len(data') = done + n
      /\ \A k \in 1 .. done + n : data'[k] = IF k <= done THEN data[k] ELSE chunk[k - done]
  <2>1. PICK c : c = chunk
    OBVIOUS
  <2>2. c \in Seq(SUBSET Bits) /\ Len(c) = n /\ data' = data \o c
    BY <1>1, <1>4, <2>1
  <2>3. /\ data \o c \in Seq(SUBSET Bits) /\ Len(data \o c) = Len(data) + Len(c)
        /\ \A k \in 1 .. Len(data) + Len(c) :
             (data \o c)[k] = IF k <= Len(data) THEN data[k] ELSE c[k - Len(data)]
    BY <1>3, <2>2, ConcatProperties, Zenon
  <2> QED BY <1>3, <2>1, <2>2, <2>3
<1>6. RunInv'
  <2>1. /\ RunInv /\ n \in Nat /\ length - n \in Nat
        /\ address + n = command.address + (done + n)
        /\ (done + n) + (length - n) = command.length
    BY <1>2, <1>3 DEF FlashInv
  <2>2. address' \in Nat /\ length' \in Nat /\ done' \in Nat
    BY <1>1, <1>2, <2>1
  <2> QED BY <1>1, <1>5, <2>1, <2>2 DEF RunInv, Runs
<1>7. ReadInv'
  <2> SUFFICES ASSUME command.address + command.length <= MAX_LENGTH,
                      NEW k \in 1 .. done + n
               PROVE  data'[k] = flash[command.address + k - 1]
    BY <1>1 DEF ReadInv
  <2>1. CASE k <= done
    <3>1. k \in 1 .. done
      BY <1>2, <2>1
    <3>2. data[k] = flash[command.address + k - 1]
      BY <1>1, <3>1 DEF FlashInv, ReadInv
    <3> QED BY <1>5, <2>1, <3>2
  <2>2. CASE k > done
    <3>1. PICK j \in 1 .. n : j = k - done
      BY <1>2, <2>2
    <3>2. PICK x \in Nat : x = address + j - 1
      BY <1>3
    <3>3. x < MAX_LENGTH /\ x = command.address + k - 1
      BY <1>2, <3>1, <3>2, FlashConstants
    <3>4. x % MAX_LENGTH = x
      BY <3>3, FlashConstants, Wraps
    <3>5. data'[k] = chunk[j]
      BY <1>2, <1>5, <2>2, <3>1
    <3> QED BY <1>4, <3>2, <3>3, <3>4, <3>5
  <2> QED BY <1>2, <2>1, <2>2
<1>8. WriteInv' /\ WrittenIsThere' /\ ReadIsFlash'
  BY <1>1 DEF FlashInv, RunInv, WriteInv, WrittenIsThere, ReadIsFlash,
     Spi!WrittenIsThere, Spi!ReadIsFlash
<1> QED BY <1>6, <1>7, <1>8 DEF FlashInv

(* All chunks done, the properties follow.                                 *)
LEMMA FinishKeeps == FlashInv /\ Spi!Finish => FlashInv'
<1> SUFFICES ASSUME FlashInv, Spi!Finish PROVE FlashInv'
  OBVIOUS
<1>1. /\ step = "chunks" /\ length = 0
      /\ step' = "idle" /\ outcome' = "success"
      /\ address' = 0 /\ length' = 0 /\ data' = <<>> /\ done' = 0
      /\ command' = IF read THEN [command EXCEPT !.image = data] ELSE command
      /\ UNCHANGED <<flash, runs, read>>
  BY DEF Spi!Finish, Spi!End
<1>2. /\ command \in [read : BOOLEAN, address : Nat, length : Nat, image : Seq(SUBSET Bits)]
      /\ command.read = read /\ read \in BOOLEAN
      /\ data \in Seq(SUBSET Bits) /\ done = command.length
      /\ Len(data) = command.length
      /\ ~read => data = command.image
  BY <1>1 DEF FlashInv, RunInv
<1>3. /\ command' \in [read : BOOLEAN, address : Nat, length : Nat, image : Seq(SUBSET Bits)]
      /\ command'.read = read /\ command'.address = command.address
      /\ command'.length = command.length /\ command'.image = data
  <2>1. CASE read
    <3>1. command' = [command EXCEPT !.image = data]
      BY <1>1, <2>1
    <3> QED BY <1>2, <3>1
  <2>2. CASE ~read
    BY <1>1, <1>2, <2>2
  <2> QED BY <2>1, <2>2
<1>4. RunInv' /\ WriteInv' /\ ReadInv'
  BY <1>1, <1>3 DEF FlashInv, RunInv, Runs, WriteInv, ReadInv
<1>5. WrittenIsThere'
  BY <1>1, <1>2, <1>3 DEF FlashInv, WriteInv, WrittenIsThere, Spi!WrittenIsThere
<1>6. ReadIsFlash'
  BY <1>1, <1>2, <1>3 DEF FlashInv, ReadInv, ReadIsFlash, Spi!ReadIsFlash
<1> QED BY <1>4, <1>5, <1>6 DEF FlashInv

(* A run that fails promises nothing.                                      *)
LEMMA FailKeeps == FlashInv /\ Spi!Fail => FlashInv'
<1> SUFFICES ASSUME FlashInv, Spi!Fail PROVE FlashInv'
  OBVIOUS
<1> USE FlashConstants
<1>1. /\ step' = "idle" /\ outcome' = "failure"
      /\ address' = 0 /\ length' = 0 /\ data' = <<>> /\ done' = 0
      /\ UNCHANGED <<runs, read, command>>
      /\ \/ UNCHANGED flash
         \/ step = "erase" /\ Spi!EraseFirst
         \/ /\ step = "chunks" /\ ~read /\ length > 0 /\ address < MAX_LENGTH
            /\ \E n \in 1 .. Spi!XferLen : Spi!Program(n)
  BY DEF Spi!Fail, Spi!End
<1>2. flash' \in [Spi!FlashAddresses -> SUBSET Bits]
  <2>1. CASE UNCHANGED flash
    BY <2>1 DEF FlashInv, RunInv
  <2>2. CASE Spi!EraseFirst
    BY <2>2 DEF FlashInv, RunInv, Spi!EraseFirst, Spi!Erased
  <2>3. CASE /\ step = "chunks" /\ ~read /\ length > 0 /\ address < MAX_LENGTH
             /\ \E n \in 1 .. Spi!XferLen : Spi!Program(n)
    <3>1. PICK n \in 1 .. Spi!XferLen : Spi!Program(n)
      BY <2>3
    <3>2. n \in Nat /\ n <= ChunkSize
      BY <2>3, NextChunk DEF FlashInv
    <3> QED BY <2>3, <3>1, <3>2, Programmed DEF FlashInv
  <2> QED BY <1>1, <2>1, <2>2, <2>3
<1>3. RunInv'
  BY <1>1, <1>2 DEF FlashInv, RunInv, Runs
<1> QED
  BY <1>1, <1>3 DEF FlashInv, WriteInv, ReadInv, WrittenIsThere, ReadIsFlash,
     Spi!WrittenIsThere, Spi!ReadIsFlash

(* Every step keeps the invariant.                                         *)
LEMMA FlashNext == FlashInv /\ [Next]_vars => FlashInv'
<1> SUFFICES ASSUME FlashInv, [Next]_vars PROVE FlashInv'
  OBVIOUS
<1>1. CASE FlashStep
  BY <1>1, StartKeeps, OpenKeeps, EraseKeeps, WriteChunkKeeps, ReadChunkKeeps,
     FinishKeeps, FailKeeps
     DEF FlashStep, Spi!Next
<1>2. ASSUME UNCHANGED flashvars PROVE FlashInv'
  BY <1>2 DEF flashvars, FlashInv, RunInv, WriteInv, ReadInv, WrittenIsThere,
     ReadIsFlash, Spi!WrittenIsThere, Spi!ReadIsFlash
<1> QED BY <1>1, <1>2 DEF Next, RegisterStep, Finished, vars

(* However many runs failed before, an image that is reported as written   *)
(* within the part that is erased is in the flash.                         *)
THEOREM WrittenIsInFlash == Spec => []WrittenIsThere
<1>1. FlashInv => WrittenIsThere
  BY DEF FlashInv
<1> QED BY <1>1, FlashInit, FlashNext, PTL DEF Spec

(* A file that was read holds what the flash holds from the address on,    *)
(* for every length and every size of a transfer.                          *)
THEOREM FileReadIsFlash == Spec => []ReadIsFlash
<1>1. FlashInv => ReadIsFlash
  BY DEF FlashInv
<1> QED BY <1>1, FlashInit, FlashNext, PTL DEF Spec

(* Whatever fails, and although addresses wrap at the end of the flash, no *)
(* byte changes outside the first 64 KB and the place of the image.        *)
THEOREM RestOfFlashIsKept == Spec => OthersAreKept
<1>1. FlashInv /\ [Next]_vars =>
        [\A a \in Spi!FlashAddresses :
           flash'[a] # flash[a] =>
             /\ ~command.read
             /\ \/ a < EraseSize
                \/ a \in command.address .. command.address + command.length - 1]_(Spi!flashvars)
  <2> SUFFICES ASSUME FlashInv, [Next]_vars, NEW a \in Spi!FlashAddresses,
                      flash'[a] # flash[a]
               PROVE  /\ ~command.read
                      /\ \/ a < EraseSize
                         \/ a \in command.address .. command.address + command.length - 1
    OBVIOUS
  <2> USE FlashConstants
  <2>1. CASE FlashStep
    <3>1. flash' # flash
      OBVIOUS
    <3>2. CASE Spi!EraseFirst /\ step = "erase"
      <4>1. a < EraseSize
        BY <3>2 DEF Spi!EraseFirst
      <4>2. ~command.read
        BY <3>2 DEF FlashInv, RunInv
      <4> QED BY <4>1, <4>2
    <3>3. CASE /\ step = "chunks" /\ ~read /\ length > 0 /\ address < MAX_LENGTH
               /\ \E n \in 1 .. Spi!XferLen : Spi!Program(n)
      <4>1. PICK n \in 1 .. Spi!XferLen : Spi!Program(n)
        BY <3>3
      <4>2. /\ Spi!XferLen \in 1 .. length /\ Spi!XferLen <= ChunkSize
            /\ address = command.address + done /\ done + length = command.length
            /\ command.address \in Nat /\ command.length \in Nat /\ done \in Nat
            /\ length \in Nat
        BY <3>3, NextChunk DEF FlashInv
      <4>3. a < EraseSize \/ a \in address .. address + n - 1
        BY <3>3, <4>1, <4>2, Programmed DEF FlashInv
      <4>4. ~command.read
        BY <3>3 DEF FlashInv, RunInv
      <4> QED BY <4>2, <4>3, <4>4
    <3>4. CASE Spi!WriteChunk
      <4>1. Spi!XferLen \in 1 .. Spi!XferLen
        BY <3>4, NextChunk DEF FlashInv, Spi!WriteChunk
      <4> QED BY <3>3, <3>4, <4>1 DEF Spi!WriteChunk
    <3> QED
      BY <2>1, <3>1, <3>2, <3>3, <3>4
      DEF FlashStep, Spi!Next, Spi!Start, Spi!Open, Spi!Erase, Spi!ReadChunk, Spi!Finish,
          Spi!Fail
  <2> QED BY <2>1 DEF Next, RegisterStep, Finished, vars, flashvars
<1>2. Spec => []FlashInv
  BY FlashInit, FlashNext, PTL DEF Spec
<1> QED BY <1>1, <1>2, PTL DEF Spec, OthersAreKept, Spi!OthersAreKept

-----------------------------------------------------------------------------
(* Registers and pins.                                                     *)

(* What an option does, and what it may write.                             *)
Operations == {"none", "read", "write", "config"}
Values     == {"", "0", "1", "conf", 0}

(* The numbers that the options of a tool leave.                           *)
ChoiceInv ==
  /\ DOMAIN registers = Registers!Addresses
  /\ tool \in Registers!RegisterToolNames \cup Registers!PinToolNames
  /\ number = Registers!None \/ number \in
       CASE tool = "si5351c" -> Registers!Addresses
         [] tool = "r820t"   -> 0 .. R820T_REGISTERS - 1
         [] OTHER            -> 0 .. Pins - 1
  /\ port = Registers!None \/ port \in 0 .. Ports - 1

(* An option that is being obeyed, and what has been obeyed of it.         *)
AccessInv ==
  /\ access \in [op : Operations, at : Nat, first : Nat, last : Nat, value : Values]
  /\ access.op = "none" <=> access = Registers!NoAccess
  /\ access.op # "none" =>
       access.at \in access.first .. access.last /\ access.last \in Registers!Addresses
  /\ access.op = "write" =>
       access.at = Registers!Address /\ access.first = access.last
  /\ access.op = "config" =>
       /\ tool = "r820t"
       /\ \A a \in access.first .. access.at - 1 : registers[a] = access.value
  /\ access.op = "read" =>
       \A a \in access.first .. access.at - 1 :
         a \in printed \/ (tool \in Registers!PinToolNames /\ a % Pins # Pins - 1)

ToolInv == ChoiceInv /\ AccessInv

(* The constants of the register tools.                                    *)
LEMMA ToolConstants ==
  /\ Bytes \in Nat \ {0} /\ Ports \in Nat \ {0} /\ Pins \in Nat \ {0}
  /\ R820T_REGISTERS \in 1 .. Bytes - 1
  /\ CONF_R820T_START_REG \in 0 .. R820T_REGISTERS - 1
  /\ MsFirst \in 0 .. Bytes - 1 /\ MsLast \in MsFirst .. Bytes - 1
  /\ Registers!Addresses = 0 .. Bytes - 1 /\ Registers!None = -1
BY ToolsAssumption DEF Registers!RegistersAssumption, Registers!Addresses, Registers!None

(* A byte names a port and a pin.                                          *)
LEMMA PortsTimesPins == Ports * Pins = Bytes
BY ToolsAssumption DEF Registers!RegistersAssumption

(* A port and a pin make a byte, from which both can be had back.          *)
LEMMA PortAndPin ==
  ASSUME NEW p \in 0 .. Ports - 1, NEW n \in 0 .. Pins - 1
  PROVE  LET x == (p * Pins + n) % Bytes
         IN  /\ x = p * Pins + n /\ x \in Registers!Addresses
             /\ x % Pins = n /\ x \div Pins = p
<1> USE ToolConstants
<1>1. PICK x \in Nat : x = p * Pins + n
  OBVIOUS
<1>2. x < Bytes
  <2>1. p + 1 <= Ports
    OBVIOUS
  <2>2. (p + 1) * Pins <= Ports * Pins
    BY <2>1
  <2>3. (p + 1) * Pins = p * Pins + Pins
    OBVIOUS
  <2> QED BY <1>1, <2>2, <2>3, PortsTimesPins
<1>3. x % Bytes = x
  BY <1>2, Wraps
<1>4. x % Pins = n /\ x \div Pins = p
  BY <1>1, DivMod
<1> QED BY <1>1, <1>2, <1>3, <1>4

(* So ports and pins are not more than a byte's values.                    *)
LEMMA PinsFit == Pins <= Bytes /\ Ports <= Bytes
<1> USE ToolConstants
<1>1. (Ports - 1) * Pins \in Nat /\ Ports * (Pins - 1) \in Nat
  OBVIOUS
<1>2. Ports * Pins = (Ports - 1) * Pins + Pins /\ Ports * Pins = Ports * (Pins - 1) + Ports
  OBVIOUS
<1> QED BY <1>1, <1>2, PortsTimesPins

(* What -w addresses is what was named, if there was a name.               *)
LEMMA Named ==
  ASSUME ChoiceInv
  PROVE  /\ Registers!Address \in Registers!Addresses
         /\ number # Registers!None =>
              IF tool \in Registers!RegisterToolNames THEN Registers!Address = number
              ELSE /\ Registers!Address % Pins = number
                   /\ port # Registers!None => Registers!Address \div Pins = port
<1> USE ToolConstants
<1>1. CASE tool = "si5351c"
  <2>1. tool \in Registers!RegisterToolNames
    BY <1>1 DEF Registers!RegisterToolNames
  <2>2. Registers!Address = IF number = Registers!None THEN 0 ELSE number
    BY <1>1 DEF Registers!Address, Registers!PinToolNames
  <2>3. number = Registers!None \/ number \in Registers!Addresses
    BY <1>1 DEF ChoiceInv
  <2>4. /\ Registers!Address \in Registers!Addresses
        /\ number # Registers!None => Registers!Address = number
    <3>1. CASE number = Registers!None
      <4>1. 0 \in Registers!Addresses /\ Bytes - 1 \in Registers!Addresses
        OBVIOUS
      <4> QED BY <2>2, <3>1, <4>1, Zenon
    <3>2. CASE number # Registers!None
      <4>1. \A k \in 0 .. R820T_REGISTERS - 1 : k \in Registers!Addresses
        OBVIOUS
      <4> QED BY <2>2, <2>3, <3>2, <4>1, Zenon
    <3> QED BY <3>1, <3>2
  <2> QED BY <2>1, <2>4, Zenon
<1>2. CASE tool = "r820t"
  <2>1. tool \in Registers!RegisterToolNames
    BY <1>2 DEF Registers!RegisterToolNames
  <2>2. Registers!Address = IF number = Registers!None THEN Bytes - 1 ELSE number
    BY <1>2 DEF Registers!Address, Registers!PinToolNames
  <2>3. number = Registers!None \/ number \in 0 .. R820T_REGISTERS - 1
    BY <1>2 DEF ChoiceInv
  <2>4. /\ Registers!Address \in Registers!Addresses
        /\ number # Registers!None => Registers!Address = number
    <3>1. CASE number = Registers!None
      <4>1. 0 \in Registers!Addresses /\ Bytes - 1 \in Registers!Addresses
        OBVIOUS
      <4> QED BY <2>2, <3>1, <4>1, Zenon
    <3>2. CASE number # Registers!None
      <4>1. \A k \in 0 .. R820T_REGISTERS - 1 : k \in Registers!Addresses
        OBVIOUS
      <4> QED BY <2>2, <2>3, <3>2, <4>1, Zenon
    <3> QED BY <3>1, <3>2
  <2> QED BY <2>1, <2>4, Zenon
<1>3. CASE tool \in Registers!PinToolNames
  <2>1. /\ tool \notin Registers!RegisterToolNames
        /\ Registers!Address = Registers!PortPin
    BY <1>3 DEF Registers!PinToolNames, Registers!RegisterToolNames, Registers!Address
  <2>2. CASE number = Registers!None
    BY <2>1, <2>2 DEF Registers!PortPin
  <2>3. CASE number # Registers!None
    <3>1. number \in 0 .. Pins - 1
      BY <1>3, <2>3 DEF ChoiceInv, Registers!PinToolNames
    <3>2. PICK p \in 0 .. Ports - 1 : p = IF port = Registers!None THEN Ports - 1 ELSE port
      BY DEF ChoiceInv
    <3>3. Registers!PortPin = (p * Pins + number) % Bytes
      BY <2>3, <3>2 DEF Registers!PortPin
    <3>4. /\ Registers!PortPin \in Registers!Addresses
          /\ Registers!PortPin % Pins = number /\ Registers!PortPin \div Pins = p
      BY <3>1, <3>3, PortAndPin
    <3> QED BY <2>1, <3>2, <3>4
  <2> QED BY <2>2, <2>3
<1> QED BY <1>1, <1>2, <1>3 DEF ChoiceInv, Registers!RegisterToolNames

(* A port's pins are addresses.                                            *)
LEMMA PortIsRange ==
  ASSUME NEW p \in 0 .. Ports - 1
  PROVE  /\ p * Pins \in Nat /\ p * Pins + Pins - 1 \in Registers!Addresses
         /\ p * Pins <= p * Pins + Pins - 1
<1> USE ToolConstants
<1>1. Pins - 1 \in 0 .. Pins - 1
  OBVIOUS
<1>2. p * Pins + (Pins - 1) \in Registers!Addresses
  BY <1>1, PortAndPin
<1>3. p * Pins \in Nat
  OBVIOUS
<1> QED BY <1>2, <1>3

(* Nothing is named or accessed at first.                                  *)
LEMMA ToolInit == Init => ToolInv
<1> SUFFICES ASSUME Init PROVE ToolInv
  OBVIOUS
<1>1. ChoiceInv
  BY DEF Init, Registers!Init, ChoiceInv
<1>2. AccessInv
  BY DEF Init, Registers!Init, AccessInv, Registers!NoAccess, Operations, Values
<1> QED BY <1>1, <1>2 DEF ToolInv

(* An option that chooses, or one that fails, is obeyed at once.           *)
LEMMA ChosenKeeps ==
  ASSUME ToolInv, access = Registers!NoAccess, ChoiceInv', access' = access
  PROVE  ToolInv'
BY DEF ToolInv, AccessInv, Registers!NoAccess

(* Any other begins an access at its first address.                        *)
LEMMA AccessKeeps ==
  ASSUME ToolInv, NEW op \in {"read", "write", "config"}, NEW first \in Nat,
         NEW last \in Registers!Addresses, first <= last, NEW value \in Values,
         Registers!Access(op, first, last, value),
         op = "write" => first = Registers!Address /\ last = Registers!Address,
         op = "config" => tool = "r820t"
  PROVE  ToolInv'
<1> USE ToolConstants
<1>1. /\ access' = [op |-> op, at |-> first, first |-> first, last |-> last,
                    value |-> value]
      /\ UNCHANGED <<tool, registers, number, port>>
  BY DEF Registers!Access, Registers!NextOption, Registers!choice
<1>2. ChoiceInv' /\ Registers!Address' = Registers!Address
  BY <1>1 DEF ToolInv, ChoiceInv, Registers!Address, Registers!PortPin
<1>3. AccessInv'
  <2>1. access' \in [op : Operations, at : Nat, first : Nat, last : Nat, value : Values]
    BY <1>1 DEF Operations
  <2>2. access'.op # "none" /\ access' # Registers!NoAccess
    BY <1>1 DEF Registers!NoAccess
  <2>3. ~ \E a : a \in first .. first - 1
    OBVIOUS
  <2> QED BY <1>1, <1>2, <2>1, <2>2, <2>3 DEF AccessInv
<1> QED BY <1>2, <1>3 DEF ToolInv

(* The options.                                                            *)
LEMMA OptionKeeps ==
  ASSUME ToolInv,
         \/ Registers!Si5351c \/ Registers!R820t \/ Registers!Gpio \/ Registers!Gpiodir
  PROVE  ToolInv'
<1> USE ToolConstants DEF Registers!choice
<1>1. /\ access = Registers!NoAccess
      /\ UNCHANGED <<tool, registers>>
  BY DEF Registers!Si5351c, Registers!R820t, Registers!Gpio, Registers!Gpiodir,
     Registers!PinTool, Registers!SiNumber, Registers!R820tNumber, Registers!PinNumber,
     Registers!PinPort, Registers!Write, Registers!SiRead, Registers!R820tRead,
     Registers!PinRead, Registers!SiConfiguration, Registers!R820tConfigure,
     Registers!SiSerial, Registers!Unknown, Registers!Access, Registers!NextOption
<1>2. ASSUME access' = access, number' = number, port' = port PROVE ToolInv'
  BY <1>1, <1>2, ChosenKeeps DEF ToolInv, ChoiceInv
<1>3. CASE Registers!Unknown \/ Registers!SiSerial
  BY <1>2, <1>3 DEF Registers!Unknown, Registers!SiSerial, Registers!Chosen
<1>4. CASE tool = "si5351c" /\ Registers!SiNumber
  <2>1. PICK text \in Registers!Texts :
          IF text = Registers!NotANumber
            THEN Registers!Chosen("error") /\ UNCHANGED number
            ELSE Registers!Chosen("success") /\ number' = text % Bytes
    BY <1>4 DEF Registers!SiNumber
  <2>2. port' = port /\ access' = access
    BY <1>4, <2>1 DEF Registers!SiNumber, Registers!Chosen
  <2>3. number' = number \/ number' \in Registers!Addresses
    <3>1. text % Bytes \in 0 .. Bytes - 1
      BY DEF Registers!Texts, Registers!NotANumber
    <3> QED BY <2>1, <3>1
  <2>4. ChoiceInv'
    BY <1>1, <1>4, <2>2, <2>3 DEF ToolInv, ChoiceInv
  <2> QED BY <1>1, <2>2, <2>4, ChosenKeeps
<1>5. CASE tool = "r820t" /\ Registers!R820tNumber
  <2>1. /\ number' = Registers!None \/ number' \in 0 .. R820T_REGISTERS - 1
        /\ port' = port /\ access' = access
    BY <1>5 DEF Registers!R820tNumber, Registers!Chosen
  <2>2. ChoiceInv'
    BY <1>1, <1>5, <2>1 DEF ToolInv, ChoiceInv
  <2> QED BY <1>1, <2>1, <2>2, ChosenKeeps
<1>6. CASE tool \in Registers!PinToolNames /\ (Registers!PinNumber \/ Registers!PinPort)
  <2>1. /\ number' = number \/ number' \in 0 .. Pins - 1
        /\ port' = port \/ port' \in 0 .. Ports - 1
        /\ access' = access
    BY <1>6 DEF Registers!PinNumber, Registers!PinPort, Registers!Chosen
  <2>2. tool # "si5351c" /\ tool # "r820t"
    BY <1>6 DEF Registers!PinToolNames
  <2>3. ChoiceInv'
    BY <1>1, <2>1, <2>2 DEF ToolInv, ChoiceInv
  <2> QED BY <1>1, <2>1, <2>3, ChosenKeeps
<1>7. CASE Registers!Write
  <2>1. Registers!Address \in Registers!Addresses
    BY Named DEF ToolInv
  <2>2. ASSUME NEW value \in {"0", "1"},
               Registers!Access("write", Registers!Address, Registers!Address, value)
        PROVE  ToolInv'
    <3>1. PICK a \in Registers!Addresses : a = Registers!Address
      BY <2>1
    <3>2. a \in Nat /\ a <= a
      OBVIOUS
    <3>4. value \in Values
      BY DEF Values
    <3>3. Registers!Access("write", a, a, value)
      BY <2>2, <3>1
    <3> QED BY <3>1, <3>2, <3>3, <3>4, AccessKeeps
  <2>3. CASE Registers!NextOption /\ Registers!Chosen("error") /\ UNCHANGED Registers!choice
    BY <1>2, <2>3 DEF Registers!Chosen
  <2> QED BY <1>7, <2>2, <2>3 DEF Registers!Write
<1>8. ASSUME NEW first \in Nat, NEW last \in Registers!Addresses, first <= last,
             Registers!Access("read", first, last, "")
      PROVE  ToolInv'
  <2>1. "" \in Values
    BY DEF Values
  <2> QED BY <1>8, <2>1, AccessKeeps
<1>9. ASSUME Registers!Access("read", Registers!Address, Registers!Address, "")
      PROVE  ToolInv'
  <2>1. PICK a \in Registers!Addresses : a = Registers!Address
    BY Named DEF ToolInv
  <2>2. a \in Nat /\ a <= a
    OBVIOUS
  <2>3. Registers!Access("read", a, a, "")
    BY <1>9, <2>1
  <2> QED BY <1>8, <2>2, <2>3
<1>10. ASSUME NEW last \in Registers!Addresses, Registers!Access("read", 0, last, "")
       PROVE  ToolInv'
  <2>1. 0 \in Nat /\ 0 <= last
    OBVIOUS
  <2> QED BY <1>8, <1>10, <2>1
<1>11. CASE Registers!SiRead \/ Registers!R820tRead
  <2>1. Bytes - 1 \in Registers!Addresses /\ R820T_REGISTERS - 1 \in Registers!Addresses
    OBVIOUS
  <2> QED BY <1>9, <1>10, <1>11, <2>1 DEF Registers!SiRead, Registers!R820tRead
<1>12. CASE Registers!PinRead
  <2>1. CASE port = Registers!None
    <3>1. Bytes - 1 \in Registers!Addresses
      OBVIOUS
    <3> QED BY <1>10, <1>12, <2>1, <3>1 DEF Registers!PinRead
  <2>2. CASE port # Registers!None /\ number = Registers!None
    <3>1. PICK p \in 0 .. Ports - 1 : p = port
      BY <2>2 DEF ToolInv, ChoiceInv
    <3>2. /\ p * Pins \in Nat /\ p * Pins + Pins - 1 \in Registers!Addresses
          /\ p * Pins <= p * Pins + Pins - 1
      BY PortIsRange
    <3>3. Registers!Access("read", p * Pins, p * Pins + Pins - 1, "")
      BY <1>12, <2>2, <3>1 DEF Registers!PinRead
    <3> QED BY <1>8, <3>2, <3>3
  <2>3. CASE port # Registers!None /\ number # Registers!None
    BY <1>9, <1>12, <2>3 DEF Registers!PinRead
  <2> QED BY <2>1, <2>2, <2>3
<1>13. CASE Registers!SiConfiguration
  <2>1. MsFirst \in Nat /\ MsLast \in Registers!Addresses /\ MsFirst <= MsLast
    OBVIOUS
  <2>2. Registers!Access("read", MsFirst, MsLast, "")
    BY <1>13 DEF Registers!SiConfiguration
  <2> QED BY <1>8, <2>1, <2>2
<1>14. CASE tool = "r820t" /\ Registers!R820tConfigure
  <2>1. /\ Registers!Access("config", CONF_R820T_START_REG, R820T_REGISTERS - 1, "conf")
        /\ CONF_R820T_START_REG \in Nat /\ R820T_REGISTERS - 1 \in Registers!Addresses
        /\ CONF_R820T_START_REG <= R820T_REGISTERS - 1
        /\ "conf" \in Values
    BY <1>14 DEF Registers!R820tConfigure, Values
  <2> QED BY <1>14, <2>1, AccessKeeps
<1> QED
  BY <1>3, <1>4, <1>5, <1>6, <1>7, <1>11, <1>12, <1>13, <1>14
  DEF Registers!Si5351c, Registers!R820t, Registers!Gpio, Registers!Gpiodir,
      Registers!PinTool, Registers!PinToolNames

(* One register or pin more.                                               *)
LEMMA ObeyKeeps ==
  ASSUME ToolInv, Registers!ReadOne \/ Registers!WriteOne
  PROVE  ToolInv'
<1> USE ToolConstants DEF Registers!choice
<1>1. /\ access.op # "none"
      /\ UNCHANGED <<tool, number, port>>
      /\ \E answer \in Registers!Outcomes : Registers!Advance(answer)
  BY DEF Registers!ReadOne, Registers!WriteOne
<1>2. /\ access \in [op : Operations, at : Nat, first : Nat, last : Nat, value : Values]
      /\ access.at \in access.first .. access.last /\ access.last \in Registers!Addresses
  BY <1>1 DEF ToolInv, AccessInv
<1>3. ChoiceInv' /\ Registers!Address' = Registers!Address
  <2>1. DOMAIN registers' = DOMAIN registers
    BY DEF Registers!ReadOne, Registers!WriteOne
  <2> QED BY <1>1, <2>1 DEF ToolInv, ChoiceInv, Registers!Address, Registers!PortPin
<1>4. CASE access' = Registers!NoAccess
  <2>1. AccessInv'
    BY <1>4 DEF AccessInv, Registers!NoAccess, Operations, Values
  <2> QED BY <1>3, <2>1 DEF ToolInv
<1>5. CASE access' # Registers!NoAccess
  <2>1. PICK answer \in Registers!Outcomes :
          /\ Registers!Advance(answer)
          /\ \/ /\ access.op = "read" /\ registers' = registers
                /\ printed' = IF answer = "success" THEN printed \cup {access.at}
                                                      ELSE printed
             \/ /\ access.op \in {"write", "config"} /\ printed' = printed
                /\ \/ registers' = [registers EXCEPT ![access.at] = access.value]
                   \/ answer = "error"
    BY DEF Registers!ReadOne, Registers!WriteOne
  <2>2. ~Registers!StopsAt(answer) /\ access' = [access EXCEPT !.at = @ + 1]
    BY <1>5, <2>1 DEF Registers!Advance
  <2>3. /\ access.at # access.last
        /\ answer = "error" =>
             tool \in Registers!PinToolNames /\ access.at % Pins # Pins - 1
    BY <2>2 DEF Registers!StopsAt
  <2>4. /\ access'.op = access.op /\ access'.first = access.first
        /\ access'.last = access.last /\ access'.value = access.value
        /\ access'.at = access.at + 1
        /\ access' \in [op : Operations, at : Nat, first : Nat, last : Nat, value : Values]
    <3>1. access.at \in Nat /\ access.at + 1 \in Nat
      BY <1>2
    <3> QED BY <1>2, <2>2, <3>1
  <2>5. access'.at \in access.first .. access.last
    BY <1>2, <2>3, <2>4
  <2>6. access.op # "write"
    BY <1>2, <2>3 DEF ToolInv, AccessInv
  <2>7. access.op = "config" =>
          /\ tool = "r820t"
          /\ \A a \in access.first .. access.at : registers'[a] = access.value
    <3> SUFFICES ASSUME access.op = "config"
                 PROVE  /\ tool = "r820t"
                        /\ \A a \in access.first .. access.at : registers'[a] = access.value
      OBVIOUS
    <3>1. tool = "r820t" /\ \A a \in access.first .. access.at - 1 : registers[a] = access.value
      BY DEF ToolInv, AccessInv
    <3>2. answer # "error"
      BY <2>3, <3>1 DEF Registers!PinToolNames
    <3>3. registers' = [registers EXCEPT ![access.at] = access.value]
      BY <2>1, <3>2
    <3>4. \A a \in access.first .. access.at : a \in DOMAIN registers
      BY <1>2 DEF ToolInv, ChoiceInv
    <3>5. \A a \in access.first .. access.at :
            a = access.at \/ a \in access.first .. access.at - 1
      BY <1>2
    <3> QED BY <3>1, <3>3, <3>4, <3>5
  <2>8. access.op = "read" =>
          \A a \in access.first .. access.at :
            a \in printed' \/ (tool \in Registers!PinToolNames /\ a % Pins # Pins - 1)
    <3> SUFFICES ASSUME access.op = "read", NEW a \in access.first .. access.at
                 PROVE  \/ a \in printed'
                        \/ tool \in Registers!PinToolNames /\ a % Pins # Pins - 1
      OBVIOUS
    <3>1. CASE a = access.at
      BY <2>1, <2>3, <3>1 DEF Registers!Outcomes
    <3>2. CASE a # access.at
      <4>1. a \in access.first .. access.at - 1
        BY <1>2, <3>2
      <4>2. a \in printed \/ (tool \in Registers!PinToolNames /\ a % Pins # Pins - 1)
        BY <4>1 DEF ToolInv, AccessInv
      <4> QED BY <2>1, <4>2
    <3> QED BY <3>1, <3>2
  <2>9. access.first .. access'.at - 1 = access.first .. access.at
    BY <1>2, <2>4
  <2>10. AccessInv'
    BY <1>1, <1>2, <1>5, <2>4, <2>5, <2>6, <2>7, <2>8, <2>9 DEF AccessInv
  <2> QED BY <1>3, <2>10 DEF ToolInv
<1> QED BY <1>4, <1>5

(* Every step keeps the invariant.                                         *)
LEMMA ToolNext == ToolInv /\ [Next]_vars => ToolInv'
<1> SUFFICES ASSUME ToolInv, [Next]_vars PROVE ToolInv'
  OBVIOUS
<1>1. ASSUME UNCHANGED <<tool, number, port, access, registers, printed>> PROVE ToolInv'
  BY <1>1 DEF ToolInv, ChoiceInv, AccessInv, Registers!Address, Registers!PortPin
<1>2. CASE RegisterStep
  <2>1. CASE Registers!Open \/ Registers!Exit
    BY <1>1, <2>1 DEF Registers!Open, Registers!Exit, Registers!choice
  <2> QED BY <1>2, <2>1, OptionKeeps, ObeyKeeps DEF RegisterStep, Registers!Next
<1>3. CASE FlashStep \/ Finished \/ UNCHANGED vars
  BY <1>1, <1>3 DEF FlashStep, Finished, vars, rtvars
<1> QED BY <1>2, <1>3 DEF Next

(* The numbers are those of the texts, up to the first that is refused.    *)
Agrees ==
  /\ number = IF asked_number = Registers!Nothing THEN Registers!None
              ELSE IF tool = "si5351c" THEN asked_number % Bytes ELSE asked_number
  /\ port = IF asked_port = Registers!Nothing THEN Registers!None ELSE asked_port
  /\ asked_number \in Registers!Addresses \cup {-1, Bytes, Registers!Nothing}
  /\ asked_port \in Registers!Addresses \cup {Registers!Nothing}
  /\ asked_number \in {-1, Bytes} => tool = "si5351c"

AskedInv ==
  /\ options_read \in Nat
  /\ access # Registers!NoAccess \/ options_read = 0 \/ result = "success" => Agrees

LEMMA AskedInit == Init => AskedInv
<1> SUFFICES ASSUME Init PROVE AskedInv
  OBVIOUS
<1>1. Agrees
  BY ToolConstants DEF Init, Registers!Init, Agrees, Registers!Nothing
<1> QED BY <1>1 DEF Init, Registers!Init, AskedInv

(* An option is only read while all before it were obeyed.                 *)
LEMMA AskedOption ==
  ASSUME AskedInv, ToolInv,
         \/ Registers!Si5351c \/ Registers!R820t \/ Registers!Gpio \/ Registers!Gpiodir
  PROVE  AskedInv'
<1> USE ToolConstants DEF Registers!choice, Registers!Nothing, Registers!NotANumber,
                          Registers!Texts
<1>1. Registers!NextOption
  BY DEF Registers!Si5351c, Registers!R820t, Registers!Gpio, Registers!Gpiodir,
     Registers!PinTool, Registers!SiNumber, Registers!R820tNumber, Registers!PinNumber,
     Registers!PinPort, Registers!Write, Registers!SiRead, Registers!R820tRead,
     Registers!PinRead, Registers!SiConfiguration, Registers!R820tConfigure,
     Registers!SiSerial, Registers!Unknown, Registers!Access
<1>2. /\ Agrees /\ tool' = tool /\ access = Registers!NoAccess
      /\ options_read' \in Nat /\ options_read' # 0
  BY <1>1 DEF Registers!NextOption, AskedInv
<1>3. ASSUME UNCHANGED Registers!choice PROVE AskedInv'
  <2>1. Agrees'
    BY <1>2, <1>3 DEF Agrees
  <2> QED BY <1>2, <2>1 DEF AskedInv
<1>4. ASSUME NEW got, Registers!Chosen(got), got = "success" => Agrees'
      PROVE  AskedInv'
  BY <1>2, <1>4 DEF AskedInv, Registers!Chosen
<1>5. CASE tool = "si5351c" /\ Registers!SiNumber
  <2>1. PICK text \in Registers!Texts :
          /\ asked_number' = text
          /\ IF text = Registers!NotANumber
               THEN Registers!Chosen("error") /\ UNCHANGED number
               ELSE Registers!Chosen("success") /\ number' = text % Bytes
    BY <1>5 DEF Registers!SiNumber
  <2>2. UNCHANGED <<port, asked_port>>
    BY <1>5 DEF Registers!SiNumber
  <2>3. CASE text = Registers!NotANumber
    BY <1>4, <2>1, <2>3
  <2>4. CASE text # Registers!NotANumber
    <3>1. asked_number' \in Registers!Addresses \cup {-1, Bytes}
      BY <2>1, <2>4
    <3>2. Agrees'
      BY <1>2, <1>5, <2>1, <2>2, <2>4, <3>1 DEF Agrees
    <3> QED BY <1>4, <2>1, <2>4, <3>2
  <2> QED BY <2>3, <2>4
<1>6. ASSUME tool # "si5351c", NEW text \in Registers!Texts, NEW most \in Nat,
             most < Bytes, asked_number' = text, UNCHANGED <<port, asked_port>>,
             IF text \in 0 .. most
               THEN Registers!Chosen("success") /\ number' = text
               ELSE Registers!Chosen("error")
      PROVE  AskedInv'
  <2>1. CASE text \in 0 .. most
    <3>1. text \in Registers!Addresses /\ text # Registers!Nothing
      BY <1>6, <2>1
    <3>2. Agrees'
      BY <1>2, <1>6, <2>1, <3>1 DEF Agrees
    <3> QED BY <1>4, <1>6, <2>1, <3>2
  <2>2. CASE text \notin 0 .. most
    BY <1>4, <1>6, <2>2
  <2> QED BY <2>1, <2>2
<1>7. CASE tool = "r820t" /\ Registers!R820tNumber
  <2>1. R820T_REGISTERS - 1 \in Nat /\ R820T_REGISTERS - 1 < Bytes
    OBVIOUS
  <2> QED BY <1>6, <1>7, <2>1 DEF Registers!R820tNumber
<1>8. CASE tool \in Registers!PinToolNames /\ Registers!PinNumber
  <2>1. Pins - 1 \in Nat /\ Pins - 1 < Bytes
    BY PinsFit
  <2>2. tool # "si5351c"
    BY <1>8 DEF Registers!PinToolNames
  <2> QED BY <1>6, <1>8, <2>1, <2>2 DEF Registers!PinNumber
<1>9. CASE tool \in Registers!PinToolNames /\ Registers!PinPort
  <2>1. PICK text \in Registers!Texts :
          /\ asked_port' = text
          /\ IF text \in 0 .. Ports - 1
               THEN Registers!Chosen("success") /\ port' = text
               ELSE Registers!Chosen("error")
    BY <1>9 DEF Registers!PinPort
  <2>2. UNCHANGED <<number, asked_number>>
    BY <1>9 DEF Registers!PinPort
  <2>3. CASE text \in 0 .. Ports - 1
    <3>1. text \in Registers!Addresses /\ text # Registers!Nothing
      BY <2>3, PinsFit
    <3>2. Agrees'
      BY <1>2, <2>1, <2>2, <2>3, <3>1 DEF Agrees
    <3> QED BY <1>4, <2>1, <2>3, <3>2
  <2>4. CASE text \notin 0 .. Ports - 1
    BY <1>4, <2>1, <2>4
  <2> QED BY <2>3, <2>4
<1>10. \/ UNCHANGED Registers!choice
       \/ tool = "si5351c" /\ Registers!SiNumber
       \/ tool = "r820t" /\ Registers!R820tNumber
       \/ tool \in Registers!PinToolNames /\ (Registers!PinNumber \/ Registers!PinPort)
  BY DEF Registers!Si5351c, Registers!R820t, Registers!Gpio, Registers!Gpiodir,
     Registers!PinTool, Registers!PinToolNames, Registers!Write, Registers!SiRead,
     Registers!R820tRead, Registers!PinRead, Registers!SiConfiguration,
     Registers!R820tConfigure, Registers!SiSerial, Registers!Unknown, Registers!Access
<1> QED BY <1>3, <1>5, <1>7, <1>8, <1>9, <1>10

(* Other steps leave the numbers alone, and only end what was begun.       *)
LEMMA AskedNext == AskedInv /\ ToolInv /\ [Next]_vars => AskedInv'
<1> SUFFICES ASSUME AskedInv, ToolInv, [Next]_vars PROVE AskedInv'
  OBVIOUS
<1> USE DEF Registers!choice
<1>1. ASSUME UNCHANGED <<tool, options_read, result, access, Registers!choice>>
      PROVE  AskedInv'
  BY <1>1 DEF AskedInv, Agrees
<1>2. CASE RegisterStep
  <2>1. CASE Registers!Open \/ Registers!Exit
    BY <1>1, <2>1 DEF Registers!Open, Registers!Exit
  <2>2. CASE Registers!ReadOne \/ Registers!WriteOne
    <3>1. UNCHANGED <<tool, options_read, Registers!choice>> /\ access # Registers!NoAccess
      BY <2>2 DEF Registers!ReadOne, Registers!WriteOne, Registers!NoAccess
    <3> QED BY <3>1 DEF AskedInv, Agrees
  <2> QED BY <1>2, <2>1, <2>2, AskedOption DEF RegisterStep, Registers!Next
<1>3. CASE FlashStep \/ Finished \/ UNCHANGED vars
  BY <1>1, <1>3 DEF FlashStep, Finished, vars, rtvars
<1> QED BY <1>2, <1>3 DEF Next

(* -w changes the register or the pin that the texts of -n and -p gave and *)
(* no other, for any numbers of registers, ports and pins; airspy_si5351c  *)
(* alone cuts a number beyond a byte.                                      *)
THEOREM OnlyNamedIsWritten == Spec => NamedIsWritten
<1>1. ToolInv /\ AskedInv /\ [Next]_vars =>
        [\A a \in Registers!Addresses :
           registers'[a] # registers[a] /\ access.op = "write"
             /\ asked_number # Registers!Nothing =>
             IF tool \in Registers!RegisterToolNames
               THEN a = asked_number
                    \/ (tool = "si5351c" /\ asked_number \notin Registers!Addresses)
               ELSE /\ a % Pins = asked_number
                    /\ asked_port # Registers!Nothing =>
                         a \div Pins = asked_port]_(Registers!rtvars)
  <2> SUFFICES ASSUME ToolInv, AskedInv, [Next]_vars, NEW a \in Registers!Addresses,
                      registers'[a] # registers[a], access.op = "write",
                      asked_number # Registers!Nothing
               PROVE  IF tool \in Registers!RegisterToolNames
                        THEN a = asked_number
                             \/ (tool = "si5351c" /\ asked_number \notin Registers!Addresses)
                        ELSE /\ a % Pins = asked_number
                             /\ asked_port # Registers!Nothing => a \div Pins = asked_port
    OBVIOUS
  <2>1. registers' # registers
    OBVIOUS
  <2>2. CASE RegisterStep
    <3>1. Registers!WriteOne
      BY <2>1, <2>2
      DEF RegisterStep, Registers!Next, Registers!Open, Registers!Exit, Registers!ReadOne,
          Registers!Si5351c, Registers!R820t, Registers!Gpio, Registers!Gpiodir,
          Registers!PinTool, Registers!SiNumber, Registers!R820tNumber,
          Registers!PinNumber, Registers!PinPort, Registers!Write, Registers!SiRead,
          Registers!R820tRead, Registers!PinRead, Registers!SiConfiguration,
          Registers!R820tConfigure, Registers!SiSerial, Registers!Unknown,
          Registers!Access, Registers!NextOption
    <3>2. a = access.at
      BY <3>1 DEF Registers!WriteOne, ToolInv, ChoiceInv
    <3>3. a = Registers!Address
      BY <3>2 DEF ToolInv, AccessInv
    <3>4. Agrees
      BY DEF AskedInv, Registers!NoAccess
    <3>5. /\ tool # "si5351c" => number = asked_number
          /\ asked_number \in Registers!Addresses => number = asked_number
          /\ number # Registers!None
          /\ asked_port # Registers!Nothing =>
               port = asked_port /\ port # Registers!None
      BY <3>4, ToolConstants DEF Agrees, Registers!Nothing
    <3>6. IF tool \in Registers!RegisterToolNames THEN Registers!Address = number
          ELSE /\ Registers!Address % Pins = number
               /\ port # Registers!None => Registers!Address \div Pins = port
      BY <3>5, Named DEF ToolInv
    <3>7. CASE tool \in Registers!RegisterToolNames
      BY <3>3, <3>5, <3>6, <3>7
    <3>8. CASE tool \notin Registers!RegisterToolNames
      <4>1. tool # "si5351c"
        BY <3>8 DEF Registers!RegisterToolNames
      <4> QED BY <3>3, <3>5, <3>6, <3>8, <4>1, Zenon
    <3> QED BY <3>7, <3>8
  <2>3. CASE FlashStep \/ Finished \/ UNCHANGED vars
    BY <2>1, <2>3 DEF FlashStep, Finished, vars, rtvars
  <2> QED BY <2>2, <2>3 DEF Next
<1>2. Spec => [](ToolInv /\ AskedInv)
  BY ToolInit, ToolNext, AskedInit, AskedNext, PTL DEF Spec
<1> QED BY <1>1, <1>2, PTL DEF Spec, NamedIsWritten, Registers!NamedIsWritten

(* A dump or a configuration that ends in success has done every register  *)
(* or last pin of a port.                                                  *)
THEOREM SuccessMeansComplete == Spec => SuccessIsComplete
<1>1. ToolInv /\ [Next]_vars =>
        [access # Registers!NoAccess /\ access' = Registers!NoAccess
           /\ result' = "success" =>
           \A a \in access.first .. access.last :
             CASE access.op = "config" -> registers'[a] = access.value
               [] access.op = "read" ->
                    \/ a \in printed'
                    \/ tool \in Registers!PinToolNames /\ a % Pins # Pins - 1
               [] OTHER -> TRUE]_(Registers!rtvars)
  <2> SUFFICES ASSUME ToolInv, [Next]_vars, access # Registers!NoAccess,
                      access' = Registers!NoAccess, result' = "success",
                      NEW a \in access.first .. access.last
               PROVE  CASE access.op = "config" -> registers'[a] = access.value
                        [] access.op = "read" ->
                             \/ a \in printed'
                             \/ tool \in Registers!PinToolNames /\ a % Pins # Pins - 1
                        [] OTHER -> TRUE
    OBVIOUS
  <2> USE ToolConstants
  <2>1. access' # access
    OBVIOUS
  <2>2. CASE RegisterStep
    <3>1. Registers!ReadOne \/ Registers!WriteOne
      BY <2>1, <2>2
      DEF RegisterStep, Registers!Next, Registers!Open, Registers!Exit,
          Registers!Si5351c, Registers!R820t, Registers!Gpio, Registers!Gpiodir,
          Registers!PinTool, Registers!SiNumber, Registers!R820tNumber,
          Registers!PinNumber, Registers!PinPort, Registers!Write, Registers!SiRead,
          Registers!R820tRead, Registers!PinRead, Registers!SiConfiguration,
          Registers!R820tConfigure, Registers!SiSerial, Registers!Unknown,
          Registers!Access, Registers!NextOption
    <3>2. /\ access \in [op : Operations, at : Nat, first : Nat, last : Nat, value : Values]
          /\ access.at \in access.first .. access.last
          /\ access.last \in Registers!Addresses
      BY DEF ToolInv, AccessInv
    <3>3. ASSUME NEW answer, Registers!Advance(answer)
          PROVE  answer = "success" /\ access.at = access.last
      <4>1. Registers!StopsAt(answer) /\ answer = "success"
        <5>2. [access EXCEPT !.at = @ + 1].op # "none"
          BY <3>2 DEF ToolInv, AccessInv
        <5>3. Registers!NoAccess.op = "none"
          BY DEF Registers!NoAccess
        <5> QED BY <3>3, <5>2, <5>3 DEF Registers!Advance
      <4> QED BY <4>1 DEF Registers!StopsAt
    <3>4. a = access.at \/ a \in access.first .. access.at - 1
      <4>1. PICK answer : Registers!Advance(answer)
        BY <3>1 DEF Registers!ReadOne, Registers!WriteOne
      <4> QED BY <3>2, <3>3, <4>1
    <3>5. CASE access.op = "config"
      <4>1. registers' = [registers EXCEPT ![access.at] = access.value]
        BY <3>1, <3>3, <3>5 DEF Registers!ReadOne, Registers!WriteOne
      <4>2. a \in DOMAIN registers
        BY <3>2 DEF ToolInv, ChoiceInv
      <4>3. a \in access.first .. access.at - 1 => registers[a] = access.value
        BY <3>5 DEF ToolInv, AccessInv
      <4>4. registers'[a] = access.value
        BY <3>4, <4>1, <4>2, <4>3
      <4> QED BY <3>5, <4>4
    <3>6. CASE access.op = "read"
      <4>1. printed' = printed \cup {access.at}
        BY <3>1, <3>3, <3>6 DEF Registers!ReadOne, Registers!WriteOne
      <4>2. a \in access.first .. access.at - 1 =>
              a \in printed \/ (tool \in Registers!PinToolNames /\ a % Pins # Pins - 1)
        BY <3>6 DEF ToolInv, AccessInv
      <4>3. a \in printed' \/ (tool \in Registers!PinToolNames /\ a % Pins # Pins - 1)
        BY <3>4, <4>1, <4>2
      <4> QED BY <3>6, <4>3
    <3> QED BY <3>5, <3>6
  <2>3. CASE FlashStep \/ Finished \/ UNCHANGED vars
    BY <2>1, <2>3 DEF FlashStep, Finished, vars, rtvars
  <2> QED BY <2>2, <2>3 DEF Next
<1>2. Spec => []ToolInv
  BY ToolInit, ToolNext, PTL DEF Spec
<1> QED BY <1>1, <1>2, PTL DEF Spec, SuccessIsComplete, Registers!SuccessIsComplete
=============================================================================
