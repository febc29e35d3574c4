----------------------- MODULE DeviceResources_proofs -----------------------
(***************************************************************************)
(* Proofs about DeviceResources, for any bus, any number of buffers and    *)
(* transfers and any pool of memory.                                       *)
(***************************************************************************)
EXTENDS DeviceResources, SequenceTheorems, TLAPS

-----------------------------------------------------------------------------
(* Handle and interface.                                                   *)

(* The device fits what was asked for, as far as it has been looked at.    *)
Fits(d) ==
  /\ d \in DOMAIN Bus /\ Bus[d].airspy
  /\ pc # "serial" => serial_number \in {0, Bus[d].serial}

(* What is held at each point: nothing between two devices, the handle of  *)
(* the device that is examined, then the interface, too.                   *)
UsbInv ==
  /\ i \in Nat
  /\ opened \subseteq {usb_device} /\ claimed \subseteq opened
  /\ pc = "look" => i >= 1
  /\ pc \in {"open", "look", "not_found", "closed"} => opened = {}
  /\ pc \in {"open", "closed"} => ~usb_context
  /\ pc \in {"serial", "configure", "claim"} =>
       usb_device = i /\ opened = {i} /\ claimed = {} /\ Fits(i)
  /\ pc \in {"rates", "allocate", "reallocate", "ready"} =>
       opened = {usb_device} /\ claimed = {usb_device} /\ Fits(usb_device)

(* Nothing is held at first.                                               *)
LEMMA UsbInit == Init => UsbInv
BY DEF Init, UsbInv, Fits

(* Every step keeps UsbInv.                                                *)
LEMMA UsbNext == UsbInv /\ [Next]_vars => UsbInv'
<1> SUFFICES ASSUME UsbInv, [Next]_vars PROVE UsbInv'
  OBVIOUS
<1> USE DEF UsbInv, Fits, usb, memory, Goto
<1>1. CASE InitContext
  BY <1>1 DEF InitContext
<1>2. CASE Look
  <2>1. ASSUME i <= Len(Bus), i >= 1 PROVE i \in DOMAIN Bus
    BY <2>1, ResourcesAssumption
  <2> QED BY <1>2, <2>1 DEF Look, Candidate
<1>3. CASE CompareSerial
  BY <1>3 DEF CompareSerial, Skip
<1>4. CASE Claim
  BY <1>4 DEF Claim, Skip
<1>5. CASE NotFound
  BY <1>5 DEF NotFound
<1>6. CASE ReadRates
  BY <1>6 DEF ReadRates
<1>7. CASE AllocateNext
  BY <1>7 DEF AllocateNext
<1>8. CASE AllocateFails
  BY <1>8 DEF AllocateFails, OpenExit
<1>9. CASE AllocateDone
  BY <1>9 DEF AllocateDone
<1>10. CASE StartStop
  BY <1>10 DEF StartStop
<1>11. CASE Exchange
  BY <1>11 DEF Exchange
<1>12. CASE SetPacking
  BY <1>12 DEF SetPacking
<1>13. CASE SetConversionFilter
  BY <1>13 DEF SetConversionFilter
<1>14. CASE Close
  BY <1>14 DEF Close, OpenExit
<1>15. CASE UNCHANGED vars
  BY <1>15 DEF vars
<1> QED
  BY <1>1, <1>2, <1>3, <1>4, <1>5, <1>6, <1>7, <1>8, <1>9, <1>10, <1>11,
     <1>12, <1>13, <1>14, <1>15 DEF Next, Finished, Exhausted

(* The process holds the handle and the interface of its device only, the  *)
(* device is the one asked for, and a failed open leaves nothing open.     *)
THEOREM OneHandleOnly == Spec => []OneHandle
<1>1. UsbInv => OneHandle
  BY DEF UsbInv, OneHandle, Fits
<1> QED BY <1>1, UsbInit, UsbNext, PTL DEF Spec

-----------------------------------------------------------------------------
(* Memory.                                                                 *)

(* EachFreedOnce with the types that make it inductive.                    *)
MemoryInv ==
  /\ DOMAIN ptr = Fields
  /\ pc # "closed" =>
       /\ live \subseteq Pool
       /\ \A f \in Fields : ptr[f] \in live \cup {NULL}
       /\ \A f, g \in Fields : f # g /\ ptr[f] = ptr[g] => ptr[f] = NULL

(* A new block is nobody's, so that it may go into any field.              *)
LEMMA AllocateKeeps ==
  ASSUME MemoryInv, NEW f, pc # "closed", Allocate(f)
  PROVE  MemoryInv'
<1>1. PICK b \in Pool \ live :
        /\ ptr' = [ptr EXCEPT ![f] = b] /\ live' = live \cup {b}
  BY DEF Allocate
<1>2. b # NULL
  BY ResourcesAssumption DEF NULL
<1> QED BY <1>1, <1>2 DEF MemoryInv

(* What is freed is no longer pointed to.                                  *)
LEMMA FreeKeeps ==
  ASSUME MemoryInv, NEW fields \in SUBSET Fields, pc # "closed", Free(fields)
  PROVE  MemoryInv'
BY DEF MemoryInv, Free, Used

(* A process begins without memory of the library.                         *)
LEMMA MemoryInit == Init => MemoryInv
BY DEF Init, MemoryInv

(* Every step keeps MemoryInv: a pointer is set to a block that is         *)
(* allocated, or it is NULL, and no two fields share a block.              *)
LEMMA MemoryNext == MemoryInv /\ [Next]_vars => MemoryInv'
<1> SUFFICES ASSUME MemoryInv, [Next]_vars PROVE MemoryInv'
  OBVIOUS
<1> USE DEF memory
<1>1. ASSUME UNCHANGED <<ptr, live>>, pc' # "closed" => pc # "closed"
      PROVE  MemoryInv'
  BY <1>1 DEF MemoryInv
<1>2. CASE \/ InitContext \/ Look \/ CompareSerial \/ Claim \/ NotFound \/ StartStop
  BY <1>1, <1>2 DEF InitContext, Look, CompareSerial, Skip, Claim, NotFound, StartStop,
     Goto
<1>3. CASE ReadRates
  BY <1>3, AllocateKeeps DEF ReadRates, Goto, Fields
<1>4. CASE AllocateNext
  BY <1>4, AllocateKeeps DEF AllocateNext
<1>5. CASE AllocateFails
  BY <1>5 DEF AllocateFails, Goto, MemoryInv
<1>6. CASE AllocateDone
  BY <1>1, <1>6, AllocateKeeps DEF AllocateDone, Goto, Fields
<1>7. CASE Exchange
  BY <1>7 DEF Exchange, MemoryInv, Fields, TransferFields
<1>8. CASE SetPacking
  BY <1>8, FreeKeeps DEF SetPacking, Goto, FreeTransfers
<1>9. CASE SetConversionFilter
  <2>1. PICK b \in Pool \ (live \ {ptr[Cnv]}) :
          /\ live' = (live \ {ptr[Cnv]}) \cup {b}
          /\ ptr' = [ptr EXCEPT ![Cnv] = b]
    BY <1>9 DEF SetConversionFilter
  <2>2. b # NULL /\ NULL \notin Pool /\ Cnv \in Fields
    BY ResourcesAssumption DEF NULL, Fields
  <2>3. pc = "ready" /\ pc' = pc
    BY <1>9 DEF SetConversionFilter
  <2>4. ASSUME NEW f \in Fields, f # Cnv, ptr[f] # NULL
        PROVE  ptr'[f] = ptr[f] /\ ptr[f] \in live \ {ptr[Cnv]} /\ ptr[f] # b
    BY <2>1, <2>2, <2>3, <2>4 DEF MemoryInv
  <2>5. ptr'[Cnv] = b /\ b \in live' /\ live' \subseteq Pool /\ DOMAIN ptr' = Fields
    BY <2>1, <2>2, <2>3 DEF MemoryInv
  <2>6. ASSUME NEW f \in Fields PROVE ptr'[f] \in live' \cup {NULL}
    BY <2>1, <2>4, <2>5, <2>6 DEF MemoryInv
  <2>7. ASSUME NEW f \in Fields, NEW g \in Fields, f # g, ptr'[f] = ptr'[g]
        PROVE  ptr'[f] = NULL
    BY <2>1, <2>2, <2>3, <2>4, <2>5, <2>7 DEF MemoryInv
  <2> QED BY <2>5, <2>6, <2>7 DEF MemoryInv
<1>10. CASE Close
  BY <1>10 DEF Close, Goto, Free, MemoryInv
<1>11. CASE UNCHANGED vars
  BY <1>1, <1>11 DEF vars
<1> QED
  BY <1>2, <1>3, <1>4, <1>5, <1>6, <1>7, <1>8, <1>9, <1>10, <1>11
     DEF Next, Finished, Exhausted

(* No block is freed twice and none is used after it was freed, for every  *)
(* sequence of failures, changes of packing and exchanges of buffers.      *)
THEOREM NothingFreedTwice == Spec => []EachFreedOnce
<1>1. MemoryInv => EachFreedOnce
  BY DEF MemoryInv, EachFreedOnce, Used
<1> QED BY <1>1, MemoryInit, MemoryNext, PTL DEF Spec

-----------------------------------------------------------------------------
(* The buffers: none is lost, and a stream runs on buffers of the present  *)
(* packing.  Both rest on the order of allocate_transfers(), in which the  *)
(* array of transfers comes before what it points to and after all the     *)
(* rest, and on free_transfers(), which takes that array for the sign that *)
(* there is something to free.                                             *)

(* The list of allocate_transfers().                                       *)

(* Where the array of transfers is in the list.                            *)
ArrayAt(packing) == RAW_BUFFER_COUNT + 2 + (IF packing THEN 1 ELSE 0)

(* What \o does to two sequences of fields.                                *)
LEMMA Joined ==
  ASSUME NEW s, NEW t, NEW m \in Nat, NEW n \in Nat, NEW l, l = m + n,
         s \in [1 .. m -> TransferFields], t \in [1 .. n -> TransferFields]
  PROVE  /\ s \o t \in [1 .. l -> TransferFields]
         /\ \A k \in 1 .. m : (s \o t)[k] = s[k]
         /\ \A k \in 1 .. n : (s \o t)[m + k] = t[k]
<1>1. s \in Seq(TransferFields) /\ t \in Seq(TransferFields)
  BY SeqDef
<1>2. Len(s) = m /\ Len(t) = n
  OBVIOUS
<1>3. /\ s \o t \in Seq(TransferFields) /\ Len(s \o t) = m + n
      /\ \A k \in 1 .. m + n : (s \o t)[k] = IF k <= m THEN s[k] ELSE t[k - m]
  BY <1>1, <1>2, ConcatProperties
<1>4. s \o t \in [1 .. l -> TransferFields]
  BY <1>3, LenProperties
<1>5. ASSUME NEW k \in 1 .. n PROVE (s \o t)[m + k] = t[k]
  <2>1. m + k \in 1 .. m + n /\ ~(m + k <= m) /\ (m + k) - m = k
    OBVIOUS
  <2> QED BY <1>3, <2>1
<1> QED BY <1>3, <1>4, <1>5

(* The same for one more field at the end.                                 *)
LEMMA JoinedOne ==
  ASSUME NEW s, NEW m \in Nat, NEW l \in Nat, l = m + 1, NEW f \in TransferFields,
         NEW t, t = <<f>>, s \in [1 .. m -> TransferFields]
  PROVE  /\ s \o t \in [1 .. l -> TransferFields]
         /\ \A k \in 1 .. m : (s \o t)[k] = s[k]
         /\ (s \o t)[l] = f
<1>1. t \in Seq(TransferFields) /\ Len(t) = 1 /\ t[1] = f
  OBVIOUS
<1>2. s \in Seq(TransferFields) /\ Len(s) = m
  BY SeqDef
<1>3. /\ s \o t \in Seq(TransferFields) /\ Len(s \o t) = Len(s) + Len(t)
      /\ \A k \in 1 .. Len(s) + Len(t) :
           (s \o t)[k] = IF k <= Len(s) THEN s[k] ELSE t[k - Len(s)]
  BY <1>1, <1>2, ConcatProperties, Zenon
<1>4. s \o t \in [1 .. l -> TransferFields]
  BY <1>1, <1>2, <1>3, LenProperties
<1>5. (s \o t)[l] = f
  <2>1. l \in 1 .. Len(s) + Len(t) /\ ~(l <= Len(s)) /\ l - Len(s) = 1
    BY <1>1, <1>2
  <2> QED BY <1>1, <1>3, <2>1
<1>6. ASSUME NEW k \in 1 .. m PROVE (s \o t)[k] = s[k]
  <2>1. k \in 1 .. Len(s) + Len(t) /\ k <= Len(s)
    BY <1>1, <1>2
  <2> QED BY <1>3, <2>1
<1> QED BY <1>4, <1>5, <1>6

(* The parts of the list.                                                  *)
QueuePart == [q \in 1 .. RAW_BUFFER_COUNT |-> <<"queue", q>>]
UsbPart   == [k \in 1 .. 2 * transfer_count |->
                <<IF k % 2 = 1 THEN "transfer" ELSE "buffer", (k + 1) \div 2>>]

(* Every entry of a part is a field of the transfers.                      *)
LEMMA Parts ==
  /\ QueuePart \in [1 .. RAW_BUFFER_COUNT -> TransferFields]
  /\ UsbPart \in [1 .. 2 * transfer_count -> TransferFields]
  /\ {Output, Unpacked, Array} \subseteq TransferFields
<1>1. QueuePart \in [1 .. RAW_BUFFER_COUNT -> TransferFields]
  BY DEF QueuePart, TransferFields, QueueSlots
<1>2. ASSUME NEW k \in 1 .. 2 * transfer_count PROVE UsbPart[k] \in TransferFields
  <2>1. (k + 1) \div 2 \in 1 .. transfer_count
    BY ResourcesAssumption
  <2>2. UsbPart[k] = <<IF k % 2 = 1 THEN "transfer" ELSE "buffer", (k + 1) \div 2>>
    BY DEF UsbPart
  <2> QED BY <2>1, <2>2 DEF TransferFields, Structs, UsbBuffers
<1>3. {Output, Unpacked, Array} \subseteq TransferFields
  BY DEF TransferFields
<1>4. UsbPart \in [1 .. 2 * transfer_count -> TransferFields]
  BY <1>2 DEF UsbPart
<1> QED BY <1>1, <1>3, <1>4

(* The parts follow each other in the list.                                *)
LEMMA AllocationOrder ==
  ASSUME NEW packing \in BOOLEAN
  PROVE  LET A == Allocations(packing)
             a == ArrayAt(packing)
         IN  /\ A \in [1 .. a + 2 * transfer_count -> TransferFields]
             /\ \A k \in 1 .. RAW_BUFFER_COUNT : A[k] = <<"queue", k>>
             /\ A[RAW_BUFFER_COUNT + 1] = Output
             /\ packing => A[RAW_BUFFER_COUNT + 2] = Unpacked
             /\ A[a] = Array
             /\ \A k \in 1 .. 2 * transfer_count : A[a + k] = UsbPart[k]
<1> DEFINE R == RAW_BUFFER_COUNT
           T == transfer_count
           a == ArrayAt(packing)
           s1 == QueuePart \o <<Output>>
           s2 == s1 \o (IF packing THEN <<Unpacked>> ELSE <<>>)
           s3 == s2 \o <<Array>>
           A == s3 \o UsbPart
<1>1. R \in Nat \ {0} /\ T \in Nat \ {0} /\ 2 * T \in Nat
  BY ResourcesAssumption
<1>2. Allocations(packing) = A
  BY DEF Allocations, QueuePart, UsbPart
<1>3. /\ s1 \in [1 .. R + 1 -> TransferFields]
      /\ s1[R + 1] = Output /\ \A k \in 1 .. R : s1[k] = QueuePart[k]
  <2>1. PICK l \in Nat : l = R + 1
    BY <1>1
  <2>2. PICK t : t = <<Output>>
    OBVIOUS
  <2>3. /\ QueuePart \o t \in [1 .. l -> TransferFields]
        /\ (QueuePart \o t)[l] = Output
        /\ \A k \in 1 .. R : (QueuePart \o t)[k] = QueuePart[k]
    <3>1. R \in Nat /\ Output \in TransferFields
          /\ QueuePart \in [1 .. R -> TransferFields]
      BY <1>1, Parts
    <3> QED BY <2>1, <2>2, <3>1, JoinedOne
  <2> QED BY <2>1, <2>2, <2>3
<1> HIDE DEF s1
<1>4. /\ a \in Nat /\ a >= R + 2
      /\ s2 \in [1 .. a - 1 -> TransferFields]
      /\ \A k \in 1 .. R + 1 : s2[k] = s1[k]
      /\ packing => s2[R + 2] = Unpacked /\ a = R + 3
  <2>1. CASE packing
    <3>1. a = R + 3 /\ a - 1 = R + 2 /\ R + 1 \in Nat /\ R + 2 = (R + 1) + 1
      BY <1>1, <2>1 DEF ArrayAt
    <3>2. s2 = s1 \o <<Unpacked>>
      BY <2>1
    <3> HIDE DEF s2, a
    <3>3. /\ s2 \in [1 .. R + 2 -> TransferFields] /\ s2[R + 2] = Unpacked
          /\ \A k \in 1 .. R + 1 : s2[k] = s1[k]
      <4>1. PICK l \in Nat, m \in Nat : l = R + 2 /\ m = R + 1 /\ l = m + 1
        BY <3>1
      <4>2. PICK t : t = <<Unpacked>>
        OBVIOUS
      <4>3. s1 \in [1 .. m -> TransferFields]
        BY <1>3, <4>1
      <4>4. /\ s1 \o t \in [1 .. l -> TransferFields]
            /\ (s1 \o t)[l] = Unpacked
            /\ \A k \in 1 .. m : (s1 \o t)[k] = s1[k]
        <5>1. Unpacked \in TransferFields
          BY Parts
        <5>2. l = m + 1
          BY <4>1
        <5> QED BY <4>2, <4>3, <5>1, <5>2, JoinedOne
      <4> QED BY <3>2, <4>1, <4>2, <4>4
    <3> QED BY <1>1, <3>1, <3>3
  <2>2. CASE ~packing
    <3>1. a = R + 2 /\ a - 1 = R + 1
      BY <1>1, <2>2 DEF ArrayAt
    <3>2. s1 \in Seq(TransferFields)
      BY <1>1, <1>3, SeqDef
    <3>3. s2 = s1
      BY <2>2, <3>2, ConcatEmptySeq
    <3> HIDE DEF s2, a
    <3> QED BY <1>1, <1>3, <2>2, <3>1, <3>3
  <2> QED BY <2>1, <2>2
<1> HIDE DEF s2, a
<1>5. /\ s3 \in [1 .. a -> TransferFields] /\ s3[a] = Array
      /\ \A k \in 1 .. a - 1 : s3[k] = s2[k]
  <2>1. a - 1 \in Nat /\ a = (a - 1) + 1
    BY <1>1, <1>4
  <2>2. Array \in TransferFields /\ s2 \in [1 .. a - 1 -> TransferFields] /\ a \in Nat
    BY <1>4, Parts
  <2>3. PICK t : t = <<Array>>
    OBVIOUS
  <2>4. PICK m \in Nat : m = a - 1
    BY <2>1
  <2>5. a = m + 1 /\ s2 \in [1 .. m -> TransferFields]
    BY <2>1, <2>2, <2>4
  <2>6. /\ s2 \o t \in [1 .. a -> TransferFields] /\ (s2 \o t)[a] = Array
        /\ \A k \in 1 .. m : (s2 \o t)[k] = s2[k]
    BY <2>2, <2>3, <2>5, JoinedOne
  <2> QED BY <2>3, <2>4, <2>6
<1> HIDE DEF s3
<1>6. /\ A \in [1 .. a + 2 * T -> TransferFields]
      /\ \A k \in 1 .. a : A[k] = s3[k]
      /\ \A k \in 1 .. 2 * T : A[a + k] = UsbPart[k]
  <2>1. PICK n \in Nat : n = 2 * T
    BY <1>1
  <2>2. UsbPart \in [1 .. n -> TransferFields]
    BY <2>1, Parts
  <2>3. PICK l \in Nat : l = a + n
    BY <1>4
  <2>4. /\ A \in [1 .. l -> TransferFields]
        /\ \A k \in 1 .. a : A[k] = s3[k]
        /\ \A k \in 1 .. n : A[a + k] = UsbPart[k]
    <3>1. a \in Nat /\ s3 \in [1 .. a -> TransferFields]
      BY <1>4, <1>5
    <3> QED BY <2>2, <2>3, <3>1, Joined
  <2> QED BY <2>1, <2>3, <2>4
<1> HIDE DEF A
<1>7. /\ \A k \in 1 .. R + 1 : k \in 1 .. a /\ k \in 1 .. a - 1
      /\ packing => R + 2 \in 1 .. a /\ R + 2 \in 1 .. a - 1
      /\ R + 1 \in 1 .. R + 1 /\ a \in 1 .. a
      /\ \A k \in 1 .. R : k \in 1 .. R + 1
  BY <1>1, <1>4
<1>8. /\ \A k \in 1 .. R : A[k] = <<"queue", k>>
      /\ A[R + 1] = Output
      /\ packing => A[R + 2] = Unpacked
      /\ A[a] = Array
  BY <1>3, <1>4, <1>5, <1>6, <1>7 DEF QueuePart
<1> QED BY <1>2, <1>6, <1>8 DEF a

(* The place of a field in the list.                                       *)
Place(packing, f) ==
  CASE f[1] = "queue"            -> f[2]
    [] f[1] = "output_buffer"    -> RAW_BUFFER_COUNT + 1
    [] f[1] = "unpacked_samples" -> RAW_BUFFER_COUNT + 2
    [] f[1] = "transfers"        -> ArrayAt(packing)
    [] f[1] = "transfer"         -> ArrayAt(packing) + 2 * f[2] - 1
    [] f[1] = "buffer"           -> ArrayAt(packing) + 2 * f[2]

(* The length of the list.                                                 *)
ListLength(packing) == ArrayAt(packing) + 2 * transfer_count

(* The list in terms of places: no field is in it twice; what the array    *)
(* guards comes behind it, everything else before it.                      *)
LEMMA PlacesInList ==
  ASSUME NEW packing \in BOOLEAN
  PROVE  LET A == Allocations(packing)
         IN  /\ ArrayAt(packing) \in 1 .. ListLength(packing) /\ ListLength(packing) \in Nat
             /\ A \in [1 .. ListLength(packing) -> TransferFields]
             /\ \A k \in 1 .. ListLength(packing) : Place(packing, A[k]) = k
             /\ A[ArrayAt(packing)] = Array
             /\ \A k \in ArrayAt(packing) + 1 .. ListLength(packing) :
                  A[k] \in Structs \cup UsbBuffers
             /\ \A f \in Structs \cup UsbBuffers :
                  \E k \in ArrayAt(packing) + 1 .. ListLength(packing) : A[k] = f
             /\ \A f \in QueueSlots \cup {Output} :
                  \E k \in 1 .. ArrayAt(packing) - 1 : A[k] = f
             /\ packing => \E k \in 1 .. ArrayAt(packing) - 1 : A[k] = Unpacked
<1> DEFINE R == RAW_BUFFER_COUNT
           T == transfer_count
           a == ArrayAt(packing)
           A == Allocations(packing)
<1>1. R \in Nat \ {0} /\ T \in Nat \ {0} /\ 2 * T \in Nat /\ 2 * T >= 2
  BY ResourcesAssumption
<1>2. a \in Nat /\ a = IF packing THEN R + 3 ELSE R + 2
  BY <1>1 DEF ArrayAt
<1>3. /\ A \in [1 .. a + 2 * T -> TransferFields]
      /\ \A k \in 1 .. R : A[k] = <<"queue", k>>
      /\ A[R + 1] = Output
      /\ packing => A[R + 2] = Unpacked
      /\ A[a] = Array
      /\ \A k \in 1 .. 2 * T : A[a + k] = UsbPart[k]
  BY AllocationOrder
<1>4. ListLength(packing) = a + 2 * T
  BY DEF ListLength
<1> HIDE DEF a, A
<1>5. ASSUME NEW k \in 1 .. 2 * T
      PROVE  /\ Place(packing, A[a + k]) = a + k
             /\ A[a + k] \in Structs \cup UsbBuffers
  <2>1. A[a + k] = <<IF k % 2 = 1 THEN "transfer" ELSE "buffer", (k + 1) \div 2>>
    BY <1>3 DEF UsbPart
  <2>2. PICK n \in 1 .. T : n = (k + 1) \div 2
    BY <1>1
  <2>3. CASE k % 2 = 1
    <3>1. A[a + k] = <<"transfer", n>> /\ k = 2 * n - 1
      BY <2>1, <2>2, <2>3
    <3> QED BY <1>2, <3>1 DEF Place, Structs, a
  <2>4. CASE k % 2 # 1
    <3>1. A[a + k] = <<"buffer", n>> /\ k = 2 * n
      BY <2>1, <2>2, <2>4
    <3> QED BY <1>2, <3>1 DEF Place, UsbBuffers, a
  <2> QED BY <2>3, <2>4
<1>6. ASSUME NEW n \in 1 .. T
      PROVE  A[a + (2 * n - 1)] = <<"transfer", n>> /\ A[a + 2 * n] = <<"buffer", n>>
  <2>1. /\ 2 * n - 1 \in 1 .. 2 * T /\ (2 * n - 1) % 2 = 1 /\ ((2 * n - 1) + 1) \div 2 = n
        /\ 2 * n \in 1 .. 2 * T /\ (2 * n) % 2 = 0 /\ (2 * n + 1) \div 2 = n
    BY <1>1
  <2> QED BY <1>3, <2>1 DEF UsbPart
<1>7. ASSUME NEW k \in 1 .. a + 2 * T PROVE Place(packing, A[k]) = k
  <2>1. CASE k \in 1 .. R
    BY <1>3, <2>1 DEF Place
  <2>2. CASE k = R + 1
    <3>1. A[k] = <<"output_buffer", 0>>
      BY <1>3, <2>2 DEF Output
    <3> QED BY <2>2, <3>1 DEF Place
  <2>3. CASE packing /\ k = R + 2
    <3>1. A[k] = <<"unpacked_samples", 0>>
      BY <1>3, <2>3 DEF Unpacked
    <3> QED BY <2>3, <3>1 DEF Place
  <2>4. CASE k = a
    <3>1. A[k] = <<"transfers", 0>>
      BY <1>3, <2>4 DEF Array
    <3> QED BY <2>4, <3>1 DEF Place, a
  <2>5. CASE k > a
    <3>1. PICK j \in 1 .. 2 * T : k = a + j
      <4>1. k - a \in 1 .. 2 * T /\ k = a + (k - a)
        BY <1>1, <1>2, <2>5
      <4> QED BY <4>1
    <3> QED BY <1>5, <3>1
  <2> QED BY <1>1, <1>2, <2>1, <2>2, <2>3, <2>4, <2>5
<1>8. \A k \in a + 1 .. a + 2 * T : A[k] \in Structs \cup UsbBuffers
  <2> TAKE k \in a + 1 .. a + 2 * T
  <2>1. PICK j \in 1 .. 2 * T : k = a + j
    <3>1. k - a \in 1 .. 2 * T /\ k = a + (k - a)
      BY <1>1, <1>2
    <3> QED BY <3>1
  <2> QED BY <1>5, <2>1
<1>9. ASSUME NEW f \in Structs \cup UsbBuffers
      PROVE  \E k \in a + 1 .. a + 2 * T : A[k] = f
  <2>1. PICK n \in 1 .. T : f = <<"transfer", n>> \/ f = <<"buffer", n>>
    BY DEF Structs, UsbBuffers
  <2>2. a + (2 * n - 1) \in a + 1 .. a + 2 * T /\ a + 2 * n \in a + 1 .. a + 2 * T
    BY <1>1, <1>2
  <2> QED BY <1>6, <2>1, <2>2
<1>10. \A f \in QueueSlots \cup {Output} : \E k \in 1 .. a - 1 : A[k] = f
  <2>1. R + 1 \in 1 .. a - 1 /\ \A k \in 1 .. R : k \in 1 .. a - 1
    BY <1>1, <1>2
  <2> QED BY <1>3, <2>1 DEF QueueSlots
<1>11. packing => \E k \in 1 .. a - 1 : A[k] = Unpacked
  <2>1. packing => R + 2 \in 1 .. a - 1
    BY <1>1, <1>2
  <2> QED BY <1>3, <2>1
<1>12. a \in 1 .. a + 2 * T /\ a + 2 * T \in Nat
  BY <1>1, <1>2
<1> QED BY <1>3, <1>4, <1>7, <1>8, <1>9, <1>10, <1>11, <1>12 DEF a, A

-----------------------------------------------------------------------------
(* The invariant.                                                          *)

(* Before the first allocation; what Complete is about; the list's k-th.   *)
Opening == {"open", "look", "serial", "configure", "claim", "not_found", "rates"}
Needed  == {Array, Output} \cup QueueSlots \cup Structs \cup UsbBuffers

Field(k) == Allocations(packing_enabled)[k]

(* The list is filled up to place n: what is there fits, and the fields    *)
(* from n on are NULL, unless memory ran out before: then only those from  *)
(* the array of transfers on are.                                          *)
Filling(n) ==
  /\ todo = SubSeq(Allocations(packing_enabled), n, ListLength(packing_enabled))
  /\ \A k \in 1 .. ListLength(packing_enabled) :
       /\ k < n => ptr[Field(k)] # NULL /\ size[ptr[Field(k)]] = packing_enabled
       /\ k >= n /\ (k >= ArrayAt(packing_enabled) \/ ~starved) => ptr[Field(k)] = NULL

FillInv ==
  pc \in {"allocate", "reallocate"} =>
    \E n \in 1 .. ListLength(packing_enabled) + 1 : Filling(n)

(* What BuffersFit says of a stream.                                       *)
Fitting ==
  /\ \A f \in QueueSlots \cup UsbBuffers \cup {Output} : size[ptr[f]] = packing_enabled
  /\ packing_enabled => ptr[Unpacked] # NULL

(* The array of transfers tells whether there is anything behind it.       *)
ReadyInv ==
  pc = "ready" =>
    /\ ptr[Array] = NULL =>
         starved /\ \A f \in Structs \cup UsbBuffers : ptr[f] = NULL
    /\ (\A f \in Needed : ptr[f] # NULL) => Fitting

(* Only a complete device streams.                                         *)
StreamInv == streaming => pc = "ready" /\ \A f \in Needed : ptr[f] # NULL

(* Opening finds the fields as Init left them.                             *)
OpeningInv ==
  /\ pc \in Opening => ~packing_enabled /\ \A f \in Fields : ptr[f] = NULL
  /\ pc = "allocate" => ptr[Cnv] = NULL

SizesOK == packing_enabled \in BOOLEAN /\ size \in [Pool -> BOOLEAN]

BufferInv ==
  /\ MemoryInv /\ SizesOK /\ FillInv /\ ReadyInv /\ StreamInv /\ OpeningInv
  /\ NothingLost

-----------------------------------------------------------------------------
(* What the steps of the proof share.                                      *)

(* The fields of the transfers are the device's but two.                   *)
LEMMA AllFields ==
  /\ Needed \subseteq TransferFields /\ TransferFields \subseteq Fields
  /\ {Cnv, Rates} \subseteq Fields
  /\ Cnv \notin TransferFields /\ Rates \notin TransferFields /\ Cnv # Rates
  /\ Fields = TransferFields \cup {Cnv, Rates}
  /\ Array \in Needed /\ Unpacked \in TransferFields
<1>1. /\ Needed \subseteq TransferFields /\ TransferFields \subseteq Fields
      /\ Fields = TransferFields \cup {Cnv, Rates}
      /\ Array \in Needed /\ Unpacked \in TransferFields
  BY DEF Needed, TransferFields, Fields
<1>2. \A f \in TransferFields : f[1] # "cnv" /\ f[1] # "supported_samplerates"
  BY DEF TransferFields, QueueSlots, Structs, UsbBuffers, Array, Output, Unpacked
<1>3. Cnv[1] = "cnv" /\ Rates[1] = "supported_samplerates"
  BY DEF Cnv, Rates
<1> QED BY <1>1, <1>2, <1>3

(* Complete, as a statement about pointers.                                *)
LEMMA CompleteIs == Complete <=> \A f \in Needed : ptr[f] # NULL
<1>1. Complete <=> Needed \subseteq {f \in Fields : ptr[f] # NULL}
  BY DEF Complete, Needed
<1> QED BY <1>1, AllFields

(* A new block disturbs no other field.                                    *)
LEMMA AllocateOne ==
  ASSUME MemoryInv, SizesOK, pc # "closed", NEW f \in Fields, Allocate(f)
  PROVE  /\ size' \in [Pool -> BOOLEAN]
         /\ ptr'[f] # NULL /\ size'[ptr'[f]] = packing_enabled
         /\ \A g \in Fields : g # f =>
              /\ ptr'[g] = ptr[g]
              /\ ptr[g] # NULL => size'[ptr[g]] = size[ptr[g]]
         /\ live = Used(Fields) /\ ptr[f] = NULL => live' = Used(Fields)'
<1>1. PICK b \in Pool \ live :
        /\ ptr' = [ptr EXCEPT ![f] = b]
        /\ live' = live \cup {b}
        /\ size' = [size EXCEPT ![b] = packing_enabled]
  BY DEF Allocate
<1>2. b # NULL /\ b \in Pool
  BY ResourcesAssumption DEF NULL
<1>3. ptr'[f] = b /\ \A g \in Fields : g # f => ptr'[g] = ptr[g]
  BY <1>1 DEF MemoryInv
<1>4. /\ size' \in [Pool -> BOOLEAN] /\ size'[b] = packing_enabled
      /\ \A c \in Pool : c # b => size'[c] = size[c]
  BY <1>1 DEF SizesOK
<1>5. \A g \in Fields : ptr[g] # NULL => ptr[g] \in Pool /\ ptr[g] # b
  BY <1>1 DEF MemoryInv
<1>6. ASSUME live = Used(Fields), ptr[f] = NULL PROVE live' = Used(Fields)'
  BY <1>1, <1>2, <1>3, <1>6 DEF Used
<1> QED BY <1>2, <1>3, <1>4, <1>5, <1>6

(* No field points to anything at first.                                   *)
LEMMA BufferInit == Init => BufferInv
<1> SUFFICES ASSUME Init PROVE BufferInv
  OBVIOUS
<1>1. MemoryInv
  BY MemoryInit
<1>2. SizesOK /\ FillInv /\ ReadyInv /\ StreamInv /\ OpeningInv
  BY AllFields DEF Init, SizesOK, FillInv, ReadyInv, StreamInv, OpeningInv
<1>3. NothingLost
  BY DEF Init, NothingLost, Used
<1> QED BY <1>1, <1>2, <1>3 DEF BufferInv

-----------------------------------------------------------------------------
(* The steps.                                                              *)

(* The way to the first allocation.                                        *)
LEMMA OpeningKeeps ==
  ASSUME BufferInv,
         InitContext \/ Look \/ CompareSerial \/ Claim \/ NotFound
  PROVE  SizesOK' /\ FillInv' /\ ReadyInv' /\ StreamInv' /\ OpeningInv' /\ NothingLost'
<1>1. /\ UNCHANGED <<ptr, live, size, todo, starved, packing_enabled, streaming>>
      /\ pc \in Opening /\ pc' \in Opening \cup {"closed"}
  BY DEF InitContext, Look, CompareSerial, Claim, NotFound, Skip, Goto, memory, Opening
<1>2. ~streaming
  BY <1>1 DEF BufferInv, StreamInv, Opening
<1> QED
  BY <1>1, <1>2 DEF BufferInv, SizesOK, FillInv, ReadyInv, StreamInv, OpeningInv,
     NothingLost, Used, Opening

(* The fields of the list, by place.                                       *)
LEMMA ByPlace ==
  ASSUME SizesOK
  PROVE  /\ ArrayAt(packing_enabled) \in 1 .. ListLength(packing_enabled)
         /\ ListLength(packing_enabled) \in Nat
         /\ Field(ArrayAt(packing_enabled)) = Array
         /\ \A k \in 1 .. ListLength(packing_enabled) : Field(k) \in TransferFields
         /\ \A j, k \in 1 .. ListLength(packing_enabled) : Field(j) = Field(k) => j = k
         /\ \A k \in ArrayAt(packing_enabled) + 1 .. ListLength(packing_enabled) :
              Field(k) \in Structs \cup UsbBuffers
         /\ \A f \in Structs \cup UsbBuffers :
              \E k \in ArrayAt(packing_enabled) + 1 .. ListLength(packing_enabled) : Field(k) = f
         /\ \A f \in QueueSlots \cup {Output} :
              \E k \in 1 .. ArrayAt(packing_enabled) - 1 : Field(k) = f
         /\ packing_enabled =>
              \E k \in 1 .. ArrayAt(packing_enabled) - 1 : Field(k) = Unpacked
<1> DEFINE p == packing_enabled
           A == Allocations(p)
<1>1. p \in BOOLEAN
  BY DEF SizesOK
<1> HIDE DEF p
<1>2. /\ ArrayAt(p) \in 1 .. ListLength(p) /\ ListLength(p) \in Nat
      /\ A \in [1 .. ListLength(p) -> TransferFields]
      /\ \A k \in 1 .. ListLength(p) : Place(p, A[k]) = k
      /\ A[ArrayAt(p)] = Array
      /\ \A k \in ArrayAt(p) + 1 .. ListLength(p) : A[k] \in Structs \cup UsbBuffers
      /\ \A f \in Structs \cup UsbBuffers : \E k \in ArrayAt(p) + 1 .. ListLength(p) : A[k] = f
      /\ \A f \in QueueSlots \cup {Output} : \E k \in 1 .. ArrayAt(p) - 1 : A[k] = f
      /\ p => \E k \in 1 .. ArrayAt(p) - 1 : A[k] = Unpacked
  BY <1>1, PlacesInList
<1>3. \A j, k \in 1 .. ListLength(p) : A[j] = A[k] => j = k
  BY <1>2
<1>4. \A k \in 1 .. ListLength(p) : A[k] \in TransferFields
  BY <1>2
<1> QED BY <1>2, <1>3, <1>4 DEF Field, p

(* What is left of the list.                                               *)
LEMMA Rest ==
  ASSUME SizesOK, NEW n \in 1 .. ListLength(packing_enabled) + 1, Filling(n)
  PROVE  /\ todo = <<>> <=> n = ListLength(packing_enabled) + 1
         /\ todo # <<>> =>
              /\ n \in 1 .. ListLength(packing_enabled) /\ Head(todo) = Field(n)
              /\ Tail(todo) =
                   SubSeq(Allocations(packing_enabled), n + 1, ListLength(packing_enabled))
<1> DEFINE l == ListLength(packing_enabled)
           A == Allocations(packing_enabled)
<1>1. l \in Nat /\ A \in [1 .. l -> TransferFields]
  BY PlacesInList DEF SizesOK
<1>2. todo = SubSeq(A, n, l)
  BY DEF Filling
<1> HIDE DEF l, A
<1>3. A \in Seq(TransferFields) /\ Len(A) = l
  BY <1>1, SeqDef
<1>4. CASE n = l + 1
  <2>1. todo = <<>>
    BY <1>1, <1>2, <1>4, SubSeqEmpty
  <2> QED BY <1>1, <1>4, <2>1 DEF l
<1>5. CASE n \in 1 .. l
  <2>1. Head(todo) = A[n] /\ Tail(todo) = SubSeq(A, n + 1, l)
    BY <1>1, <1>2, <1>3, <1>5, HeadTailOfSubSeq
  <2>2. Len(todo) = l - n + 1
    BY <1>1, <1>2, <1>5, SubSeqProperties
  <2>3. todo # <<>> /\ n # l + 1
    BY <1>1, <1>5, <2>2
  <2> QED BY <1>1, <1>5, <2>1, <2>3 DEF l, A, Field
<1> QED BY <1>1, <1>4, <1>5 DEF l

(* The list begins, with nothing filled.                                   *)
LEMMA Begin ==
  ASSUME SizesOK',
         todo' = Allocations(packing_enabled'),
         \A k \in 1 .. ListLength(packing_enabled') :
           k >= ArrayAt(packing_enabled') \/ ~starved' => ptr'[Field(k)'] = NULL
  PROVE  FillInv'
<1> DEFINE p == packing_enabled'
           A == Allocations(p)
<1>1. p \in BOOLEAN
  BY DEF SizesOK
<1> HIDE DEF p
<1>2. ListLength(p) \in Nat /\ A \in [1 .. ListLength(p) -> TransferFields]
  BY <1>1, PlacesInList
<1> HIDE DEF A
<1>3. A \in Seq(TransferFields) /\ Len(A) = ListLength(p)
  BY <1>2, SeqDef
<1>4. A = SubSeq(A, 1, ListLength(p))
  BY <1>3, SubSeqFull
<1>5. 1 \in 1 .. ListLength(p) + 1 /\ \A k \in 1 .. ListLength(p) : ~(k < 1) /\ k >= 1
  BY <1>2
<1>6. Filling(1)'
  BY <1>4, <1>5 DEF Filling, p, A
<1> QED BY <1>5, <1>6 DEF FillInv, p

(* airspy_open_init() begins the list with every field of it NULL.         *)
LEMMA ReadRatesKeeps ==
  ASSUME BufferInv, ReadRates
  PROVE  SizesOK' /\ FillInv' /\ ReadyInv' /\ StreamInv' /\ OpeningInv' /\ NothingLost'
<1> USE AllFields DEF BufferInv
<1>1. /\ pc = "rates" /\ pc' = "allocate" /\ Allocate(Rates)
      /\ todo' = Allocations(FALSE)
      /\ UNCHANGED <<starved, packing_enabled, streaming>>
  BY DEF ReadRates, Goto
<1>2. ~packing_enabled /\ (\A f \in Fields : ptr[f] = NULL) /\ ~streaming
  BY <1>1 DEF OpeningInv, Opening, StreamInv
<1>3. /\ size' \in [Pool -> BOOLEAN]
      /\ \A g \in Fields : g # Rates => ptr'[g] = NULL
      /\ live = Used(Fields) => live' = Used(Fields)'
  BY <1>1, <1>2, AllocateOne
<1>4. SizesOK'
  BY <1>1, <1>3 DEF SizesOK
<1>5. \A f \in TransferFields : ptr'[f] = NULL
  BY <1>3
<1>6. \A k \in 1 .. ListLength(packing_enabled') : Field(k)' \in TransferFields
  BY <1>1, ByPlace DEF Field
<1>7. todo' = Allocations(packing_enabled')
  BY <1>1, <1>2 DEF SizesOK
<1>8. FillInv'
  BY <1>4, <1>5, <1>6, <1>7, Begin
<1>9. ReadyInv' /\ StreamInv' /\ OpeningInv'
  BY <1>1, <1>2, <1>3 DEF ReadyInv, StreamInv, OpeningInv, Opening
<1>10. NothingLost'
  BY <1>1, <1>3 DEF NothingLost
<1> QED BY <1>4, <1>8, <1>9, <1>10

(* An allocation moves the place on; no field that was filled changes.     *)
LEMMA AllocateNextKeeps ==
  ASSUME BufferInv, AllocateNext
  PROVE  SizesOK' /\ FillInv' /\ ReadyInv' /\ StreamInv' /\ OpeningInv' /\ NothingLost'
<1> USE AllFields DEF BufferInv
<1>1. /\ pc \in {"allocate", "reallocate"} /\ pc' = pc /\ todo # <<>>
      /\ Allocate(Head(todo)) /\ todo' = Tail(todo)
      /\ UNCHANGED <<starved, packing_enabled, streaming>>
  BY DEF AllocateNext
<1>2. PICK n \in 1 .. ListLength(packing_enabled) + 1 : Filling(n)
  BY <1>1 DEF FillInv
<1>3. /\ n \in 1 .. ListLength(packing_enabled) /\ Head(todo) = Field(n)
      /\ Tail(todo) =
           SubSeq(Allocations(packing_enabled), n + 1, ListLength(packing_enabled))
  BY <1>1, <1>2, Rest
<1>4. Field(n) \in TransferFields /\ ListLength(packing_enabled) \in Nat
  BY <1>3, ByPlace
<1>5. /\ size' \in [Pool -> BOOLEAN]
      /\ ptr'[Field(n)] # NULL /\ size'[ptr'[Field(n)]] = packing_enabled
      /\ \A g \in Fields : g # Field(n) =>
           /\ ptr'[g] = ptr[g]
           /\ ptr[g] # NULL => size'[ptr[g]] = size[ptr[g]]
      /\ live = Used(Fields) /\ ptr[Field(n)] = NULL => live' = Used(Fields)'
  BY <1>1, <1>3, <1>4, AllocateOne
<1>6. SizesOK'
  BY <1>1, <1>5 DEF SizesOK
<1>7. /\ ListLength(packing_enabled)' = ListLength(packing_enabled)
      /\ ArrayAt(packing_enabled)' = ArrayAt(packing_enabled)
      /\ Allocations(packing_enabled)' = Allocations(packing_enabled)
      /\ \A k : Field(k)' = Field(k)
  BY <1>1 DEF ListLength, ArrayAt, Field, Allocations
<1>8. ASSUME NEW k \in 1 .. ListLength(packing_enabled)
      PROVE  /\ k < n + 1 =>
                  ptr'[Field(k)] # NULL /\ size'[ptr'[Field(k)]] = packing_enabled
             /\ k >= n + 1 /\ (k >= ArrayAt(packing_enabled) \/ ~starved) =>
                  ptr'[Field(k)] = NULL
  <2>1. Field(k) \in Fields /\ (k # n => Field(k) # Field(n))
    BY <1>3, ByPlace
  <2>2. CASE k = n
    BY <1>3, <1>5, <2>2
  <2>3. CASE k < n
    <3>1. ptr[Field(k)] # NULL /\ size[ptr[Field(k)]] = packing_enabled
      BY <1>2, <2>3 DEF Filling
    <3> QED BY <1>3, <1>5, <2>1, <2>3, <3>1
  <2>4. CASE k > n
    <3>1. k >= ArrayAt(packing_enabled) \/ ~starved => ptr[Field(k)] = NULL
      BY <1>2, <1>3, <2>4 DEF Filling
    <3> QED BY <1>3, <1>5, <2>1, <2>4, <3>1
  <2> QED BY <1>3, <2>2, <2>3, <2>4
<1>9. FillInv'
  <2>1. n + 1 \in 1 .. ListLength(packing_enabled) + 1
    BY <1>3, <1>4
  <2>2. Filling(n + 1)'
    BY <1>1, <1>3, <1>7, <1>8 DEF Filling
  <2> QED BY <1>7, <2>1, <2>2 DEF FillInv
<1>10. ReadyInv' /\ StreamInv' /\ OpeningInv'
  <2>1. Cnv \in Fields /\ Field(n) # Cnv /\ ~streaming
    BY <1>1, <1>4 DEF StreamInv
  <2> QED BY <1>1, <1>5, <2>1 DEF ReadyInv, StreamInv, OpeningInv, Opening
<1>11. NothingLost'
  <2>1. ~starved => ptr[Field(n)] = NULL
    BY <1>2, <1>3 DEF Filling
  <2> QED BY <1>1, <1>5, <2>1 DEF NothingLost
<1> QED BY <1>6, <1>9, <1>10, <1>11

(* Where all of the list is filled, a stream has what it needs.            *)
LEMMA FilledIsReady ==
  ASSUME SizesOK, Filling(ListLength(packing_enabled) + 1)
  PROVE  ptr[Array] # NULL /\ Fitting
<1>1. \A k \in 1 .. ListLength(packing_enabled) :
        ptr[Field(k)] # NULL /\ size[ptr[Field(k)]] = packing_enabled
  BY ByPlace DEF Filling
<1>2. /\ \A k \in 1 .. ArrayAt(packing_enabled) - 1 : k \in 1 .. ListLength(packing_enabled)
      /\ \A k \in ArrayAt(packing_enabled) + 1 .. ListLength(packing_enabled) :
           k \in 1 .. ListLength(packing_enabled)
  BY ByPlace
<1>3. ASSUME NEW f \in QueueSlots \cup UsbBuffers \cup {Output}
      PROVE  size[ptr[f]] = packing_enabled
  BY <1>1, <1>2, ByPlace
<1>4. packing_enabled => ptr[Unpacked] # NULL
  BY <1>1, <1>2, ByPlace
<1>5. ptr[Array] # NULL
  BY <1>1, ByPlace
<1> QED BY <1>3, <1>4, <1>5 DEF Fitting

(* When all is allocated, the device is ready for a stream.                *)
LEMMA AllocateDoneKeeps ==
  ASSUME BufferInv, AllocateDone
  PROVE  SizesOK' /\ FillInv' /\ ReadyInv' /\ StreamInv' /\ OpeningInv' /\ NothingLost'
<1> USE AllFields DEF BufferInv
<1>1. /\ pc \in {"allocate", "reallocate"} /\ pc' = "ready" /\ todo = <<>>
      /\ UNCHANGED <<starved, packing_enabled, streaming>>
      /\ \/ pc = "allocate" /\ Allocate(Cnv)
         \/ UNCHANGED <<ptr, live, size>>
  BY DEF AllocateDone, Goto
<1>2. PICK n \in 1 .. ListLength(packing_enabled) + 1 : Filling(n)
  BY <1>1 DEF FillInv
<1>3. ptr[Array] # NULL /\ Fitting
  <2>1. n = ListLength(packing_enabled) + 1
    BY <1>1, <1>2, Rest
  <2> QED BY <1>2, <2>1, FilledIsReady
<1>4. FillInv' /\ StreamInv' /\ OpeningInv'
  BY <1>1 DEF FillInv, StreamInv, OpeningInv, Opening
<1>5. CASE pc = "allocate" /\ Allocate(Cnv)
  <2>1. /\ size' \in [Pool -> BOOLEAN]
        /\ \A g \in Fields : g # Cnv =>
             /\ ptr'[g] = ptr[g]
             /\ ptr[g] # NULL => size'[ptr[g]] = size[ptr[g]]
        /\ live = Used(Fields) /\ ptr[Cnv] = NULL => live' = Used(Fields)'
    BY <1>1, <1>5, AllocateOne
  <2>2. ptr[Cnv] = NULL
    BY <1>5 DEF OpeningInv
  <2>3. ReadyInv'
    <3>1. ptr'[Array] # NULL
      BY <1>3, <2>1
    <3>2. ASSUME \A f \in Needed : ptr'[f] # NULL
          PROVE  Fitting'
      <4>1. ASSUME NEW f \in QueueSlots \cup UsbBuffers \cup {Output}
            PROVE  size'[ptr'[f]] = packing_enabled'
        <5>1. f \in Needed
          BY DEF Needed
        <5>2. f \in Fields /\ f # Cnv /\ ptr'[f] # NULL
          BY <3>2, <5>1
        <5> QED BY <1>1, <1>3, <2>1, <5>2 DEF Fitting
      <4>2. packing_enabled' => ptr'[Unpacked] # NULL
        BY <1>1, <1>3, <2>1 DEF Fitting
      <4> QED BY <4>1, <4>2 DEF Fitting
    <3> QED BY <3>1, <3>2 DEF ReadyInv
  <2>4. SizesOK' /\ NothingLost'
    BY <1>1, <2>1, <2>2 DEF SizesOK, NothingLost
  <2> QED BY <1>4, <2>3, <2>4
<1>6. CASE UNCHANGED <<ptr, live, size>>
  <2>1. SizesOK' /\ NothingLost'
    BY <1>1, <1>6 DEF SizesOK, NothingLost, Used
  <2>2. ReadyInv'
    BY <1>1, <1>3, <1>6 DEF ReadyInv, Fitting
  <2> QED BY <1>4, <2>1, <2>2
<1> QED BY <1>1, <1>5, <1>6

(* A failure leaves either a closed device or one that is known to be      *)
(* incomplete; what it did allocate, it knows as long as there is an array *)
(* of transfers.                                                           *)
LEMMA AllocateFailsKeeps ==
  ASSUME BufferInv, AllocateFails
  PROVE  SizesOK' /\ FillInv' /\ ReadyInv' /\ StreamInv' /\ OpeningInv' /\ NothingLost'
<1> USE AllFields DEF BufferInv
<1>1. /\ todo # <<>> /\ pc \in {"allocate", "reallocate"}
      /\ UNCHANGED <<size, packing_enabled, streaming>>
  BY DEF AllocateFails, Goto
<1>2. ~streaming /\ SizesOK'
  BY <1>1 DEF StreamInv, SizesOK
<1>3. CASE pc = "allocate" /\ pc' = "closed" /\ starved'
  BY <1>1, <1>2, <1>3 DEF FillInv, ReadyInv, StreamInv, OpeningInv, Opening, NothingLost
<1>4. CASE /\ pc = "reallocate" /\ pc' = "ready"
           /\ ptr' = [ptr EXCEPT ![Head(todo)] = NULL]
           /\ starved' = (starved \/ ptr[Array] = NULL)
           /\ live' = live
  <2>1. PICK n \in 1 .. ListLength(packing_enabled) + 1 : Filling(n)
    BY <1>4 DEF FillInv
  <2>2. n \in 1 .. ListLength(packing_enabled) /\ Head(todo) = Field(n)
    BY <1>1, <2>1, Rest
  <2>3. Field(n) \in Fields /\ DOMAIN ptr = Fields
    BY <2>2, ByPlace DEF MemoryInv
  <2>4. \A k \in 1 .. ListLength(packing_enabled) :
          /\ k < n => ptr[Field(k)] # NULL
          /\ k >= n /\ k >= ArrayAt(packing_enabled) => ptr[Field(k)] = NULL
    BY <2>1 DEF Filling
  <2>5. /\ ArrayAt(packing_enabled) \in 1 .. ListLength(packing_enabled)
        /\ Field(ArrayAt(packing_enabled)) = Array
    BY ByPlace
  <2>6. FillInv' /\ StreamInv' /\ OpeningInv'
    BY <1>2, <1>1, <1>4 DEF FillInv, StreamInv, OpeningInv, Opening
  <2>7. CASE ptr[Array] = NULL
    <3>1. ArrayAt(packing_enabled) >= n
      BY <2>2, <2>4, <2>5, <2>7
    <3>2. ASSUME NEW f \in Structs \cup UsbBuffers PROVE ptr[f] = NULL
      <4>1. PICK k \in ArrayAt(packing_enabled) + 1 .. ListLength(packing_enabled) : Field(k) = f
        BY ByPlace
      <4>2. k \in 1 .. ListLength(packing_enabled) /\ k >= n /\ k >= ArrayAt(packing_enabled)
        BY <2>2, <2>5, <3>1, <4>1
      <4> QED BY <2>4, <4>1, <4>2
    <3>3. \A f \in Structs \cup UsbBuffers \cup {Array} : ptr'[f] = NULL
      <4>1. Structs \cup UsbBuffers \cup {Array} \subseteq Fields
        BY DEF Needed
      <4> QED BY <1>4, <2>3, <2>7, <3>2, <4>1
    <3>4. starved'
      BY <1>4, <2>7
    <3> QED BY <1>2, <2>6, <3>3, <3>4 DEF ReadyInv, NothingLost
  <2>8. CASE ptr[Array] # NULL
    <3>1. n > ArrayAt(packing_enabled)
      BY <2>2, <2>4, <2>5, <2>8
    <3>2. ptr[Field(n)] = NULL /\ Field(n) \in Needed
      <4>1. Field(n) \in Structs \cup UsbBuffers
        <5>1. n \in ArrayAt(packing_enabled) + 1 .. ListLength(packing_enabled)
          BY <2>2, <2>5, <3>1
        <5> QED BY <5>1, ByPlace
      <4> QED BY <2>2, <2>4, <2>5, <3>1, <4>1 DEF Needed
    <3>3. \A f \in Fields : ptr'[f] = ptr[f]
      BY <1>4, <2>2, <2>3, <3>2
    <3>4. NothingLost'
      <4>1. Used(Fields)' = Used(Fields)
        <5>1. {ptr'[f] : f \in Fields} = {ptr[f] : f \in Fields}
          BY <3>3
        <5> QED BY <5>1 DEF Used
      <4>2. ~starved' => ~starved
        BY <1>4
      <4> QED BY <1>4, <4>1, <4>2 DEF NothingLost
    <3>5. ReadyInv'
      BY <2>3, <2>8, <3>2, <3>3 DEF ReadyInv
    <3> QED BY <1>2, <2>6, <3>4, <3>5
  <2> QED BY <2>7, <2>8
<1> QED BY <1>3, <1>4 DEF AllocateFails, Goto

(* A stream starts on a complete device only.                              *)
LEMMA StartStopKeeps ==
  ASSUME BufferInv, StartStop
  PROVE  SizesOK' /\ FillInv' /\ ReadyInv' /\ StreamInv' /\ OpeningInv' /\ NothingLost'
<1> USE DEF BufferInv
<1>1. /\ pc = "ready" /\ pc' = pc /\ streaming' = ~streaming
      /\ UNCHANGED <<ptr, live, size, starved, packing_enabled>>
      /\ Complete \/ streaming
  BY DEF StartStop, memory
<1>2. \A f \in Needed : ptr[f] # NULL
  BY <1>1, CompleteIs DEF StreamInv
<1> QED
  BY <1>1, <1>2 DEF SizesOK, FillInv, ReadyInv, Fitting, StreamInv, OpeningInv,
     Opening, NothingLost, Used

(* An exchange moves blocks between fields that need the same.             *)
LEMMA ExchangeKeeps ==
  ASSUME BufferInv, Exchange
  PROVE  SizesOK' /\ FillInv' /\ ReadyInv' /\ StreamInv' /\ OpeningInv' /\ NothingLost'
<1> USE AllFields DEF BufferInv
<1>1. /\ streaming /\ pc = "ready" /\ \A f \in Needed : ptr[f] # NULL
      /\ UNCHANGED <<pc, live, size, starved, packing_enabled, streaming>>
  BY DEF Exchange, StreamInv
<1>2. PICK q \in QueueSlots, b \in UsbBuffers :
        ptr' = [ptr EXCEPT ![q] = ptr[b], ![b] = ptr[q]]
  BY DEF Exchange
<1>3. q \in Fields /\ b \in Fields /\ DOMAIN ptr = Fields
  BY DEF MemoryInv, Needed
<1>4. q # b /\ Array \notin {q, b} /\ Unpacked \notin {q, b} /\ Output \notin {q, b}
  BY DEF QueueSlots, UsbBuffers, Array, Unpacked, Output
<1>5. /\ ptr'[q] = ptr[b] /\ ptr'[b] = ptr[q]
      /\ \A f \in Fields : f \notin {q, b} => ptr'[f] = ptr[f]
  BY <1>2, <1>3, <1>4
<1>6. Fitting
  BY <1>1 DEF ReadyInv
<1>7. Fitting'
  <2>1. ASSUME NEW f \in QueueSlots \cup UsbBuffers \cup {Output}
        PROVE  size'[ptr'[f]] = packing_enabled'
    <3>1. f \in Fields
      BY DEF Needed
    <3> QED BY <1>1, <1>5, <1>6, <3>1 DEF Fitting
  <2>2. packing_enabled' => ptr'[Unpacked] # NULL
    BY <1>1, <1>4, <1>5, <1>6 DEF Fitting
  <2> QED BY <2>1, <2>2 DEF Fitting
<1>8. \A f \in Needed : ptr'[f] # NULL
  <2>1. q \in Needed /\ b \in Needed
    BY DEF Needed
  <2> QED BY <1>1, <1>5, <2>1
<1>9. Used(Fields)' = Used(Fields)
  <2>1. ASSUME NEW x PROVE (\E f \in Fields : ptr[f] = x) <=> \E f \in Fields : ptr'[f] = x
    BY <1>3, <1>5
  <2>2. {ptr'[f] : f \in Fields} = {ptr[f] : f \in Fields}
    BY <2>1
  <2> QED BY <2>2 DEF Used
<1>10. ReadyInv' /\ StreamInv'
  BY <1>1, <1>7, <1>8 DEF ReadyInv, StreamInv
<1>11. SizesOK' /\ FillInv' /\ OpeningInv' /\ NothingLost'
  BY <1>1, <1>9 DEF SizesOK, FillInv, OpeningInv, Opening, NothingLost
<1> QED BY <1>10, <1>11

(* What freeing does to every field, and to the blocks that are kept.      *)
LEMMA FreeOnly ==
  ASSUME SizesOK, NEW fields \in SUBSET Fields, Free(fields)
  PROVE  /\ size' \in [Pool -> BOOLEAN]
         /\ \A f \in fields : ptr'[f] = NULL
         /\ \A f \in Fields \ fields : ptr'[f] = ptr[f]
BY DEF Free, SizesOK

(* The new mode begins with every transfer field NULL, or where memory had *)
(* run out with nothing from the array of transfers on.                    *)
LEMMA SetPackingKeeps ==
  ASSUME BufferInv, SetPacking
  PROVE  SizesOK' /\ FillInv' /\ ReadyInv' /\ StreamInv' /\ OpeningInv' /\ NothingLost'
<1> USE AllFields DEF BufferInv
<1>1. /\ ~streaming /\ pc = "ready" /\ pc' = "reallocate"
      /\ Free(FreeTransfers(Fields))
      /\ packing_enabled' = ~packing_enabled
      /\ todo' = Allocations(packing_enabled')
      /\ UNCHANGED <<starved, streaming>>
  BY DEF SetPacking, Goto
<1>2. FreeTransfers(Fields) = IF ptr[Array] = NULL THEN {} ELSE TransferFields
  BY DEF FreeTransfers
<1>3. /\ size' \in [Pool -> BOOLEAN]
      /\ \A f \in FreeTransfers(Fields) : ptr'[f] = NULL
      /\ \A f \in Fields \ FreeTransfers(Fields) : ptr'[f] = ptr[f]
  BY <1>1, <1>2, FreeOnly
<1>4. SizesOK'
  BY <1>1, <1>3 DEF SizesOK
<1>5. /\ ArrayAt(packing_enabled') \in 1 .. ListLength(packing_enabled')
      /\ ListLength(packing_enabled') \in Nat
      /\ Field(ArrayAt(packing_enabled))' = Array
      /\ \A k \in 1 .. ListLength(packing_enabled') : Field(k)' \in TransferFields
      /\ \A k \in ArrayAt(packing_enabled') + 1 .. ListLength(packing_enabled') :
           Field(k)' \in Structs \cup UsbBuffers
  <2>1. PICK p \in BOOLEAN : p = packing_enabled'
    BY <1>4 DEF SizesOK
  <2>2. /\ ArrayAt(p) \in 1 .. ListLength(p) /\ ListLength(p) \in Nat
        /\ Allocations(p) \in [1 .. ListLength(p) -> TransferFields]
        /\ Allocations(p)[ArrayAt(p)] = Array
        /\ \A k \in ArrayAt(p) + 1 .. ListLength(p) :
             Allocations(p)[k] \in Structs \cup UsbBuffers
    BY <2>1, PlacesInList
  <2>3. \A k \in 1 .. ListLength(p) : Allocations(p)[k] \in TransferFields
    BY <2>2
  <2> QED BY <2>1, <2>2, <2>3 DEF Field
<1>6. ASSUME NEW k \in 1 .. ListLength(packing_enabled'),
             k >= ArrayAt(packing_enabled') \/ ~starved'
      PROVE  ptr'[Field(k)'] = NULL
  <2>1. CASE ptr[Array] # NULL
    BY <1>2, <1>3, <1>5, <2>1
  <2>2. CASE ptr[Array] = NULL
    <3>1. starved /\ \A f \in Structs \cup UsbBuffers \cup {Array} : ptr[f] = NULL
      BY <1>1, <2>2 DEF ReadyInv
    <3>2. Field(k)' \in Structs \cup UsbBuffers \cup {Array}
      <4>1. k >= ArrayAt(packing_enabled')
        BY <1>1, <1>6, <3>1
      <4>2. CASE k = ArrayAt(packing_enabled')
        BY <1>5, <4>2 DEF Field
      <4>3. CASE k # ArrayAt(packing_enabled')
        <5>1. k \in ArrayAt(packing_enabled') + 1 .. ListLength(packing_enabled')
          BY <1>5, <4>1, <4>3
        <5> QED BY <1>5, <5>1
      <4> QED BY <4>2, <4>3
    <3> QED BY <1>2, <1>3, <1>5, <2>2, <3>1, <3>2
  <2> QED BY <2>1, <2>2
<1>7. FillInv'
  BY <1>1, <1>4, <1>6, Begin
<1>8. ReadyInv' /\ StreamInv' /\ OpeningInv'
  BY <1>1 DEF ReadyInv, StreamInv, OpeningInv, Opening
<1>9. NothingLost'
  <2> SUFFICES ASSUME ~starved' PROVE live' = Used(Fields)'
    BY DEF NothingLost
  <2>1. ptr[Array] # NULL /\ live = Used(Fields)
    BY <1>1 DEF ReadyInv, NothingLost
  <2>2. live' = Used(Fields) \ Used(TransferFields)
    BY <1>1, <1>2, <2>1 DEF Free
  <2>3. /\ \A f \in TransferFields : ptr'[f] = NULL
        /\ ptr'[Cnv] = ptr[Cnv] /\ ptr'[Rates] = ptr[Rates]
    BY <1>2, <1>3, <2>1
  <2>4. Used(Fields)' = {ptr[Cnv], ptr[Rates]} \ {NULL}
    BY <2>3 DEF Used
  <2>5. Used(Fields) \ Used(TransferFields) = {ptr[Cnv], ptr[Rates]} \ {NULL}
    <3>1. \A f \in TransferFields, g \in {Cnv, Rates} : ptr[f] = ptr[g] => ptr[g] = NULL
      BY <1>1 DEF MemoryInv
    <3> QED BY <3>1 DEF Used
  <2> QED BY <2>2, <2>4, <2>5
<1> QED BY <1>4, <1>7, <1>8, <1>9

(* The converter's block is no other field's.                              *)
LEMMA SetConversionFilterKeeps ==
  ASSUME BufferInv, SetConversionFilter
  PROVE  SizesOK' /\ FillInv' /\ ReadyInv' /\ StreamInv' /\ OpeningInv' /\ NothingLost'
<1> USE AllFields DEF BufferInv
<1>1. /\ ~streaming /\ pc = "ready" /\ pc' = pc
      /\ UNCHANGED <<starved, packing_enabled, streaming>>
  BY DEF SetConversionFilter
<1>2. PICK b \in Pool \ (live \ {ptr[Cnv]}) :
        /\ live' = (live \ {ptr[Cnv]}) \cup {b}
        /\ ptr' = [ptr EXCEPT ![Cnv] = b]
        /\ size' = [size EXCEPT ![ptr[Cnv]] = FALSE, ![b] = packing_enabled]
  BY DEF SetConversionFilter
<1>3. b \in Pool /\ b # NULL
  BY ResourcesAssumption DEF NULL
<1>4. /\ DOMAIN ptr = Fields /\ ptr[Cnv] \in live \cup {NULL} /\ NULL \notin Pool
      /\ \A f \in Fields : f # Cnv /\ ptr[f] # NULL =>
           ptr[f] \in live /\ ptr[f] \in Pool /\ ptr[f] # ptr[Cnv]
  BY <1>1, ResourcesAssumption DEF MemoryInv, NULL
<1>5. ptr'[Cnv] = b /\ \A f \in Fields : f # Cnv => ptr'[f] = ptr[f]
  BY <1>2, <1>4
<1>6. /\ size' \in [Pool -> BOOLEAN]
      /\ \A c \in Pool : c # b /\ c # ptr[Cnv] => size'[c] = size[c]
  BY <1>2, <1>3 DEF SizesOK
<1>7. \A f \in Fields : f # Cnv /\ ptr[f] # NULL => size'[ptr'[f]] = size[ptr[f]]
  BY <1>2, <1>4, <1>5, <1>6
<1>8. SizesOK' /\ FillInv' /\ StreamInv' /\ OpeningInv'
  BY <1>1, <1>6 DEF SizesOK, FillInv, StreamInv, OpeningInv, Opening
<1>9. ReadyInv'
  <2>1. \A f \in TransferFields : ptr'[f] = ptr[f]
    BY <1>5
  <2>2. ptr'[Array] = NULL =>
          starved' /\ \A f \in Structs \cup UsbBuffers : ptr'[f] = NULL
    BY <1>1, <2>1 DEF ReadyInv, Needed
  <2>3. ASSUME \A f \in Needed : ptr'[f] # NULL PROVE Fitting'
    <3>1. Fitting /\ \A f \in Needed : ptr[f] # NULL
      BY <1>1, <2>1, <2>3 DEF ReadyInv
    <3>2. ASSUME NEW f \in QueueSlots \cup UsbBuffers \cup {Output}
          PROVE  size'[ptr'[f]] = packing_enabled'
      <4>1. f \in Needed
        BY DEF Needed
      <4>2. f \in Fields /\ f # Cnv /\ ptr[f] # NULL
        BY <3>1, <4>1
      <4> QED BY <1>1, <1>7, <3>1, <4>2 DEF Fitting
    <3>3. packing_enabled' => ptr'[Unpacked] # NULL
      BY <1>1, <2>1, <3>1 DEF Fitting
    <3> QED BY <3>2, <3>3 DEF Fitting
  <2> QED BY <2>2, <2>3 DEF ReadyInv
<1>10. NothingLost'
  <2> SUFFICES ASSUME ~starved' PROVE live' = Used(Fields)'
    BY DEF NothingLost
  <2>1. live = Used(Fields)
    BY <1>1 DEF NothingLost
  <2> DEFINE others == {ptr[f] : f \in Fields \ {Cnv}} \ {NULL}
  <2>2. Used(Fields)' = others \cup {b}
    BY <1>3, <1>5 DEF Used
  <2>3. live \ {ptr[Cnv]} = others
    BY <1>4, <2>1 DEF Used
  <2> QED BY <1>2, <2>2, <2>3
<1> QED BY <1>8, <1>9, <1>10

(* What is not starved has an array of transfers, so that close frees all. *)
LEMMA CloseKeeps ==
  ASSUME BufferInv, Close
  PROVE  SizesOK' /\ FillInv' /\ ReadyInv' /\ StreamInv' /\ OpeningInv' /\ NothingLost'
<1> USE AllFields DEF BufferInv
<1>1. /\ pc = "ready" /\ pc' = "closed" /\ streaming' = FALSE
      /\ Free(FreeTransfers(Fields) \cup {Cnv, Rates})
      /\ UNCHANGED <<starved, packing_enabled>>
  BY DEF Close, Goto
<1>2. FreeTransfers(Fields) = IF ptr[Array] = NULL THEN {} ELSE TransferFields
  BY DEF FreeTransfers
<1>3. SizesOK'
  BY <1>1, <1>2, FreeOnly DEF SizesOK
<1>4. FillInv' /\ ReadyInv' /\ StreamInv' /\ OpeningInv'
  BY <1>1 DEF FillInv, ReadyInv, StreamInv, OpeningInv, Opening
<1>5. NothingLost'
  <2> SUFFICES ASSUME ~starved' PROVE live' = Used(Fields)'
    BY DEF NothingLost
  <2>1. ptr[Array] # NULL /\ live = Used(Fields)
    BY <1>1 DEF ReadyInv, NothingLost
  <2>2. FreeTransfers(Fields) \cup {Cnv, Rates} = Fields
    BY <1>2, <2>1
  <2>3. live' = {} /\ \A f \in Fields : ptr'[f] = NULL
    BY <1>1, <2>1, <2>2 DEF Free
  <2> QED BY <2>3 DEF Used
<1> QED BY <1>3, <1>4, <1>5

-----------------------------------------------------------------------------
(* Every step keeps the invariant.                                         *)
LEMMA BufferNext == BufferInv /\ [Next]_vars => BufferInv'
<1> SUFFICES ASSUME BufferInv, [Next]_vars PROVE BufferInv'
  OBVIOUS
<1>1. MemoryInv'
  BY MemoryNext DEF BufferInv
<1>2. ASSUME UNCHANGED vars
      PROVE  SizesOK' /\ FillInv' /\ ReadyInv' /\ StreamInv' /\ OpeningInv' /\ NothingLost'
  <2>1. SizesOK' /\ StreamInv' /\ OpeningInv' /\ NothingLost'
    BY <1>2 DEF vars, memory, BufferInv, SizesOK, StreamInv, OpeningInv, NothingLost, Used
  <2>2. FillInv'
    BY <1>2 DEF vars, memory, BufferInv, FillInv, Filling, Field
  <2>3. ReadyInv'
    BY <1>2 DEF vars, memory, BufferInv, ReadyInv, Fitting
  <2> QED BY <2>1, <2>2, <2>3
<1>3. SizesOK' /\ FillInv' /\ ReadyInv' /\ StreamInv' /\ OpeningInv' /\ NothingLost'
  BY <1>2, OpeningKeeps, ReadRatesKeeps, AllocateNextKeeps, AllocateFailsKeeps,
     AllocateDoneKeeps, StartStopKeeps, ExchangeKeeps, SetPackingKeeps,
     SetConversionFilterKeeps, CloseKeeps
     DEF Next, Finished, Exhausted
<1> QED BY <1>1, <1>3 DEF BufferInv

(* Unless memory ran out where the code frees nothing, every block that is *)
(* allocated is one that airspy_close() finds and frees.                   *)
THEOREM NoBlockIsLost == Spec => []NothingLost
<1>1. BufferInv => NothingLost
  BY DEF BufferInv
<1> QED BY <1>1, BufferInit, BufferNext, PTL DEF Spec

(* No stream runs on a buffer that is missing, or of the other packing.    *)
THEOREM StreamsOnFittingBuffers == Spec => []BuffersFit
<1>1. BufferInv => BuffersFit
  BY CompleteIs DEF BufferInv, BuffersFit, StreamInv, ReadyInv, Fitting
<1> QED BY <1>1, BufferInit, BufferNext, PTL DEF Spec
=============================================================================
