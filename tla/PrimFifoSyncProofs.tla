------------------------- MODULE PrimFifoSyncProofs -------------------------
(****************************************************************************)
(* Proofs about PrimFifoSync for every Depth >= 2, a power of two or not,   *)
(* and every set of entries: the wrap pointers count what is inside, and    *)
(* the FIFO implements BoundedFifo.                                         *)
(****************************************************************************)
EXTENDS PrimFifoSync, SequenceTheorems, TLAPS

\* The inductive invariant: the write pointer is ahead of the read pointer by
\* at most one turn, and the MSBs tell whether it has wrapped once more.
TypeInv ==
  /\ wptr \in Slots /\ rptr \in Slots
  /\ wmsb \in BOOLEAN /\ rmsb \in BOOLEAN /\ under_rst \in BOOLEAN
  /\ storage \in [Slots -> Data]

PointerOrder ==
  /\ wmsb = rmsb => rptr <= wptr
  /\ wmsb # rmsb => wptr <= rptr

EmptyInReset == under_rst => empty

IInv == TypeInv /\ PointerOrder /\ EmptyInReset

\* The slot of the i-th oldest entry.
SlotOf(p, i) == IF p + i - 1 < Depth THEN p + i - 1 ELSE p + i - 1 - Depth

------------------------------------------------------------------------------
(* Functions on an interval as sequences.                                   *)

\* Intervals from 1 are equal when their ends are.
LEMMA IntervalEnds ==
  ASSUME NEW m \in Nat, NEW n \in Nat, 1 .. m = 1 .. n
  PROVE  m = n
<1>1. m >= 1 => m \in 1 .. n
  OBVIOUS
<1>2. n >= 1 => n \in 1 .. m
  OBVIOUS
<1> QED
  BY <1>1, <1>2

\* A function on an interval from 1 is a sequence of its length.
LEMMA FunctionIsSeq ==
  ASSUME NEW n \in Nat, NEW f \in [1 .. n -> Data]
  PROVE  f \in Seq(Data) /\ Len(f) = n
<1>1. f \in Seq(Data)
  BY SeqDef, Zenon
<1>2. Len(f) \in Nat /\ DOMAIN f = 1 .. Len(f)
  BY <1>1, LenProperties, Zenon
<1>3. DOMAIN f = 1 .. n
  OBVIOUS
<1>4. 1 .. Len(f) = 1 .. n
  BY <1>2, <1>3, Zenon
<1> QED
  BY <1>1, <1>2, <1>4, IntervalEnds

\* What is offered is nothing or one entry.
LEMMA AtMostOneFacts ==
  ASSUME NEW w \in AtMostOne
  PROVE  /\ w \in Seq(Data)
         /\ w = <<>> => Len(w) = 0
         /\ w # <<>> => w[1] \in Data /\ w = <<w[1]>> /\ Len(w) = 1
<1>1. CASE w = <<>>
  BY <1>1, EmptySeq
<1>2. CASE \E d \in Data : w = <<d>>
  <2>1. PICK d \in Data : w = <<d>>
    BY <1>2
  <2> QED
    BY <2>1
<1> QED
  BY <1>1, <1>2 DEF AtMostOne

------------------------------------------------------------------------------
(* The pointers.                                                            *)

\* The depth the pointers show is a number of entries the storage can hold.
LEMMA DepthRange ==
  ASSUME IInv
  PROVE  /\ depth \in Nat /\ depth <= Depth
         /\ full <=> depth = Depth
         /\ empty <=> depth = 0
BY DepthAssumption DEF IInv, TypeInv, PointerOrder, Slots, depth, full, empty

\* Slots follow each other, the last by the first.
LEMMA SlotOfRange ==
  ASSUME NEW p \in Slots, NEW i \in 1 .. Depth
  PROVE  /\ SlotOf(p, i) \in Slots
         /\ SlotOf(p, 1) = p
         /\ i < Depth => SlotOf(Incr(p), i) = SlotOf(p, i + 1)
BY DepthAssumption DEF SlotOf, Slots, Incr

\* The write pointer shows the slot behind the youngest entry, and no entry.
LEMMA NextFreeSlot ==
  ASSUME IInv, ~full
  PROVE  /\ depth + 1 \in 1 .. Depth
         /\ SlotOf(rptr, depth + 1) = wptr
         /\ \A i \in 1 .. depth : SlotOf(rptr, i) # wptr
BY DepthAssumption DEF IInv, TypeInv, PointerOrder, Slots, depth, full, SlotOf

\* What is inside is a sequence as long as the pointers show.
LEMMA ContentsIsSeq ==
  ASSUME IInv
  PROVE  /\ Contents \in Seq(Data) /\ Len(Contents) = depth
         /\ \A i \in 1 .. depth : Contents[i] = storage[SlotOf(rptr, i)]
<1>1. depth \in Nat /\ depth <= Depth
  BY DepthRange
<1>2. \A i \in 1 .. depth : storage[SlotOf(rptr, i)] \in Data
  <2> TAKE i \in 1 .. depth
  <2>1. i \in 1 .. Depth
    BY <1>1, DepthAssumption
  <2>2. SlotOf(rptr, i) \in Slots
    BY <2>1, SlotOfRange DEF IInv, TypeInv
  <2> QED
    BY <2>2 DEF IInv, TypeInv
<1>3. Contents = [i \in 1 .. depth |-> storage[SlotOf(rptr, i)]]
  BY DEF Contents, SlotOf
<1>4. Contents \in [1 .. depth -> Data]
  BY <1>2, <1>3
<1> QED
  BY <1>1, <1>3, <1>4, FunctionIsSeq

\* The handshakes of a cycle.
LEMMA HandshakeValues ==
  ASSUME IInv, NEW w \in AtMostOne, NEW rready \in BOOLEAN
  PROVE  /\ Accepted(w) \in AtMostOne
         /\ Accepted(w) # <<>> => ~full /\ Accepted(w) = w
         /\ Delivered(w, rready) \in AtMostOne
         /\ Delivered(w, rready) # <<>> =>
              /\ ~empty \/ Accepted(w) # <<>>
              /\ Delivered(w, rready) = <<IF empty THEN w[1] ELSE storage[rptr]>>
<1>1. Accepted(w) \in AtMostOne /\ (Accepted(w) # <<>> => ~full /\ Accepted(w) = w)
  BY DEF Accepted, wready, AtMostOne
<1>2. CASE Delivered(w, rready) = <<>>
  BY <1>1, <1>2 DEF AtMostOne
<1>3. CASE Delivered(w, rready) # <<>>
  <2>1. rvalid(w) /\ Delivered(w, rready) = <<rdata(w)>>
    BY <1>3 DEF Delivered
  <2>2. ~under_rst /\ (~empty \/ w # <<>>)
    BY <2>1 DEF rvalid
  <2>3. empty => ~full
    BY DEF empty, full
  <2>4. ~empty \/ Accepted(w) # <<>>
    BY <2>2, <2>3 DEF Accepted, wready
  <2>5. rdata(w) \in Data
    <3>1. CASE empty
      <4>1. w # <<>>
        BY <2>2, <3>1
      <4> QED
        BY <3>1, <4>1, AtMostOneFacts DEF rdata
    <3>2. CASE ~empty
      BY <3>2 DEF rdata, IInv, TypeInv
    <3> QED
      BY <3>1, <3>2
  <2>6. <<rdata(w)>> \in AtMostOne
    BY <2>5 DEF AtMostOne
  <2> QED
    BY <1>1, <2>1, <2>4, <2>6 DEF rdata
<1> QED
  BY <1>2, <1>3

------------------------------------------------------------------------------
(* Invariance.                                                              *)

\* Out of reset the FIFO is empty.
LEMMA InitIInv == Init => IInv
<1>1. 0 \in Slots /\ 0 <= 0
  BY DepthAssumption DEF Slots
<1> QED
  BY <1>1, Zenon DEF Init, IInv, TypeInv, PointerOrder, EmptyInReset, empty

\* What is written is an entry, in the slot of the write pointer.
LEMMA StoreStep ==
  ASSUME IInv, NEW w \in AtMostOne, Store(w)
  PROVE  /\ storage' \in [Slots -> Data]
         /\ Accepted(w) # <<>> => storage'[wptr] = w[1]
         /\ \A s \in Slots : s # wptr => storage'[s] = storage[s]
<1>1. CASE Accepted(w) = <<>>
  BY <1>1 DEF Store, IInv, TypeInv
<1>2. CASE Accepted(w) # <<>>
  <2>1. w # <<>>
    BY <1>2 DEF Accepted
  <2>2. w[1] \in Data
    BY <2>1, AtMostOneFacts
  <2> QED
    BY <1>2, <2>2 DEF Store, IInv, TypeInv
<1> QED
  BY <1>1, <1>2

\* Where the pointers go, and how many entries they then show.
LEMMA PointersStep ==
  ASSUME IInv, NEW w \in AtMostOne, NEW rready \in BOOLEAN, Cycle(w, rready)
  PROVE  /\ wptr' \in Slots /\ rptr' \in Slots /\ wmsb' \in BOOLEAN /\ rmsb' \in BOOLEAN
         /\ PointerOrder'
         /\ depth' = depth + (IF Accepted(w) = <<>> THEN 0 ELSE 1)
                           - (IF Delivered(w, rready) = <<>> THEN 0 ELSE 1)
<1>1. /\ Accepted(w) # <<>> => ~full
      /\ Delivered(w, rready) # <<>> => ~empty \/ Accepted(w) # <<>>
  BY HandshakeValues
<1>2. /\ wptr \in Nat /\ wptr <= Depth - 1 /\ rptr \in Nat /\ rptr <= Depth - 1
      /\ wmsb \in BOOLEAN /\ rmsb \in BOOLEAN
      /\ Depth \in Nat /\ Depth >= 2
  BY DepthAssumption DEF IInv, TypeInv, Slots
<1>3. CASE Accepted(w) = <<>> /\ Delivered(w, rready) = <<>>
  <2>1. wptr' = wptr /\ wmsb' = wmsb /\ rptr' = rptr /\ rmsb' = rmsb
    BY <1>3 DEF Cycle
  <2> QED
    BY <1>2, <1>3, <2>1 DEF IInv, TypeInv, PointerOrder, depth, full, Slots
<1>4. CASE Accepted(w) # <<>> /\ Delivered(w, rready) = <<>>
  <2>1. /\ wptr' = Incr(wptr) /\ wmsb' = (wmsb # (wptr = Depth - 1))
        /\ rptr' = rptr /\ rmsb' = rmsb
    BY <1>4 DEF Cycle
  <2> QED
    BY <1>1, <1>2, <1>4, <2>1 DEF IInv, PointerOrder, depth, full, Slots, Incr
<1>5. CASE Accepted(w) = <<>> /\ Delivered(w, rready) # <<>>
  <2>1. /\ rptr' = Incr(rptr) /\ rmsb' = (rmsb # (rptr = Depth - 1))
        /\ wptr' = wptr /\ wmsb' = wmsb
    BY <1>5 DEF Cycle
  <2> QED
    BY <1>1, <1>2, <1>5, <2>1 DEF IInv, PointerOrder, depth, full, empty, Slots, Incr
<1>6. CASE Accepted(w) # <<>> /\ Delivered(w, rready) # <<>>
  <2>1. /\ rptr' = Incr(rptr) /\ rmsb' = (rmsb # (rptr = Depth - 1))
        /\ wptr' = Incr(wptr) /\ wmsb' = (wmsb # (wptr = Depth - 1))
    BY <1>6 DEF Cycle
  <2> QED
    BY <1>1, <1>2, <1>6, <2>1 DEF IInv, PointerOrder, depth, full, Slots, Incr
<1> QED
  BY <1>3, <1>4, <1>5, <1>6

\* Both pointers at 0: empty.
LEMMA ClearedPointers ==
  ASSUME wptr' = 0, rptr' = 0, wmsb' = FALSE, rmsb' = FALSE
  PROVE  /\ wptr' \in Slots /\ rptr' \in Slots /\ wmsb' \in BOOLEAN /\ rmsb' \in BOOLEAN
         /\ PointerOrder' /\ empty' /\ depth' = 0
<1>1. 0 \in Slots /\ 0 <= 0 /\ 0 - 0 = 0
  BY DepthAssumption DEF Slots
<1>2. /\ wptr' \in Slots /\ rptr' \in Slots /\ wmsb' \in BOOLEAN /\ rmsb' \in BOOLEAN
      /\ PointerOrder' /\ empty'
  BY <1>1, Zenon DEF PointerOrder, empty
<1>3. wptr' - rptr' = 0 /\ wmsb' = rmsb'
  BY <1>1, Zenon
<1>4. depth' = wptr' - rptr'
  BY <1>3, Zenon DEF depth, full
<1> QED
  BY <1>2, <1>3, <1>4

\* Every step keeps the invariant.
LEMMA StepIInv == IInv /\ [Next]_vars => IInv'
<1> SUFFICES ASSUME IInv, [Next]_vars
             PROVE  IInv'
  OBVIOUS
<1>1. ASSUME NEW w \in AtMostOne, NEW rready \in BOOLEAN, Cycle(w, rready)
      PROVE  IInv'
  <2>1. Store(w) /\ under_rst' = FALSE
    BY <1>1 DEF Cycle, Handshake
  <2> QED
    BY <1>1, <2>1, StoreStep, PointersStep DEF IInv, TypeInv, EmptyInReset
<1>2. ASSUME NEW w \in AtMostOne, NEW rready \in BOOLEAN, Clear(w, rready)
      PROVE  IInv'
  <2>1. Store(w) /\ under_rst' = FALSE
    BY <1>2 DEF Clear, Handshake
  <2>2. wptr' = 0 /\ rptr' = 0 /\ wmsb' = FALSE /\ rmsb' = FALSE
    BY <1>2 DEF Clear
  <2> QED
    BY <2>1, <2>2, StoreStep, ClearedPointers DEF IInv, TypeInv, EmptyInReset
<1>3. CASE Reset
  <2>1. /\ wptr' = 0 /\ rptr' = 0 /\ wmsb' = FALSE /\ rmsb' = FALSE
        /\ storage' = storage /\ under_rst' = TRUE
    BY <1>3 DEF Reset
  <2> QED
    BY <2>1, ClearedPointers DEF IInv, TypeInv, EmptyInReset
<1>4. CASE UNCHANGED vars
  BY <1>4 DEF vars, IInv, TypeInv, PointerOrder, EmptyInReset, empty
<1> QED
  BY <1>1, <1>2, <1>3, <1>4 DEF Next

\* The pointers keep their order: the depth they show is the number of entries
\* between them, never more than Depth (prim_fifo_sync_cnt.sv).
THEOREM PointersCount == Spec => [](PointerOrder /\ depth \in 0 .. Depth)
<1>1. IInv => depth \in 0 .. Depth /\ PointerOrder
  BY DepthRange, DepthAssumption DEF IInv
<1> QED
  BY <1>1, InitIInv, StepIInv, PTL DEF Spec

------------------------------------------------------------------------------
(* Refinement.                                                              *)

\* The entries inside and the one coming in, oldest first, are what the storage
\* then holds from the read pointer on.
LEMMA QueueInStorage ==
  ASSUME IInv, NEW w \in AtMostOne, Store(w)
  PROVE  LET n == depth + Len(Accepted(w))
         IN /\ Contents \o Accepted(w) \in Seq(Data)
            /\ n \in 0 .. Depth
            /\ Len(Contents \o Accepted(w)) = n
            /\ \A i \in 1 .. n : (Contents \o Accepted(w))[i] = storage'[SlotOf(rptr, i)]
<1> DEFINE a == Accepted(w)
           n == depth + Len(a)
<1>1. a \in AtMostOne /\ (a # <<>> => ~full /\ a = w)
  BY HandshakeValues
<1>2. a \in Seq(Data) /\ (a = <<>> => Len(a) = 0) /\ (a # <<>> => a[1] \in Data /\ Len(a) = 1)
  BY <1>1, AtMostOneFacts
<1>3. depth \in Nat /\ depth <= Depth /\ (full <=> depth = Depth)
  BY DepthRange
<1>4. /\ Contents \in Seq(Data) /\ Len(Contents) = depth
      /\ \A i \in 1 .. depth : Contents[i] = storage[SlotOf(rptr, i)]
  BY ContentsIsSeq
<1>5. n \in 0 .. Depth
  <2>1. CASE a = <<>>
    <3>1. n = depth + 0
      BY <1>2, <2>1
    <3> QED
      BY <1>3, <3>1, DepthAssumption
  <2>2. CASE a # <<>>
    <3>1. n = depth + 1 /\ depth # Depth
      BY <1>1, <1>2, <1>3, <2>2
    <3> QED
      BY <1>3, <3>1, DepthAssumption
  <2> QED
    BY <2>1, <2>2
<1>6. /\ Contents \o a \in Seq(Data) /\ Len(Contents \o a) = n
      /\ \A i \in 1 .. n : (Contents \o a)[i] = IF i <= depth THEN Contents[i] ELSE a[i - depth]
  BY <1>2, <1>4, ConcatProperties
<1>7. ASSUME NEW i \in 1 .. n
      PROVE  (Contents \o a)[i] = storage'[SlotOf(rptr, i)]
  <2>1. (Contents \o a)[i] = IF i <= depth THEN Contents[i] ELSE a[i - depth]
    BY <1>6, <1>7
  <2>2. i \in 1 .. Depth /\ SlotOf(rptr, i) \in Slots
    BY <1>5, <1>7, SlotOfRange, DepthAssumption DEF IInv, TypeInv
  <2>3. CASE i <= depth
    <3>1. i \in 1 .. depth /\ Contents[i] = storage[SlotOf(rptr, i)]
      BY <1>3, <1>4, <1>7, <2>3
    <3>2. CASE a = <<>>
      <4>1. storage' = storage
        BY <3>2 DEF Store
      <4> QED
        BY <2>1, <2>3, <3>1, <4>1
    <3>3. CASE a # <<>>
      <4>1. SlotOf(rptr, i) # wptr
        BY <1>1, <3>1, <3>3, NextFreeSlot
      <4> QED
        BY <2>1, <2>2, <2>3, <3>1, <4>1, StoreStep
    <3> QED
      BY <3>2, <3>3
  <2>4. CASE ~(i <= depth)
    <3>1. a # <<>> /\ i = depth + 1
      <4>1. i \in Nat /\ i <= n
        BY <1>5, <1>7
      <4>2. a = <<>> => n = depth + 0
        BY <1>2
      <4>3. a # <<>> => n = depth + 1
        BY <1>2
      <4> HIDE DEF n, a
      <4> QED
        BY <1>3, <2>4, <4>1, <4>2, <4>3
    <3>2. (Contents \o a)[i] = w[1]
      BY <1>1, <1>3, <2>1, <2>4, <3>1
    <3>3. SlotOf(rptr, i) = wptr /\ storage'[wptr] = w[1]
      BY <1>1, <3>1, NextFreeSlot, StoreStep
    <3> QED
      BY <3>2, <3>3
  <2> QED
    BY <2>3, <2>4
<1> QED
  BY <1>5, <1>6, <1>7

\* The entry delivered is the oldest of these.
LEMMA DeliveredIsOldest ==
  ASSUME IInv, NEW w \in AtMostOne, NEW rready \in BOOLEAN, Store(w),
         Delivered(w, rready) # <<>>
  PROVE  /\ depth + Len(Accepted(w)) >= 1
         /\ Delivered(w, rready) = <<storage'[SlotOf(rptr, 1)]>>
         /\ storage'[SlotOf(rptr, 1)] \in Data
<1>1. /\ Accepted(w) \in AtMostOne
      /\ Accepted(w) # <<>> => ~full /\ Accepted(w) = w
      /\ ~empty \/ Accepted(w) # <<>>
      /\ Delivered(w, rready) = <<IF empty THEN w[1] ELSE storage[rptr]>>
  BY HandshakeValues
<1>2. depth \in Nat /\ (empty <=> depth = 0)
  BY DepthRange
<1>3. (Accepted(w) = <<>> => Len(Accepted(w)) = 0) /\ (Accepted(w) # <<>> => Len(Accepted(w)) = 1)
  BY <1>1, AtMostOneFacts
<1>4. 1 \in 1 .. Depth /\ rptr \in Slots /\ SlotOf(rptr, 1) = rptr
  BY SlotOfRange, DepthAssumption DEF IInv, TypeInv
<1>5. storage'[rptr] \in Data
  BY <1>4, StoreStep
<1>6. CASE empty
  <2>1. Accepted(w) # <<>> /\ rptr = wptr
    BY <1>1, <1>6 DEF empty
  <2>2. storage'[rptr] = w[1] /\ Delivered(w, rready) = <<w[1]>>
    BY <1>1, <1>6, <2>1, StoreStep
  <2> QED
    BY <1>2, <1>3, <1>4, <1>5, <2>1, <2>2
<1>7. CASE ~empty
  <2>1. storage'[rptr] = storage[rptr]
    <3>1. CASE Accepted(w) = <<>>
      BY <3>1 DEF Store
    <3>2. CASE Accepted(w) # <<>>
      <4>1. rptr # wptr
        BY <1>1, <1>7, <3>2 DEF empty, full, IInv, TypeInv
      <4> QED
        BY <1>4, <4>1, StoreStep
    <3> QED
      BY <3>1, <3>2
  <2> QED
    BY <1>1, <1>2, <1>3, <1>4, <1>5, <1>7, <2>1
<1> QED
  BY <1>6, <1>7

ContentsValues ==
  /\ Contents \in Seq(Data) /\ Len(Contents) = depth
  /\ \A i \in 1 .. depth : Contents[i] = storage[SlotOf(rptr, i)]
  /\ depth \in Nat /\ depth <= Depth

\* The invariant gives the contents, in this state as in the next.
LEMMA ContentsFacts == IInv => ContentsValues
BY ContentsIsSeq, DepthRange DEF ContentsValues

\* Sums and differences of a few numbers.
LEMMA Regroup ==
  /\ \A x, y, z \in Int : (x + y) - z = x + y - z
  /\ \A x, y \in Nat : x <= 1 + y => x - 1 <= y
OBVIOUS

\* A sequence with one entry put before it.
LEMMA OneBefore ==
  ASSUME NEW x \in Seq(Data), NEW s \in Seq(Data), NEW m, Len(x) = 1, Len(s) = m
  PROVE  /\ x \o s \in Seq(Data) /\ Len(x \o s) = 1 + m
         /\ \A i \in 1 .. 1 + m : (x \o s)[i] = IF i <= 1 THEN x[1] ELSE s[i - 1]
<1>1. m \in Nat
  BY LenProperties
<1>2. /\ x \o s \in Seq(Data) /\ Len(x \o s) = Len(x) + Len(s)
      /\ \A i \in 1 .. Len(x) + Len(s) :
           (x \o s)[i] = IF i <= Len(x) THEN x[i] ELSE s[i - Len(x)]
  BY ConcatProperties, Zenon
<1>3. /\ x \o s \in Seq(Data) /\ Len(x \o s) = 1 + m
      /\ \A i \in 1 .. 1 + m : (x \o s)[i] = IF i <= 1 THEN x[i] ELSE s[i - 1]
  BY <1>2, Zenon
<1>4. ASSUME NEW i \in 1 .. 1 + m
      PROVE  (x \o s)[i] = IF i <= 1 THEN x[1] ELSE s[i - 1]
  <2>1. (x \o s)[i] = IF i <= 1 THEN x[i] ELSE s[i - 1]
    BY <1>3
  <2>2. i <= 1 => i = 1
    BY <1>1
  <2> QED
    BY <2>1, <2>2, Zenon
<1> QED
  BY <1>3, <1>4

\* The entry delivered and what stays, in order, are what was inside and came in.
LEMMA CycleRefines ==
  ASSUME IInv, IInv', NEW w \in AtMostOne, NEW rready \in BOOLEAN, Cycle(w, rready)
  PROVE  Fifo!BFCycle
<1> DEFINE a == Accepted(w)
           d == Delivered(w, rready)
           n == depth + Len(a)
           all == Contents \o a
<1>1. Store(w) /\ wr' = a /\ rd' = d
  BY DEF Cycle, Handshake
<1>2. a \in AtMostOne /\ d \in AtMostOne
  BY HandshakeValues
<1>3. /\ all \in Seq(Data) /\ n \in 0 .. Depth /\ Len(all) = n
      /\ \A i \in 1 .. n : all[i] = storage'[SlotOf(rptr, i)]
  BY <1>1, QueueInStorage
<1>4. /\ Contents' \in Seq(Data) /\ Len(Contents') = depth'
      /\ \A i \in 1 .. depth' : Contents'[i] = storage'[SlotOf(rptr', i)]
      /\ depth' \in Nat /\ depth' <= Depth
  <2>1. ContentsValues'
    BY ContentsFacts, PTL
  <2> QED
    BY <2>1 DEF ContentsValues
<1>5. d \in Seq(Data) /\ (d = <<>> => Len(d) = 0) /\ (d # <<>> => Len(d) = 1)
  BY <1>2, AtMostOneFacts
<1>6. depth' = n - Len(d)
  <2>1. depth' = depth + (IF a = <<>> THEN 0 ELSE 1) - (IF d = <<>> THEN 0 ELSE 1)
    BY PointersStep
  <2>2. (a = <<>> => Len(a) = 0) /\ (a # <<>> => Len(a) = 1)
    BY <1>2, AtMostOneFacts
  <2>3. depth' = (depth + Len(a)) - Len(d)
    <3>1. /\ Len(a) = IF a = <<>> THEN 0 ELSE 1
          /\ Len(d) = IF d = <<>> THEN 0 ELSE 1
      BY <1>5, <2>2, Zenon
    <3>2. depth' = depth + Len(a) - Len(d)
      BY <2>1, <3>1, Zenon
    <3>3. Len(a) \in Int /\ Len(d) \in Int /\ depth \in Int
      BY <3>1, DepthRange
    <3> QED
      BY <3>2, <3>3, Regroup, Zenon
  <2> QED
    BY <2>3, Zenon
<1>7. all = d \o Contents'
  <2>1. CASE d = <<>>
    <3>1. rptr' = rptr
      BY <2>1 DEF Cycle
    <3>2. depth' = n
      BY <1>3, <1>5, <1>6, <2>1
    <3>3. \A i \in 1 .. Len(all) : all[i] = Contents'[i]
      BY <1>3, <1>4, <3>1, <3>2
    <3>4. all = Contents'
      BY <1>3, <1>4, <3>2, <3>3, SeqEqual
    <3>5. <<>> \o Contents' = Contents'
      BY <1>4, ConcatEmptySeq
    <3> QED
      BY <2>1, <3>4, <3>5
  <2>2. CASE d # <<>>
    <3>1. rptr' = Incr(rptr) /\ rptr \in Slots
      BY <2>2 DEF Cycle, IInv, TypeInv
    <3>2. n >= 1 /\ d = <<storage'[SlotOf(rptr, 1)]>>
      BY <1>1, <2>2, DeliveredIsOldest
    <3>3. /\ d \o Contents' \in Seq(Data) /\ Len(d \o Contents') = 1 + depth'
          /\ \A i \in 1 .. 1 + depth' :
               (d \o Contents')[i] = IF i <= 1 THEN d[1] ELSE Contents'[i - 1]
      <4>1. d \in Seq(Data) /\ Len(d) = 1 /\ Contents' \in Seq(Data) /\ Len(Contents') = depth'
        BY <1>4, <1>5, <2>2
      <4> HIDE DEF d
      <4> QED
        BY <4>1, OneBefore, Zenon
    <3>4. 1 + depth' = n
      <4>1. depth' = n - 1
        BY <1>5, <1>6, <2>2, Zenon
      <4>2. n \in Int
        BY <1>3
      <4> HIDE DEF n
      <4> QED
        BY <4>1, <4>2
    <3>5. ASSUME NEW i \in 1 .. n
          PROVE  all[i] = (d \o Contents')[i]
      <4>1. all[i] = storage'[SlotOf(rptr, i)]
        BY <1>3
      <4>2. (d \o Contents')[i] = IF i <= 1 THEN d[1] ELSE Contents'[i - 1]
        BY <3>3, <3>4
      <4>3. CASE i = 1
        BY <3>2, <4>1, <4>2, <4>3
      <4>4. CASE i # 1
        <5>1. i \in Nat /\ i >= 2 /\ i <= Depth /\ i <= 1 + depth' /\ Depth \in Nat
          BY <1>3, <3>4, <4>4, DepthAssumption
        <5>2. i - 1 \in 1 .. depth' /\ i - 1 \in 1 .. Depth /\ i - 1 < Depth /\ (i - 1) + 1 = i
          <6>1. i - 1 \in Nat /\ i - 1 >= 1 /\ i - 1 < Depth /\ (i - 1) + 1 = i
            BY <5>1
          <6>2. depth' \in Nat /\ i - 1 <= depth'
            <7>1. depth' \in Nat
              BY <1>4
            <7> QED
              BY <5>1, <7>1, Regroup, Zenon
          <6> QED
            BY <5>1, <6>1, <6>2
        <5>3. SlotOf(Incr(rptr), i - 1) = SlotOf(rptr, i)
          BY <3>1, <5>2, SlotOfRange
        <5>4. Contents'[i - 1] = storage'[SlotOf(rptr, i)]
          BY <1>4, <3>1, <5>2, <5>3
        <5> QED
          BY <4>1, <4>2, <5>1, <5>4
      <4> QED
        BY <4>3, <4>4
    <3> QED
      BY <1>3, <3>3, <3>4, <3>5, SeqEqual
  <2> QED
    BY <2>1, <2>2
<1> QED
  BY <1>1, <1>2, <1>4, <1>7 DEF Fifo!BFCycle, Fifo!AtMostOne, AtMostOne

\* Depth 0 means nothing inside.
LEMMA EmptyContents ==
  ASSUME IInv, depth = 0
  PROVE  Contents = <<>>
<1>1. Contents \in Seq(Data) /\ Len(Contents) = 0
  BY ContentsIsSeq
<1> QED
  BY <1>1, EmptySeq

\* With clear, one entry may still be delivered; it is the oldest.
LEMMA ClearRefines ==
  ASSUME IInv, IInv', NEW w \in AtMostOne, NEW rready \in BOOLEAN, Clear(w, rready)
  PROVE  Fifo!BFClear
<1> DEFINE a == Accepted(w)
           d == Delivered(w, rready)
           all == Contents \o a
<1>1. Store(w) /\ wr' = a /\ rd' = d
  BY DEF Clear, Handshake
<1>2. a \in AtMostOne /\ d \in AtMostOne
  BY HandshakeValues
<1>3. /\ all \in Seq(Data) /\ depth + Len(a) \in 0 .. Depth /\ Len(all) = depth + Len(a)
      /\ \A i \in 1 .. depth + Len(a) : all[i] = storage'[SlotOf(rptr, i)]
  BY <1>1, QueueInStorage
<1>4. d # <<>> => all # <<>> /\ d = <<Head(all)>>
  <2> SUFFICES ASSUME d # <<>>
               PROVE  all # <<>> /\ d = <<Head(all)>>
    OBVIOUS
  <2>1. depth + Len(a) >= 1 /\ d = <<storage'[SlotOf(rptr, 1)]>>
    BY <1>1, DeliveredIsOldest
  <2>2. 1 \in 1 .. depth + Len(a) /\ Len(all) >= 1
    BY <1>3, <2>1
  <2>3. all[1] = storage'[SlotOf(rptr, 1)]
    BY <1>3, <2>2
  <2>4. all # <<>> /\ Head(all) = all[1]
    BY <1>3, <2>2, EmptySeq, HeadTailProperties
  <2> QED
    BY <2>1, <2>3, <2>4
<1>5. Contents' = <<>>
  <2>1. depth' = 0
    BY ClearedPointers DEF Clear
  <2>2. (IInv /\ depth = 0 => Contents = <<>>)'
    BY EmptyContents, PTL
  <2> QED
    BY <2>1, <2>2
<1> QED
  BY <1>1, <1>2, <1>4, <1>5 DEF Fifo!BFClear, Fifo!AtMostOne, AtMostOne

\* The pointers, the storage and the pass-through implement a FIFO of Depth
\* entries, for every Depth: what is delivered is what was accepted, in that
\* order, nothing is lost when both pointers wrap (prim_fifo_sync.sv).
THEOREM PrimIsFifo == Spec => ImplementsFifo
<1>1. Init => Fifo!BFInit
  <2> SUFFICES ASSUME Init
               PROVE  Fifo!BFInit
    OBVIOUS
  <2>1. IInv
    BY InitIInv
  <2>2. empty
    BY DEF Init, empty
  <2>3. Contents = <<>>
    BY <2>1, <2>2, DepthRange, EmptyContents
  <2> QED
    BY <2>3 DEF Init, Fifo!BFInit
<1>2. IInv /\ IInv' /\ [Next]_vars => [Fifo!BFNext]_(Fifo!bfVars)
  <2> SUFFICES ASSUME IInv, IInv', [Next]_vars
               PROVE  [Fifo!BFNext]_(Fifo!bfVars)
    OBVIOUS
  <2>1. CASE \E w \in AtMostOne, rready \in BOOLEAN : Cycle(w, rready)
    BY <2>1, CycleRefines DEF Fifo!BFNext
  <2>2. CASE \E w \in AtMostOne, rready \in BOOLEAN : Clear(w, rready)
    BY <2>2, ClearRefines DEF Fifo!BFNext
  <2>3. CASE Reset
    <3>1. depth' = 0
      BY <2>3, ClearedPointers DEF Reset
    <3>2. (IInv /\ depth = 0 => Contents = <<>>)'
      BY EmptyContents, PTL
    <3>3. Contents' = <<>> /\ wr' = <<>> /\ rd' = <<>>
      BY <2>3, <3>1, <3>2 DEF Reset
    <3> QED
      BY <3>3 DEF Fifo!BFNext, Fifo!BFReset
  <2>4. CASE UNCHANGED vars
    <3>1. Contents' = Contents /\ wr' = wr /\ rd' = rd
      BY <2>4 DEF vars, Contents, depth, full
    <3> QED
      BY <3>1 DEF Fifo!bfVars
  <2> QED
    BY <2>1, <2>2, <2>3, <2>4 DEF Next
<1> QED
  BY <1>1, <1>2, InitIInv, StepIInv, PTL DEF Spec, ImplementsFifo, Fifo!BFSpec
==============================================================================
