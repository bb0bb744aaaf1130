------------------------ MODULE I2cFifoAdapterProofs ------------------------
(****************************************************************************)
(* Proofs about I2cFifoAdapter for every Depth >= 3, every set of entries   *)
(* and every behaviour of the SRAM arbiter.                                 *)
(****************************************************************************)
EXTENDS I2cFifoAdapter, SequenceTheorems, TLAPS

\* The inductive invariant.  A read in flight needs room in the output buffer
\* and leaves a hole in the SRAM; together with the slot the input buffer keeps
\* when SRAM and output buffer are full, this bounds the whole FIFO.
RoomForRead == rdq # <<>> => Len(oup) < OupBufDepth /\ Len(sram) < SramFifoDepth

EmptyInReset == under_rst => inp = <<>> /\ sram = <<>> /\ rdq = <<>> /\ oup = <<>>

IInv == TypeOK /\ RoomForRead /\ EmptyInReset /\ FullLeavesInputSlot

\* What the sequence operators of a cycle do to lengths and types.
LEMMA SeqFacts ==
  ASSUME NEW s \in Seq(Data)
  PROVE  /\ Len(s) \in Nat
         /\ s = <<>> <=> Len(s) = 0
         /\ s # <<>> => /\ Head(s) \in Data
                        /\ Tail(s) \in Seq(Data)
                        /\ Len(Tail(s)) = Len(s) - 1
         /\ \A d \in Data : Append(s, d) \in Seq(Data) /\ Len(Append(s, d)) = Len(s) + 1
<1>1. Len(s) \in Nat /\ (s = <<>> <=> Len(s) = 0)
  BY EmptySeq
<1>2. s # <<>> => Head(s) \in Data /\ Tail(s) \in Seq(Data) /\ Len(Tail(s)) = Len(s) - 1
  BY HeadTailProperties
<1>3. \A d \in Data : Append(s, d) \in Seq(Data) /\ Len(Append(s, d)) = Len(s) + 1
  BY AppendProperties
<1>4. QED
  BY <1>1, <1>2, <1>3

\* Sizes of the two buffers.
LEMMA SmallNats ==
  /\ \A n \in Nat : n <= 1 => n = 0 \/ n = 1
  /\ \A n \in Nat : n <= 2 => n = 0 \/ n = 1 \/ n = 2
OBVIOUS

\* What is offered, accepted or in flight is nothing or one entry.
LEMMA AtMostOneFacts ==
  ASSUME NEW w \in AtMostOne
  PROVE  /\ w \in Seq(Data)
         /\ Len(w) \in Nat /\ Len(w) <= 1
         /\ w = <<>> <=> Len(w) = 0
<1>1. CASE w = <<>>
  BY <1>1, EmptySeq
<1>2. CASE \E d \in Data : w = <<d>>
  <2>1. PICK d \in Data : w = <<d>>
    BY <1>2
  <2>2. w = Append(<<>>, d)
    BY <2>1
  <2>3. w \in Seq(Data) /\ w # <<>> /\ Len(w) = 1
    BY <2>1, <2>2, EmptySeq, AppendProperties
  <2>4. QED
    BY <2>3
<1>3. QED
  BY <1>1, <1>2 DEF AtMostOne

\* The length and type of two sequences put together.
LEMMA ConcatFacts ==
  ASSUME NEW s \in Seq(Data), NEW w \in AtMostOne
  PROVE  s \o w \in Seq(Data) /\ Len(s \o w) = Len(s) + Len(w)
BY AtMostOneFacts, ConcatProperties

\* The initial state satisfies the invariant.
LEMMA InitIInv == Init => IInv
BY DepthAssumption, RegionAssumption, EmptySeq
DEF Init, IInv, TypeOK, RoomForRead, EmptyInReset, FullLeavesInputSlot,
   AtMostOne, InpBufDepth, OupBufDepth, SramFifoDepth, sram_full, oup_buf_full

\* Types and lengths of the values a cycle computes.
LEMMA CycleValues ==
  ASSUME IInv, NEW w \in Offers, NEW rready \in BOOLEAN
  PROVE  /\ Accepted(w) \in AtMostOne
         /\ Avail(w) \in Seq(Data)
         /\ Len(Avail(w)) = Len(inp) + Len(Accepted(w))
         /\ OupWrite(w) \in AtMostOne
         /\ OupAvail(w) \in Seq(Data)
         /\ Len(OupAvail(w)) = IF oup_buf_wready THEN Len(oup) + Len(OupWrite(w)) ELSE Len(oup)
         /\ Delivered(w, rready) \in AtMostOne
         /\ Delivered(w, rready) # <<>> => OupAvail(w) # <<>>
<1>1. w \in AtMostOne /\ <<>> \in AtMostOne
  BY DEF Offers, AtMostOne
<1>2. Accepted(w) \in AtMostOne
  BY <1>1 DEF Accepted
<1>3. Avail(w) \in Seq(Data) /\ Len(Avail(w)) = Len(inp) + Len(Accepted(w))
  BY <1>2, ConcatFacts DEF Avail, IInv, TypeOK
<1>4. OupWrite(w) \in AtMostOne
  BY <1>1, <1>3, SeqFacts DEF OupWrite, IInv, TypeOK, AtMostOne
<1>5. /\ OupAvail(w) \in Seq(Data)
      /\ Len(OupAvail(w)) = IF oup_buf_wready THEN Len(oup) + Len(OupWrite(w)) ELSE Len(oup)
  BY <1>4, ConcatFacts DEF OupAvail, IInv, TypeOK
<1>6. fifo_rvalid(w) => OupAvail(w) # <<>>
  <2>1. SUFFICES ASSUME fifo_rvalid(w)
                 PROVE  Len(OupAvail(w)) > 0
    BY <1>5, SeqFacts
  <2>2. /\ Len(oup) \in Nat /\ Len(oup) <= 2
        /\ Len(OupWrite(w)) \in Nat /\ Len(OupWrite(w)) <= 1
    <3>1. Len(oup) \in Nat /\ Len(oup) <= 2
      BY SeqFacts DEF IInv, TypeOK, OupBufDepth
    <3>2. Len(OupWrite(w)) \in Nat /\ Len(OupWrite(w)) <= 1
      BY <1>4, AtMostOneFacts
    <3>3. QED
      BY <3>1, <3>2
  <2>3. CASE Len(oup) > 0
    BY <2>2, <2>3, <1>5
  <2>4. CASE Len(oup) = 0
    <3>1. oup_buf_wready
      BY <2>1, <2>4 DEF fifo_rvalid, oup_buf_wready, oup_buf_full, OupBufDepth
    <3>2. OupWrite(w) # <<>>
      BY <2>1, <2>4, SeqFacts DEF fifo_rvalid, IInv, TypeOK
    <3>3. QED
      BY <3>1, <3>2, <2>2, <2>4, <1>4, <1>5, AtMostOneFacts
  <2>5. QED
    BY <2>2, <2>3, <2>4
<1>7. Delivered(w, rready) \in AtMostOne
  BY <1>1, <1>5, <1>6, SeqFacts DEF Delivered, AtMostOne
<1>8. Delivered(w, rready) # <<>> => OupAvail(w) # <<>>
  BY <1>6 DEF Delivered
<1>9. QED
  BY <1>2, <1>3, <1>4, <1>5, <1>7, <1>8

\* A clock edge without clear preserves the invariant, granted or not.
LEMMA CycleIInv ==
  ASSUME IInv, NEW w \in Offers, NEW rready \in BOOLEAN, NEW gnt \in BOOLEAN,
         Cycle(w, rready, gnt)
  PROVE  IInv'
<1> DEFINE av == Avail(w)
           oa == OupAvail(w)
           dl == Delivered(w, rready)
           rreq == ReadRequest(w, rready) /\ gnt
           wreq == WriteRequest(w, rready) /\ gnt
<1>1. /\ av \in Seq(Data) /\ Len(av) \in Nat /\ Len(av) <= 2 /\ (av = <<>> <=> Len(av) = 0)
      /\ Len(av) = 2 => Len(inp) = 2 \/ fifo_wready
      /\ oa \in Seq(Data) /\ Len(oa) \in Nat
      /\ Len(oa) = IF oup_buf_wready THEN Len(oup) + Len(OupWrite(w)) ELSE Len(oup)
      /\ Len(OupWrite(w)) \in Nat /\ Len(OupWrite(w)) <= 1
      /\ dl \in AtMostOne /\ (dl # <<>> => oa # <<>>)
  <2>1. Len(inp) \in Nat /\ Len(inp) <= 2
    BY SeqFacts DEF IInv, TypeOK, InpBufDepth
  <2>2. Len(Accepted(w)) \in Nat /\ Len(Accepted(w)) <= 1 /\ (~fifo_wready => Len(Accepted(w)) = 0)
    BY CycleValues, AtMostOneFacts, EmptySeq DEF Accepted
  <2>3. fifo_wready => Len(inp) < 2
    BY DEF fifo_wready, inp_buf_wready, InpBufDepth
  <2>4. Len(av) \in Nat /\ Len(av) <= 2 /\ (Len(av) = 2 => Len(inp) = 2 \/ fifo_wready)
    <3>1. Len(av) = Len(inp) + Len(Accepted(w))
      BY CycleValues
    <3>2. Len(av) \in Nat
      BY <3>1, <2>1, <2>2
    <3>3. Len(av) <= 2
      BY <3>1, <2>1, <2>2, <2>3
    <3>4. Len(av) = 2 => Len(inp) = 2 \/ fifo_wready
      BY <3>1, <2>1, <2>2
    <3>5. QED
      BY <3>2, <3>3, <3>4
  <2>5. QED
    BY <2>4, CycleValues, SeqFacts, AtMostOneFacts
<1>2. /\ Len(inp) \in Nat /\ Len(sram) \in Nat /\ Len(oup) \in Nat /\ Len(rdq) \in Nat /\ Len(rdq) <= 1
      /\ Len(inp) <= 2 /\ Len(sram) <= SramFifoDepth /\ Len(oup) <= 2
      /\ sram = <<>> <=> Len(sram) = 0
      /\ rdq = <<>> <=> Len(rdq) = 0
      /\ SramFifoDepth \in Nat /\ SramFifoDepth >= 1
  BY SeqFacts, AtMostOneFacts, DepthAssumption, RegionAssumption
     DEF IInv, TypeOK, InpBufDepth, OupBufDepth, SramFifoDepth
<1>3. inp' \in Seq(Data) /\ Len(inp') = IF InpRead(w, rready, gnt) THEN Len(av) - 1 ELSE Len(av)
  BY <1>1, SeqFacts DEF Cycle, Move, InpRead
<1>4. oup' \in Seq(Data) /\ Len(oup') = IF dl # <<>> THEN Len(oa) - 1 ELSE Len(oa)
  BY <1>1, SeqFacts DEF Cycle, Move
<1>5. /\ rreq => rdq' \in AtMostOne /\ rdq' # <<>> /\ sram' \in Seq(Data) /\ Len(sram') = Len(sram) - 1
      /\ wreq => rdq' = <<>> /\ sram' \in Seq(Data) /\ Len(sram') = Len(sram) + 1
      /\ ~rreq /\ ~wreq => rdq' = <<>> /\ sram' = sram
  <2>1. CASE rreq
    <3>1. sram # <<>> /\ sram \in Seq(Data)
      BY <2>1 DEF ReadRequest, sram_empty, IInv, TypeOK
    <3>2. rdq' = <<Head(sram)>> /\ sram' = Tail(sram) /\ ~wreq
      BY <2>1 DEF Cycle, Move, WriteRequest
    <3>3. <<Head(sram)>> # <<>>
      OBVIOUS
    <3>4. QED
      BY <2>1, <3>1, <3>2, <3>3, SeqFacts DEF AtMostOne
  <2>2. CASE wreq
    <3>1. av # <<>> /\ ~rreq /\ sram \in Seq(Data)
      BY <2>2 DEF WriteRequest, IInv, TypeOK
    <3>2. rdq' = <<>> /\ sram' = Append(sram, Head(av))
      BY <2>2, <3>1 DEF Cycle, Move
    <3>3. QED
      BY <2>2, <3>1, <3>2, <1>1, SeqFacts
  <2>3. CASE ~rreq /\ ~wreq
    BY <2>3 DEF Cycle, Move
  <2>4. QED
    BY <2>1, <2>2, <2>3
<1>11. Len(oa) \in Nat /\ Len(oa) <= 2
  <2>1. CASE oup_buf_wready
    <3>1. Len(oup) <= 1 /\ Len(oup) \in Nat
      BY <2>1, <1>2 DEF oup_buf_wready, oup_buf_full, OupBufDepth
    <3>2. Len(oa) = Len(oup) + Len(OupWrite(w))
      BY <2>1, <1>1
    <3>3. Len(OupWrite(w)) \in Nat /\ Len(OupWrite(w)) <= 1
      BY <1>1
    <3>4. QED
      BY <3>1, <3>2, <3>3
  <2>2. CASE ~oup_buf_wready
    BY <2>2, <1>1, <1>2
  <2>3. QED
    BY <2>1, <2>2
<1>6. TypeOK'
  <2>1. Len(inp') <= 2
    BY <1>1, <1>3
  <2>2. Len(sram') <= SramFifoDepth
    <3>1. wreq => Len(sram) < SramFifoDepth
      BY <1>2 DEF WriteRequest, sram_full
    <3>2. QED
      BY <3>1, <1>2, <1>5
  <2>3. Len(oup') <= 2
    <3>2. Len(oup') = Len(oa) - 1 \/ Len(oup') = Len(oa)
      BY <1>4
    <3>3. QED
      BY <1>11, <3>2
  <2>4. rdq' \in AtMostOne /\ sram' \in Seq(Data)
    BY <1>5 DEF AtMostOne, IInv, TypeOK
  <2>5. wr' \in AtMostOne /\ rd' \in AtMostOne /\ under_rst' \in BOOLEAN
    BY <1>1, CycleValues DEF Cycle, Move, Handshake
  <2>6. QED
    BY <1>3, <1>4, <2>1, <2>2, <2>3, <2>4, <2>5 DEF TypeOK, InpBufDepth, OupBufDepth, SramFifoDepth
<1>7. RoomForRead'
  <2>1. SUFFICES ASSUME rdq' # <<>>
                 PROVE  Len(oup') < 2 /\ Len(sram') < SramFifoDepth
    BY DEF RoomForRead, OupBufDepth, SramFifoDepth
  <2>2. rreq
    BY <2>1, <1>5
  <2>3. Len(sram') < SramFifoDepth
    BY <2>2, <1>2, <1>5
  <2>4. Len(oup') < 2
    <3>1. ~sram_empty
      BY <2>2 DEF ReadRequest
    <3>2. OupWrite(w) = rdq
      BY <3>1 DEF OupWrite, Direct
    <3>3. CASE dl # <<>>
      BY <3>3, <1>4, <1>11
    <3>4. CASE dl = <<>>
      <4>1. Len(oup) # 2 /\ (Len(oup) >= 1 => Len(rdq) = 0)
        BY <2>2, <3>4, <1>2 DEF ReadRequest, oup_buf_almost_full, oup_buf_full, OupBufDepth
      <4>2. Len(oup) \in Nat /\ Len(rdq) \in Nat /\ Len(oup) <= 2 /\ Len(rdq) <= 1
        BY <1>2
      <4>3. Len(oa) = Len(oup) + Len(rdq) \/ Len(oa) = Len(oup)
        BY <3>2, <1>1
      <4>4. Len(oup') = Len(oa)
        BY <3>4, <1>4
      <4>5. CASE Len(oup) = 0
        BY <4>2, <4>3, <4>4, <4>5
      <4>6. CASE Len(oup) = 1
        <5>1. Len(rdq) = 0
          BY <4>1, <4>6
        <5>2. QED
          BY <5>1, <4>3, <4>4, <4>6
      <4>7. Len(oup) = 0 \/ Len(oup) = 1
        BY <4>1, <4>2, SmallNats, Zenon
      <4>8. QED
        BY <4>5, <4>6, <4>7, Zenon
    <3>5. QED
      BY <3>3, <3>4
  <2>5. QED
    BY <2>3, <2>4
<1>8. EmptyInReset'
  BY DEF Cycle, Move, Handshake, EmptyInReset
<1>9. FullLeavesInputSlot'
  <2>1. SUFFICES ASSUME Len(sram') = SramFifoDepth, Len(oup') = 2
                 PROVE  Len(inp') < 2
    BY DEF FullLeavesInputSlot, sram_full, oup_buf_full, InpBufDepth, OupBufDepth, SramFifoDepth
  <2>2. ~rreq
    BY <2>1, <1>2, <1>5
  <2>3. CASE wreq
    BY <2>3, <1>1, <1>3 DEF InpRead, WriteRequest
  <2>4. CASE ~wreq
    <3>1. Len(sram) = SramFifoDepth /\ ~sram_empty
      BY <2>1, <2>2, <2>4, <1>2, <1>5 DEF sram_empty
    <3>2. Len(rdq) = 0 /\ Len(OupWrite(w)) = 0
      BY <3>1, <1>2 DEF IInv, RoomForRead, OupWrite, Direct
    <3>3. Len(oup) = 2
      <4>1. Len(oup) \in Nat /\ Len(oup) <= 2
        BY <1>2
      <4>2. Len(oa) = Len(oup)
        BY <3>2, <4>1, <1>1
      <4>3. Len(oup') = Len(oa) \/ Len(oup') = Len(oa) - 1
        BY <1>4
      <4>4. QED
        BY <2>1, <4>1, <4>2, <4>3
    <3>4. Len(inp) < 2 /\ ~fifo_wready
      BY <3>1, <3>3 DEF IInv, FullLeavesInputSlot, fifo_wready, sram_full, oup_buf_full,
                        OupBufDepth, InpBufDepth
    <3>5. Len(av) = 0 \/ Len(av) = 1
      <4>1. Len(av) \in Nat /\ Len(av) <= 2
        BY <1>1, Zenon
      <4>2. Len(inp) # 2
        BY <3>4
      <4>3. Len(av) # 2
        BY <3>4, <4>2, <1>1, Zenon
      <4>4. QED
        BY <4>1, <4>3, SmallNats, Zenon
    <3>6. Len(inp') = Len(av) \/ Len(inp') = Len(av) - 1
      BY <1>3
    <3>7. QED
      BY <3>5, <3>6
  <2>5. QED
    BY <2>3, <2>4
<1>10. QED
  BY <1>6, <1>7, <1>8, <1>9 DEF IInv

\* Clear and reset preserve the invariant.
LEMMA EmptyIInv ==
  ASSUME IInv, inp' = <<>>, sram' = <<>>, rdq' = <<>>, oup' = <<>>,
         under_rst' \in BOOLEAN, wr' \in AtMostOne, rd' \in AtMostOne
  PROVE  IInv'
BY DepthAssumption, RegionAssumption, EmptySeq
   DEF IInv, TypeOK, RoomForRead, EmptyInReset, FullLeavesInputSlot, AtMostOne,
       InpBufDepth, OupBufDepth, SramFifoDepth, sram_full, oup_buf_full

\* Every step preserves the invariant.
LEMMA NextIInv == IInv /\ [Next]_vars => IInv'
<1> SUFFICES ASSUME IInv, [Next]_vars
             PROVE  IInv'
  OBVIOUS
<1>1. CASE \E gnt \in Grants : SomeCycle(gnt)
  BY <1>1, CycleIInv, GrantsAssumption DEF SomeCycle
<1>2. CASE \E w \in Offers, rready \in BOOLEAN : Clear(w, rready)
  <2>1. PICK w \in Offers, rready \in BOOLEAN : Clear(w, rready)
    BY <1>2
  <2>2. Accepted(w) \in AtMostOne /\ Delivered(w, rready) \in AtMostOne
    BY CycleValues
  <2>3. QED
    BY <2>1, <2>2, EmptyIInv DEF Clear, Forget, Handshake
<1>3. CASE Reset
  BY <1>3, EmptyIInv DEF Reset, Forget, AtMostOne
<1>4. CASE UNCHANGED vars
  BY <1>4 DEF vars, IInv, TypeOK, RoomForRead, EmptyInReset, FullLeavesInputSlot,
              sram_full, oup_buf_full
<1>5. QED
  BY <1>1, <1>2, <1>3, <1>4 DEF Next

\* The invariant holds in every reachable state.
THEOREM Invariance == Spec => []IInv
<1>1. QED
  BY InitIInv, NextIInv, PTL DEF Spec

\* Buffers, SRAM region and handshakes keep their types and sizes.
THEOREM TypeCorrect == Spec => []TypeOK
<1>1. IInv => TypeOK
  BY DEF IInv
<1>2. QED
  BY <1>1, Invariance, PTL

\* OupBufWreadyAfterSramRead_A of the adapter: an SRAM read never returns to a
\* full output buffer, for every depth and every arbitration.
THEOREM ReadAlwaysLands == Spec => []OupBufWreadyAfterSramRead
<1>1. IInv => OupBufWreadyAfterSramRead
  <2> SUFFICES ASSUME IInv, rdq # <<>>
               PROVE  oup_buf_wready
    BY DEF OupBufWreadyAfterSramRead
  <2>1. ~under_rst
    BY DEF IInv, EmptyInReset
  <2>2. ~oup_buf_full
    <3>1. Len(oup) \in Nat /\ Len(oup) < 2
      BY SeqFacts DEF IInv, TypeOK, RoomForRead, OupBufDepth
    <3>2. QED
      BY <3>1 DEF oup_buf_full, OupBufDepth
  <2>3. QED
    BY <2>1, <2>2 DEF oup_buf_wready
<1>2. QED
  BY <1>1, Invariance, PTL

\* A full SRAM and output buffer leave a slot in the input buffer.
THEOREM InputSlotLeft == Spec => []FullLeavesInputSlot
<1>1. IInv => FullLeavesInputSlot
  BY DEF IInv
<1>2. QED
  BY <1>1, Invariance, PTL

\* What three storages hold of which the first is not full while the others are.
LEMMA CapacitySum ==
  ASSUME NEW i \in Nat, NEW s \in Nat, NEW o \in Nat, NEW D \in Nat,
         i <= 2, o <= 2, s <= D - 2, (s = D - 2 /\ o = 2) => i < 2
  PROVE  i + s + o <= D + 1
<1>1. CASE s = D - 2 /\ o = 2
  BY <1>1
<1>2. CASE s < D - 2 \/ o < 2
  BY <1>2
<1>3. QED
  BY <1>1, <1>2

\* The invariant bounds the number of entries.
LEMMA OneExtra == IInv => DepthBound
<1> SUFFICES ASSUME IInv
             PROVE  DepthBound
  OBVIOUS
<1>1. /\ Len(inp) \in Nat /\ Len(inp) <= 2
      /\ Len(oup) \in Nat /\ Len(oup) <= 2
      /\ Len(sram) \in Nat /\ Len(sram) <= Depth - 2
      /\ Len(rdq) \in Nat /\ Len(rdq) <= 1
  BY SeqFacts, AtMostOneFacts DEF IInv, TypeOK, InpBufDepth, OupBufDepth, SramFifoDepth
<1>2. Len(rdq) = 1 => Len(oup) < 2 /\ Len(sram) < Depth - 2
  BY EmptySeq DEF IInv, RoomForRead, OupBufDepth, SramFifoDepth
<1>3. Len(sram) = Depth - 2 /\ Len(oup) = 2 => Len(inp) < 2
  BY DEF IInv, FullLeavesInputSlot, sram_full, oup_buf_full, SramFifoDepth, OupBufDepth, InpBufDepth
<1>4. CASE Len(rdq) = 1
  <2>1. Len(oup) <= 1 /\ Len(sram) <= Depth - 3
    BY <1>1, <1>2, <1>4, DepthAssumption, RegionAssumption
  <2>2. Len(inp) + Len(sram) + Len(oup) + Len(rdq) <= Depth + 1
    BY <1>1, <1>4, <2>1, DepthAssumption, RegionAssumption
  <2>3. QED
    BY <2>2 DEF DepthBound, fifo_depth
<1>5. CASE Len(rdq) = 0
  <2>1. Len(inp) + Len(sram) + Len(oup) <= Depth + 1
    BY <1>1, <1>3, DepthAssumption, RegionAssumption, CapacitySum
  <2>2. QED
    BY <1>1, <1>5, <2>1, DepthAssumption, RegionAssumption DEF DepthBound, fifo_depth
<1>6. QED
  BY <1>1, <1>4, <1>5, SmallNats, Zenon

\* The FIFO never holds more than Depth + 1 entries.
THEOREM NeverMoreThanOneExtra == Spec => []DepthBound
<1>1. QED
  BY OneExtra, Invariance, PTL
------------------------------------------------------------------------------
(* The three storages and the entry in flight are one FIFO.                 *)

\* A sequence is its head and its tail.
LEMMA HeadThenTail ==
  ASSUME NEW s \in Seq(Data), s # <<>>
  PROVE  <<Head(s)>> \o Tail(s) = s
<1>1. Head(s) \in Data /\ Tail(s) \in Seq(Data) /\ Len(Tail(s)) = Len(s) - 1
      /\ \A i \in 1 .. Len(Tail(s)) : Tail(s)[i] = s[i + 1]
  BY HeadTailProperties
<1>2. Len(s) \in Nat /\ Len(s) # 0
  BY SeqFacts
<1>3. <<Head(s)>> \in Seq(Data) /\ Len(<<Head(s)>>) = 1 /\ <<Head(s)>>[1] = s[1]
  BY <1>1
<1> DEFINE t == <<Head(s)>> \o Tail(s)
<1>4. /\ t \in Seq(Data) /\ Len(t) = Len(s)
      /\ \A i \in 1 .. Len(s) : t[i] = IF i <= 1 THEN <<Head(s)>>[i] ELSE Tail(s)[i - 1]
  BY <1>1, <1>2, <1>3, ConcatProperties
<1>5. \A i \in 1 .. Len(s) : t[i] = s[i]
  BY <1>1, <1>2, <1>3, <1>4
<1> QED
  BY <1>4, <1>5, SeqEqual

\* The head of a concatenation is that of its first part, when that has one.
LEMMA HeadOfConcat ==
  ASSUME NEW s \in Seq(Data), NEW t \in Seq(Data), s # <<>>
  PROVE  s \o t # <<>> /\ Head(s \o t) = Head(s)
<1>1. Len(s) \in Nat /\ Len(s) >= 1 /\ Len(t) \in Nat
  BY SeqFacts
<1>2. /\ s \o t \in Seq(Data) /\ Len(s \o t) = Len(s) + Len(t)
      /\ (s \o t)[1] = s[1]
  BY <1>1, ConcatProperties
<1> QED
  BY <1>1, <1>2, SeqFacts

\* Concatenation is associative, for four parts.
LEMMA Regroup4 ==
  ASSUME NEW a \in Seq(Data), NEW b \in Seq(Data), NEW c \in Seq(Data), NEW d \in Seq(Data)
  PROVE  /\ ((a \o b) \o c) \o d = (a \o b) \o (c \o d)
         /\ ((a \o b) \o c) \o d = a \o ((b \o c) \o d)
         /\ ((a \o b) \o c) \o d \in Seq(Data)
         /\ Len(((a \o b) \o c) \o d) = Len(a) + Len(b) + Len(c) + Len(d)
<1>1. /\ a \o b \in Seq(Data) /\ Len(a \o b) = Len(a) + Len(b)
      /\ b \o c \in Seq(Data)
  BY ConcatProperties
<1>2. (a \o b) \o c \in Seq(Data) /\ Len((a \o b) \o c) = Len(a) + Len(b) + Len(c)
  BY <1>1, ConcatProperties
<1>3. /\ ((a \o b) \o c) \o d \in Seq(Data)
      /\ Len(((a \o b) \o c) \o d) = Len(a) + Len(b) + Len(c) + Len(d)
  BY <1>2, ConcatProperties
<1>4. ((a \o b) \o c) \o d = (a \o b) \o (c \o d)
  BY <1>1, ConcatAssociative, SMTT(60)
<1>5. (a \o b) \o c = a \o (b \o c)
  BY ConcatAssociative, SMTT(60)
<1>6. (a \o (b \o c)) \o d = a \o ((b \o c) \o d)
  BY <1>1, ConcatAssociative, SMTT(60)
<1> QED
  BY <1>3, <1>4, <1>5, <1>6

\* The same, for five parts.
LEMMA Regroup5 ==
  ASSUME NEW a \in Seq(Data), NEW b \in Seq(Data), NEW c \in Seq(Data),
         NEW d \in Seq(Data), NEW e \in Seq(Data)
  PROVE  (((a \o b) \o c) \o d) \o e = (a \o b) \o (c \o (d \o e))
<1>1. /\ a \o b \in Seq(Data) /\ (a \o b) \o c \in Seq(Data)
      /\ d \o e \in Seq(Data)
  BY ConcatProperties
<1>2. (((a \o b) \o c) \o d) \o e = ((a \o b) \o c) \o (d \o e)
  BY <1>1, ConcatAssociative, SMTT(60)
<1>3. ((a \o b) \o c) \o (d \o e) = (a \o b) \o (c \o (d \o e))
  BY <1>1, ConcatAssociative, SMTT(60)
<1> QED
  BY <1>2, <1>3

\* What a cycle leaves behind the output buffer.
Rest(w) == IF Direct /\ Avail(w) # <<>> THEN Tail(Avail(w)) ELSE sram \o Avail(w)

\* The output buffer takes what it is given: a read in flight finds room.
LEMMA OupTakes ==
  ASSUME IInv, NEW w \in Offers
  PROVE  OupAvail(w) = oup \o OupWrite(w)
<1>1. CASE oup_buf_wready
  BY <1>1 DEF OupAvail
<1>2. CASE ~oup_buf_wready
  <2>1. rdq = <<>>
    <3>1. CASE under_rst
      BY <3>1 DEF IInv, EmptyInReset
    <3>2. CASE oup_buf_full
      <4>1. ~(Len(oup) < OupBufDepth)
        BY <3>2 DEF oup_buf_full, OupBufDepth
      <4> QED
        BY <4>1 DEF IInv, RoomForRead
    <3> QED
      BY <1>2, <3>1, <3>2 DEF oup_buf_wready
  <2>2. OupWrite(w) = <<>>
    BY <1>2, <2>1 DEF OupWrite, Direct
  <2>3. oup \o <<>> = oup
    BY ConcatEmptySeq DEF IInv, TypeOK
  <2> QED
    BY <1>2, <2>2, <2>3 DEF OupAvail
<1> QED
  BY <1>1, <1>2

\* What is inside and what comes in, as the output buffer and the rest.
LEMMA QueueSplit ==
  ASSUME IInv, NEW w \in Offers
  PROVE  /\ Rest(w) \in Seq(Data)
         /\ (((oup \o rdq) \o sram) \o inp) \o Accepted(w) = OupAvail(w) \o Rest(w)
<1>1. /\ oup \in Seq(Data) /\ rdq \in Seq(Data) /\ sram \in Seq(Data) /\ inp \in Seq(Data)
      /\ Accepted(w) \in Seq(Data) /\ Avail(w) \in Seq(Data)
  BY CycleValues, AtMostOneFacts DEF IInv, TypeOK
<1>2. (((oup \o rdq) \o sram) \o inp) \o Accepted(w) = (oup \o rdq) \o (sram \o Avail(w))
  <2>1. (oup \o rdq) \o sram \in Seq(Data) /\ oup \o rdq \in Seq(Data)
    BY <1>1, ConcatProperties
  <2>2. inp \in Seq(Data) /\ Accepted(w) \in Seq(Data)
    BY <1>1
  <2>3. sram \in Seq(Data) /\ inp \o Accepted(w) \in Seq(Data)
    BY <1>1 DEF Avail
  <2>4. (((oup \o rdq) \o sram) \o inp) \o Accepted(w)
          = ((oup \o rdq) \o sram) \o (inp \o Accepted(w))
    BY <2>1, <2>2, ConcatAssociative, SMTT(60)
  <2>5. ((oup \o rdq) \o sram) \o (inp \o Accepted(w))
          = (oup \o rdq) \o (sram \o (inp \o Accepted(w)))
    BY <2>1, <2>3, ConcatAssociative, SMTT(60)
  <2> QED
    BY <2>4, <2>5 DEF Avail
<1>3. CASE Direct /\ Avail(w) # <<>>
  <2>1. rdq = <<>> /\ sram = <<>> /\ OupWrite(w) = <<Head(Avail(w))>>
        /\ Rest(w) = Tail(Avail(w))
    BY <1>3 DEF Direct, sram_empty, OupWrite, Rest
  <2>2. /\ Head(Avail(w)) \in Data /\ Tail(Avail(w)) \in Seq(Data)
        /\ <<Head(Avail(w))>> \o Tail(Avail(w)) = Avail(w)
    BY <1>1, <1>3, SeqFacts, HeadThenTail
  <2>3. <<Head(Avail(w))>> \in Seq(Data)
    BY <2>2
  <2>4. oup \o <<>> = oup /\ <<>> \o Avail(w) = Avail(w)
    BY <1>1, ConcatEmptySeq
  <2>5. (oup \o <<Head(Avail(w))>>) \o Tail(Avail(w)) = oup \o Avail(w)
    BY <1>1, <2>2, <2>3, ConcatAssociative, SMTT(60)
  <2> QED
    BY <1>2, <2>1, <2>2, <2>4, <2>5, OupTakes
<1>4. CASE ~(Direct /\ Avail(w) # <<>>)
  <2>1. OupWrite(w) = rdq /\ Rest(w) = sram \o Avail(w)
    BY <1>4 DEF OupWrite, Rest
  <2>2. sram \o Avail(w) \in Seq(Data)
    BY <1>1, ConcatProperties
  <2> QED
    BY <1>2, <2>1, <2>2, OupTakes
<1> QED
  BY <1>3, <1>4

\* An entry delivered leaves the front of the output buffer.
LEMMA OupSplit ==
  ASSUME IInv, NEW w \in Offers, NEW rready \in BOOLEAN, NEW gnt \in BOOLEAN,
         Move(w, rready, gnt)
  PROVE  OupAvail(w) = Delivered(w, rready) \o oup'
<1>1. OupAvail(w) \in Seq(Data) /\ (Delivered(w, rready) # <<>> => OupAvail(w) # <<>>)
  BY CycleValues
<1>2. CASE Delivered(w, rready) = <<>>
  BY <1>1, <1>2, ConcatEmptySeq DEF Move
<1>3. CASE Delivered(w, rready) # <<>>
  <2>1. Delivered(w, rready) = <<Head(OupAvail(w))>> /\ oup' = Tail(OupAvail(w))
    BY <1>3 DEF Delivered, Move
  <2> QED
    BY <1>1, <1>3, <2>1, HeadThenTail
<1> QED
  BY <1>2, <1>3

\* What moves behind the output buffer, granted or not, keeps its order.
LEMMA RestSplit ==
  ASSUME IInv, NEW w \in Offers, NEW rready \in BOOLEAN, NEW gnt \in BOOLEAN,
         Move(w, rready, gnt)
  PROVE  (rdq' \o sram') \o inp' = Rest(w)
<1> DEFINE av == Avail(w)
<1>1. av \in Seq(Data) /\ sram \in Seq(Data)
  BY CycleValues DEF IInv, TypeOK
<1>2. <<>> \in Seq(Data) /\ <<>> \o sram = sram
  BY <1>1, EmptySeq, ConcatEmptySeq
<1>3. CASE ReadRequest(w, rready) /\ gnt
  <2>1. sram # <<>> /\ ~Direct /\ ~InpRead(w, rready, gnt)
    BY <1>3 DEF ReadRequest, WriteRequest, InpRead, sram_empty, Direct
  <2>2. rdq' = <<Head(sram)>> /\ sram' = Tail(sram) /\ inp' = av
    BY <1>3, <2>1 DEF Move
  <2> QED
    BY <1>1, <2>1, <2>2, HeadThenTail DEF Rest
<1>4. CASE WriteRequest(w, rready) /\ gnt
  <2>1. ~ReadRequest(w, rready) /\ ~Direct /\ av # <<>> /\ InpRead(w, rready, gnt)
    BY <1>4 DEF WriteRequest, InpRead
  <2>2. rdq' = <<>> /\ sram' = Append(sram, Head(av)) /\ inp' = Tail(av)
    BY <1>4, <2>1 DEF Move
  <2>3. /\ Head(av) \in Data /\ Tail(av) \in Seq(Data) /\ <<Head(av)>> \o Tail(av) = av
    BY <1>1, <2>1, SeqFacts, HeadThenTail
  <2>4. /\ Append(sram, Head(av)) = sram \o <<Head(av)>>
        /\ Append(sram, Head(av)) \in Seq(Data) /\ <<Head(av)>> \in Seq(Data)
    BY <1>1, <2>3, AppendIsConcat, AppendProperties
  <2>5. (sram \o <<Head(av)>>) \o Tail(av) = sram \o av
    BY <1>1, <2>3, <2>4, ConcatAssociative, SMTT(60)
  <2>6. <<>> \o Append(sram, Head(av)) = Append(sram, Head(av))
    BY <2>4, ConcatEmptySeq
  <2> QED
    BY <2>1, <2>2, <2>4, <2>5, <2>6 DEF Rest
<1>5. CASE ~(ReadRequest(w, rready) /\ gnt) /\ ~(WriteRequest(w, rready) /\ gnt)
  <2>1. rdq' = <<>> /\ sram' = sram
    BY <1>5 DEF Move
  <2>2. CASE Direct /\ av # <<>>
    <3>1. sram = <<>> /\ inp' = Tail(av) /\ Tail(av) \in Seq(Data)
      BY <1>1, <2>2, SeqFacts DEF Move, InpRead, Direct, sram_empty
    <3>2. <<>> \o Tail(av) = Tail(av)
      BY <3>1, ConcatEmptySeq
    <3> QED
      BY <1>2, <2>1, <2>2, <3>1, <3>2 DEF Rest
  <2>3. CASE ~(Direct /\ av # <<>>)
    <3>1. inp' = av
      BY <1>5, <2>3 DEF Move, InpRead
    <3> QED
      BY <1>2, <2>1, <2>3, <3>1 DEF Rest
  <2> QED
    BY <2>2, <2>3
<1> QED
  BY <1>3, <1>4, <1>5

\* A clock edge is a step of the abstract FIFO: the two splits put together.
LEMMA CycleRefines ==
  ASSUME IInv, IInv', NEW w \in Offers, NEW rready \in BOOLEAN, NEW gnt \in BOOLEAN,
         Cycle(w, rready, gnt)
  PROVE  Fifo!BFCycle
<1>1. wr' = Accepted(w) /\ rd' = Delivered(w, rready) /\ Move(w, rready, gnt)
  BY DEF Cycle, Handshake
<1>2. wr' \in AtMostOne /\ rd' \in AtMostOne /\ rd' \in Seq(Data)
  BY <1>1, CycleValues, AtMostOneFacts
<1>3. oup' \in Seq(Data) /\ rdq' \in Seq(Data) /\ sram' \in Seq(Data) /\ inp' \in Seq(Data)
  BY AtMostOneFacts DEF IInv, TypeOK
<1>4. (((oup \o rdq) \o sram) \o inp) \o wr' = (rd' \o oup') \o ((rdq' \o sram') \o inp')
  BY <1>1, QueueSplit, OupSplit, RestSplit
<1>5. (rd' \o oup') \o ((rdq' \o sram') \o inp') = rd' \o (((oup' \o rdq') \o sram') \o inp')
  <2>1. ((oup' \o rdq') \o sram') \o inp' = oup' \o ((rdq' \o sram') \o inp')
    <3>1. oup' \o rdq' \in Seq(Data) /\ rdq' \o sram' \in Seq(Data)
      BY <1>3, ConcatProperties
    <3>2. (oup' \o rdq') \o sram' = oup' \o (rdq' \o sram')
      BY <1>3, ConcatAssociative, SMTT(60)
    <3>3. (oup' \o (rdq' \o sram')) \o inp' = oup' \o ((rdq' \o sram') \o inp')
      BY <1>3, <3>1, ConcatAssociative, SMTT(60)
    <3> QED
      BY <3>2, <3>3
  <2>2. (rdq' \o sram') \o inp' \in Seq(Data)
    BY <1>1, RestSplit, QueueSplit
  <2>3. (rd' \o oup') \o ((rdq' \o sram') \o inp') = rd' \o (oup' \o ((rdq' \o sram') \o inp'))
    BY <1>2, <1>3, <2>2, ConcatAssociative, SMTT(60)
  <2> QED
    BY <2>1, <2>3
<1>6. Len(((oup' \o rdq') \o sram') \o inp') <= Depth + 1
  <2>1. Len(((oup' \o rdq') \o sram') \o inp') = Len(oup') + Len(rdq') + Len(sram') + Len(inp')
    BY <1>3, Regroup4
  <2>2. Len(inp') + Len(sram') + Len(oup') + Len(rdq') <= Depth + 1
    <3>1. DepthBound'
      BY OneExtra, PTL
    <3> QED
      BY <3>1 DEF DepthBound, fifo_depth
  <2>3. Len(inp') \in Nat /\ Len(sram') \in Nat /\ Len(oup') \in Nat /\ Len(rdq') \in Nat
    BY <1>3, SeqFacts
  <2> QED
    BY <2>1, <2>2, <2>3
<1> QED
  BY <1>2, <1>4, <1>5, <1>6 DEF Fifo!BFCycle, Fifo!AtMostOne, AtMostOne

\* A cycle with clear: what it delivers is the oldest entry.
LEMMA ClearRefines ==
  ASSUME IInv, NEW w \in Offers, NEW rready \in BOOLEAN, Clear(w, rready)
  PROVE  Fifo!BFClear
<1> DEFINE q == (((oup \o rdq) \o sram) \o inp) \o Accepted(w)
<1>1. wr' = Accepted(w) /\ rd' = Delivered(w, rready)
  BY DEF Clear, Handshake
<1>2. wr' \in AtMostOne /\ rd' \in AtMostOne
  BY <1>1, CycleValues
<1>3. ((oup' \o rdq') \o sram') \o inp' = <<>>
  <2>1. oup' = <<>> /\ rdq' = <<>> /\ sram' = <<>> /\ inp' = <<>>
    BY DEF Clear, Forget
  <2>2. <<>> \o <<>> = <<>>
    BY EmptySeq, ConcatEmptySeq
  <2> QED
    BY <2>1, <2>2
<1>4. CASE rd' = <<>>
  BY <1>2, <1>3, <1>4 DEF Fifo!BFClear, Fifo!AtMostOne, AtMostOne
<1>5. CASE rd' # <<>>
  <2>1. rd' = <<Head(OupAvail(w))>> /\ OupAvail(w) \in Seq(Data) /\ OupAvail(w) # <<>>
    BY <1>1, <1>5, CycleValues DEF Delivered
  <2>2. q = OupAvail(w) \o Rest(w) /\ Rest(w) \in Seq(Data)
    BY QueueSplit
  <2>3. q # <<>> /\ Head(q) = Head(OupAvail(w))
    BY <2>1, <2>2, HeadOfConcat
  <2> QED
    BY <1>1, <1>2, <1>3, <2>1, <2>3 DEF Fifo!BFClear, Fifo!AtMostOne, AtMostOne
<1> QED
  BY <1>4, <1>5

\* Whatever the arbiter does, the three storages and the entry in flight between two
\* of them are one FIFO of Depth + 1 entries: each step is one of BoundedFifo.
THEOREM AdapterIsFifo == Spec => ImplementsFifo
<1>1. Init => Fifo!BFInit
  <2>1. <<>> \o <<>> = <<>>
    BY EmptySeq, ConcatEmptySeq
  <2> QED
    BY <2>1 DEF Init, Fifo!BFInit
<1>2. IInv /\ IInv' /\ [Next]_vars => [Fifo!BFNext]_(Fifo!bfVars)
  <2> SUFFICES ASSUME IInv, IInv', [Next]_vars
               PROVE  Fifo!BFNext \/ UNCHANGED Fifo!bfVars
    OBVIOUS
  <2>1. CASE \E gnt \in Grants : SomeCycle(gnt)
    BY <2>1, CycleRefines, GrantsAssumption DEF SomeCycle, Fifo!BFNext
  <2>2. CASE \E w \in Offers, rready \in BOOLEAN : Clear(w, rready)
    BY <2>2, ClearRefines DEF Fifo!BFNext
  <2>3. CASE Reset
    <3>1. <<>> \o <<>> = <<>>
      BY EmptySeq, ConcatEmptySeq
    <3> QED
      BY <2>3, <3>1 DEF Reset, Forget, Fifo!BFReset, Fifo!BFNext
  <2>4. CASE UNCHANGED vars
    BY <2>4 DEF vars, Fifo!bfVars
  <2> QED
    BY <2>1, <2>2, <2>3, <2>4 DEF Next
<1> QED
  BY <1>1, <1>2, Invariance, PTL DEF Spec, ImplementsFifo, Fifo!BFSpec
==============================================================================
