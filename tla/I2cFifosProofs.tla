---------------------------- MODULE I2cFifosProofs ----------------------------
(****************************************************************************)
(* Proofs about I2cFifos for every number of FIFOs and all depths: the      *)
(* arbiter serves everybody in turn, and on the RAM they share every FIFO   *)
(* is an adapter of its own.                                                *)
(****************************************************************************)
EXTENDS I2cFifos, SequenceTheorems, WellFoundedInduction, TLAPS

\* A set of FIFOs that is not empty has a smallest member, which Min chooses.
LEMMA SmallestFifo ==
  ASSUME NEW S \in SUBSET Nat, S # {}
  PROVE  Min(S) \in S /\ \A g \in S : Min(S) <= g
<1>1. \E R : /\ IsWellFoundedOn(R, Nat)
             /\ \A x, y \in Nat : y < x => <<y, x>> \in R
  <2>1. ASSUME NEW x \in Nat, NEW y \in Nat, y < x PROVE <<y, x>> \in OpToRel(<, Nat)
    <3>1. <<y, x>> \in Nat \X Nat /\ <<y, x>>[1] < <<y, x>>[2]
      BY <2>1
    <3>2. QED
      BY <3>1, Zenon DEF OpToRel
  <2>2. QED
    BY <2>1, NatLessThanWellFounded, Zenon
<1>2. PICK R : IsWellFoundedOn(R, Nat) /\ \A x, y \in Nat : y < x => <<y, x>> \in R
  BY <1>1
<1>3. PICK x \in S : \A y \in S : ~ (<<y, x>> \in R)
  BY <1>2, WFMin, Zenon
<1>4. ASSUME NEW y \in S PROVE x <= y
  <2>1. x \in Nat /\ y \in Nat
    OBVIOUS
  <2>2. ~ (y < x)
    BY <1>2, <1>3, <2>1, Zenon
  <2>3. QED
    BY <2>1, <2>2
<1>5. QED
  BY <1>4 DEF Min

\* How many turns of the arbiter FIFO f is behind the last winner l.
Distance(f, l) == IF f > l THEN f - l ELSE f - l + RamArbN

\* The inductive invariant, of the mask and the refusals: the mask holds those above the
\* last winner, and a FIFO that was refused k times has come k turns nearer.
Nearer(count, l) == \A f \in Fifos : count[f] = 0 \/ count[f] + Distance(f, l) <= RamArbN
Fair(mask, count) ==
  /\ count \in [Fifos -> 0 .. RamArbN]
  /\ \E l \in Fifos : mask = {g \in Fifos : g > l} /\ Nearer(count, l)
IInv == Fair(prio_mask, lost)

\* Nobody has been refused yet.
LEMMA StartIsFair == Fair({}, Zero)
<1>1. Zero \in [Fifos -> 0 .. RamArbN] /\ \A f \in Fifos : Zero[f] = 0
  BY FifosAssumption DEF Zero
<1>2. Nearer(Zero, RamArbN - 1)
  BY <1>1 DEF Nearer
<1>3. RamArbN - 1 \in Fifos /\ {} = {g \in Fifos : g > RamArbN - 1}
  BY FifosAssumption DEF Fifos
<1>4. QED
  BY <1>1, <1>2, <1>3, Zenon DEF Fair

\* Between one turn and RamArbN turns.
LEMMA DistanceType ==
  ASSUME NEW f \in Fifos, NEW l \in Fifos
  PROVE  Distance(f, l) \in 1 .. RamArbN
BY FifosAssumption DEF Distance, Fifos

\* The winner is the next one after the last winner that asks.
LEMMA Winner ==
  ASSUME NEW l \in Fifos, prio_mask = {g \in Fifos : g > l},
         NEW reqs \in SUBSET Fifos, NEW f \in reqs
  PROVE  /\ idx(reqs) \in reqs
         /\ idx(reqs) = f \/ Distance(idx(reqs), l) < Distance(f, l)
<1>1. Fifos \subseteq Nat /\ RamArbN \in Nat
  BY FifosAssumption DEF Fifos
<1>2. CASE reqs \cap prio_mask # {}
  <2>1. idx(reqs) = Min(reqs \cap prio_mask)
    BY <1>2 DEF idx
  <2>2. /\ idx(reqs) \in reqs \cap prio_mask
        /\ \A g \in reqs \cap prio_mask : idx(reqs) <= g
    BY <1>1, <1>2, <2>1, SmallestFifo
  <2>3. CASE f > l
    <3>1. idx(reqs) <= f /\ idx(reqs) > l
      BY <2>2, <2>3
    <3>2. idx(reqs) \in Nat /\ f \in Nat /\ l \in Nat
      BY <1>1, <2>2
    <3>3. Distance(idx(reqs), l) = idx(reqs) - l /\ Distance(f, l) = f - l
      BY <2>3, <3>1 DEF Distance
    <3>4. QED
      BY <2>2, <3>1, <3>2, <3>3
  <2>4. CASE ~ (f > l)
    <3>1. idx(reqs) > l /\ idx(reqs) \in 0 .. RamArbN - 1 /\ l \in 0 .. RamArbN - 1
          /\ f \in 0 .. RamArbN - 1
      BY <2>2 DEF Fifos
    <3>2. QED
      BY <1>1, <2>2, <2>4, <3>1 DEF Distance
  <2>5. QED
    BY <2>3, <2>4
<1>3. CASE reqs \cap prio_mask = {}
  <2>1. idx(reqs) = Min(reqs)
    BY <1>3 DEF idx
  <2>2. idx(reqs) \in reqs /\ \A g \in reqs : idx(reqs) <= g
    BY <1>1, <2>1, SmallestFifo
  <2>3. ~ (f > l) /\ ~ (idx(reqs) > l) /\ idx(reqs) <= f
    BY <1>3, <2>2
  <2>4. idx(reqs) \in Nat /\ f \in Nat /\ l \in Nat
    BY <1>1, <2>2
  <2>5. /\ Distance(idx(reqs), l) = idx(reqs) - l + RamArbN
        /\ Distance(f, l) = f - l + RamArbN
    BY <2>3 DEF Distance
  <2>6. QED
    BY <1>1, <2>2, <2>3, <2>4, <2>5
<1>4. QED
  BY <1>2, <1>3

\* A turn of the arbiter.
LEMMA ArbitrateIInv ==
  ASSUME IInv, NEW reqs \in SUBSET Fifos, Arbitrate(reqs)
  PROVE  IInv'
<1>1. RamArbN \in Nat /\ RamArbN >= 1 /\ Fifos = 0 .. RamArbN - 1
  BY FifosAssumption DEF Fifos
<1>2. lost' \in [Fifos -> 0 .. RamArbN]
  BY <1>1 DEF IInv, Fair, Arbitrate
<1>3. PICK l \in Fifos : prio_mask = {g \in Fifos : g > l} /\ Nearer(lost, l)
  BY DEF IInv, Fair
<1>4. CASE reqs = {}
  <2>1. prio_mask' = prio_mask /\ \A f \in Fifos : lost'[f] = 0
    BY <1>4 DEF Arbitrate
  <2>2. Nearer(lost', l)
    BY <2>1 DEF Nearer
  <2>3. QED
    BY <1>2, <1>3, <2>1, <2>2 DEF IInv, Fair
<1>5. CASE reqs # {}
  <2> DEFINE w == idx(reqs)
  <2>1. w \in reqs
    BY <1>3, <1>5, Winner
  <2>2. prio_mask' = {g \in Fifos : g > w}
    BY <1>5 DEF Arbitrate
  <2>3. ASSUME NEW f \in Fifos
        PROVE  lost'[f] = 0 \/ lost'[f] + Distance(f, w) <= RamArbN
    <3>1. CASE f \in reqs \ {w} /\ lost[f] < RamArbN
      <4>1. lost'[f] = lost[f] + 1
        BY <1>5, <3>1 DEF Arbitrate, Granted
      <4>2. f # w /\ f \in 0 .. RamArbN - 1 /\ w \in 0 .. RamArbN - 1
            /\ l \in 0 .. RamArbN - 1 /\ lost[f] \in Nat
        <5>1. lost[f] \in 0 .. RamArbN
          BY DEF IInv, Fair
        <5>2. f \in Fifos /\ w \in Fifos /\ l \in Fifos /\ f # w
          BY <2>1, <3>1
        <5> HIDE DEF w
        <5>3. QED
          BY <1>1, <5>1, <5>2
      <4>3. Distance(w, l) < Distance(f, l)
        BY <1>3, <3>1, Winner
      <4>4. Distance(f, w) <= RamArbN - 1
        BY <1>1, <4>2 DEF Distance
      <4>5. Distance(f, w) + 1 <= Distance(f, l)
        BY <1>1, <4>2, <4>3 DEF Distance
      <4>6. Distance(f, w) \in Int /\ Distance(f, l) \in Int
        BY <1>1, <4>2 DEF Distance
      <4>7. lost[f] = 0 \/ lost[f] + Distance(f, l) <= RamArbN
        BY <1>3 DEF Nearer
      <4>8. QED
        BY <1>1, <4>1, <4>2, <4>4, <4>5, <4>6, <4>7
    <3>2. CASE ~ (f \in reqs \ {w} /\ lost[f] < RamArbN)
      BY <1>5, <3>2 DEF Arbitrate, Granted
    <3>3. QED
      BY <3>1, <3>2
  <2>4. Nearer(lost', w)
    BY <2>3 DEF Nearer
  <2>5. QED
    BY <1>2, <2>1, <2>2, <2>4 DEF IInv, Fair
<1>6. QED
  BY <1>4, <1>5

\* Every step keeps the invariant.
LEMMA NextIInv == IInv /\ [Next]_vars => IInv'
<1> SUFFICES ASSUME IInv, [Next]_vars PROVE IInv'
  OBVIOUS
<1>1. CASE \E w \in Offers, rready \in [Fifos -> BOOLEAN] : Cycle(w, rready)
  <2>1. PICK w \in Offers, rready \in [Fifos -> BOOLEAN] : Cycle(w, rready)
    BY <1>1
  <2>2. \E reqs \in SUBSET Fifos : Arbitrate(reqs)
    BY <2>1 DEF Cycle
  <2>3. QED
    BY <2>2, ArbitrateIInv
<1>2. CASE Reset
  <2>1. prio_mask' = {} /\ lost' = Zero
    BY <1>2 DEF Reset
  <2>2. QED
    BY <2>1, StartIsFair DEF IInv
<1>3. CASE UNCHANGED vars
  BY <1>3 DEF vars, IInv
<1>4. QED
  BY <1>1, <1>2, <1>3 DEF Next

\* The arbiter is fair for every number of FIFOs and whatever they ask for: one that
\* keeps asking is refused at most RamArbN - 1 times.
THEOREM NoStarvation == Spec => []ServedInTurn
<1>1. Init => IInv
  BY StartIsFair DEF Init, IInv
<1>2. IInv => ServedInTurn
  <2> SUFFICES ASSUME IInv, NEW f \in Fifos PROVE lost[f] < RamArbN
    BY DEF ServedInTurn
  <2>1. PICK l \in Fifos : lost[f] = 0 \/ lost[f] + Distance(f, l) <= RamArbN
    BY DEF IInv, Fair, Nearer
  <2>2. Distance(f, l) \in 1 .. RamArbN /\ lost[f] \in 0 .. RamArbN
    BY DistanceType DEF IInv, Fair
  <2>3. QED
    BY FifosAssumption, <2>1, <2>2
<1>3. QED
  BY <1>1, <1>2, NextIInv, PTL DEF Spec

------------------------------------------------------------------------------
(* Wrap pointers on a region of the RAM.                                    *)

\* What is between two wrap pointers on a region of n words, and where the i-th oldest
\* entry is.
Count(n, w, wm, r, rm) ==
  IF w = r /\ wm # rm THEN n ELSE IF wm = rm THEN w - r ELSE n - r + w
Slot(n, p, i) == IF p + i - 1 < n THEN p + i - 1 ELSE p + i - 1 - n
After(n, p) == IF p = n - 1 THEN 0 ELSE p + 1

\* The write pointer is ahead of the read pointer by at most one turn.
Ordered(n, w, wm, r, rm) ==
  /\ w \in 0 .. n - 1 /\ r \in 0 .. n - 1 /\ wm \in BOOLEAN /\ rm \in BOOLEAN
  /\ wm = rm => r <= w
  /\ wm # rm => w <= r

\* A region has room for two entries at least.
LEMMA RegionSize ==
  ASSUME NEW f \in Fifos
  PROVE  SramFifoDepth(f) \in Nat /\ SramFifoDepth(f) >= 2
BY DepthAssumption DEF SramFifoDepth, EntriesOf

\* The pointers show a number of entries that fits, all of them in the region.
LEMMA CountRange ==
  ASSUME NEW n \in Nat, NEW w, NEW wm, NEW r, NEW rm, n >= 2, Ordered(n, w, wm, r, rm)
  PROVE  /\ Count(n, w, wm, r, rm) \in Nat /\ Count(n, w, wm, r, rm) <= n
         /\ \A i \in 1 .. n : Slot(n, r, i) \in 0 .. n - 1
BY DEF Ordered, Count, Slot

\* A write goes to the slot behind the youngest entry, which is no entry's.
LEMMA CountPush ==
  ASSUME NEW n \in Nat, NEW w, NEW wm, NEW r, NEW rm, n >= 2, Ordered(n, w, wm, r, rm),
         Count(n, w, wm, r, rm) # n
  PROVE  LET c == Count(n, w, wm, r, rm)
             v == After(n, w)
             vm == (wm # (w = n - 1))
         IN /\ Ordered(n, v, vm, r, rm)
            /\ Count(n, v, vm, r, rm) = c + 1
            /\ Slot(n, r, c + 1) = w
            /\ \A i \in 1 .. c : Slot(n, r, i) # w
BY DEF Ordered, Count, Slot, After

\* A read takes the oldest entry, from the slot the read pointer shows.
LEMMA CountPop ==
  ASSUME NEW n \in Nat, NEW w, NEW wm, NEW r, NEW rm, n >= 2, Ordered(n, w, wm, r, rm),
         Count(n, w, wm, r, rm) # 0
  PROVE  LET c == Count(n, w, wm, r, rm)
             v == After(n, r)
             vm == (rm # (r = n - 1))
         IN /\ Ordered(n, w, wm, v, vm)
            /\ Count(n, w, wm, v, vm) = c - 1
            /\ Slot(n, r, 1) = r
            /\ \A i \in 1 .. c - 1 : Slot(n, v, i) = Slot(n, r, i + 1)
BY DEF Ordered, Count, Slot, After

------------------------------------------------------------------------------
(* Functions on an interval as sequences.                                   *)

\* Intervals from 1 are equal when their ends are.
LEMMA IntervalEnds ==
  ASSUME NEW m \in Nat, NEW n \in Nat, 1 .. m = 1 .. n
  PROVE  m = n
<1>1. m >= 1 => m \in 1 .. n
  OBVIOUS
<1>2. n >= 1 => n \in 1 .. m
  OBVIOUS
<1> QED
  BY <1>1, <1>2

\* A function on an interval from 1 is a sequence of its length.
LEMMA FunctionIsSeq ==
  ASSUME NEW c \in Nat, NEW S, NEW f \in [1 .. c -> S]
  PROVE  f \in Seq(S) /\ Len(f) = c
<1>1. f \in Seq(S)
  BY SeqDef, Zenon
<1>2. Len(f) \in Nat /\ DOMAIN f = 1 .. Len(f)
  BY <1>1, LenProperties, Zenon
<1>3. 1 .. Len(f) = 1 .. c
  BY <1>2, Zenon
<1> QED
  BY <1>1, <1>2, <1>3, IntervalEnds

\* One entry more at the end.
LEMMA OneMore ==
  ASSUME NEW c \in Nat, NEW S, NEW e \in [1 .. c -> S], NEW g \in [1 .. c + 1 -> S],
         \A i \in 1 .. c : g[i] = e[i]
  PROVE  g = Append(e, g[c + 1])
<1>1. e \in Seq(S) /\ Len(e) = c /\ g \in Seq(S) /\ Len(g) = c + 1
  BY FunctionIsSeq
<1>2. g[c + 1] \in S
  OBVIOUS
<1>3. /\ Append(e, g[c + 1]) \in Seq(S) /\ Len(Append(e, g[c + 1])) = c + 1
      /\ \A i \in 1 .. c : Append(e, g[c + 1])[i] = e[i]
      /\ Append(e, g[c + 1])[c + 1] = g[c + 1]
  BY <1>1, <1>2, AppendProperties
<1>4. \A i \in 1 .. c + 1 : i \in 1 .. c \/ i = c + 1
  OBVIOUS
<1>5. \A i \in 1 .. Len(g) : g[i] = Append(e, g[c + 1])[i]
  BY <1>1, <1>3, <1>4
<1> QED
  BY <1>1, <1>3, <1>5, SeqEqual

\* The head of a function on an interval from 1.
LEMMA HeadIsFirst ==
  ASSUME NEW c \in Nat, c # 0, NEW S, NEW e \in [1 .. c -> S]
  PROVE  e \in Seq(S) /\ Len(e) = c /\ e # <<>> /\ Head(e) = e[1]
<1>1. e \in Seq(S) /\ Len(e) = c
  BY FunctionIsSeq
<1>2. e # <<>>
  BY <1>1, EmptySeq
<1> QED
  BY <1>1, <1>2, HeadTailProperties

\* All but the head.
LEMMA OneLess ==
  ASSUME NEW c \in Nat, c # 0, NEW S, NEW e \in [1 .. c -> S], NEW g \in [1 .. c - 1 -> S],
         \A i \in 1 .. c - 1 : g[i] = e[i + 1]
  PROVE  g = Tail(e)
<1>1. c - 1 \in Nat
  OBVIOUS
<1>2. e \in Seq(S) /\ Len(e) = c /\ e # <<>> /\ g \in Seq(S) /\ Len(g) = c - 1
  BY <1>1, FunctionIsSeq, HeadIsFirst
<1>3. /\ Tail(e) \in Seq(S) /\ Len(Tail(e)) = Len(e) - 1
      /\ \A i \in 1 .. Len(Tail(e)) : Tail(e)[i] = e[i + 1]
  BY <1>2, HeadTailProperties
<1> QED
  BY <1>2, <1>3, SeqEqual

------------------------------------------------------------------------------
(* The address map.                                                         *)

\* The words of the RAM.
Addresses == 0 .. RamDepth - 1

\* Multiples of one number are at least that far apart.
LEMMA Multiples ==
  ASSUME NEW d \in Nat, NEW f \in Nat, NEW g \in Nat, f < g
  PROVE  f * d \in Nat /\ g * d \in Nat /\ f * d + d <= g * d
<1>1. PICK k \in Nat : g = f + 1 + k
  <2>1. g - f - 1 \in Nat /\ g = f + 1 + (g - f - 1)
    OBVIOUS
  <2> QED
    BY <2>1
<1>2. (f + 1 + k) * d = f * d + d + k * d
  OBVIOUS
<1>3. f * d \in Nat /\ k * d \in Nat
  OBVIOUS
<1> QED
  BY <1>1, <1>2, <1>3

\* The regions lie in the RAM.
LEMMA RegionInRam ==
  ASSUME NEW f \in Fifos, NEW i \in 0 .. SramFifoDepth(f) - 1
  PROVE  BaseAddr(f) + i \in Addresses
<1> USE FifosAssumption, DepthAssumption
<1>1. f \in Nat /\ f <= RamArbN - 1 /\ i \in Nat /\ i <= EntriesOf(f) - 3
  BY DEF Fifos, SramFifoDepth, EntriesOf
<1>2. CASE f = RamArbN - 1
  <2>1. f * FifoDepth \in Nat
    BY <1>1
  <2>2. RamDepth = f * FifoDepth + AcqFifoDepth
    BY <1>2 DEF RamDepth
  <2> DEFINE b == f * FifoDepth
  <2>3. b \in Nat /\ RamDepth = b + AcqFifoDepth /\ i <= AcqFifoDepth - 3
    BY <1>1, <1>2, <2>1, <2>2 DEF EntriesOf
  <2> HIDE DEF b
  <2>4. b + i \in 0 .. RamDepth - 1
    BY <1>1, <2>3
  <2> QED
    BY <2>4 DEF b, Addresses, BaseAddr
<1>3. CASE f # RamArbN - 1
  <2> DEFINE b == f * FifoDepth
             l == (RamArbN - 1) * FifoDepth
  <2>1. b \in Nat /\ l \in Nat /\ b + FifoDepth <= l
    BY <1>1, <1>3, Multiples
  <2>2. RamDepth = l + AcqFifoDepth /\ i <= FifoDepth - 3
    BY <1>1, <1>3 DEF RamDepth, EntriesOf
  <2> HIDE DEF b, l
  <2>3. b + i \in 0 .. RamDepth - 1
    BY <1>1, <2>1, <2>2
  <2> QED
    BY <2>3 DEF b, Addresses, BaseAddr
<1> QED
  BY <1>2, <1>3

\* No word of the RAM belongs to two FIFOs: the first of two regions ends before the
\* other begins.
LEMMA RegionsAreDisjoint ==
  ASSUME NEW f \in Fifos, NEW g \in Fifos, f < g,
         NEW i \in 0 .. SramFifoDepth(f) - 1, NEW j \in 0 .. SramFifoDepth(g) - 1
  PROVE  BaseAddr(f) + i # BaseAddr(g) + j
<1> USE FifosAssumption, DepthAssumption
<1> DEFINE b == f * FifoDepth
           d == g * FifoDepth
<1>1. f \in Nat /\ g \in Nat /\ g <= RamArbN - 1
  BY DEF Fifos
<1>2. b \in Nat /\ d \in Nat /\ b + FifoDepth <= d
  BY <1>1, Multiples
<1>3. i \in Nat /\ i <= FifoDepth - 3 /\ j \in Nat
  BY <1>1 DEF SramFifoDepth, EntriesOf
<1> HIDE DEF b, d
<1>4. b + i # d + j
  BY <1>2, <1>3
<1> QED
  BY <1>4 DEF b, d, BaseAddr

------------------------------------------------------------------------------
(* The invariant: every FIFO's entries are between its pointers.            *)

\* Nothing is asked of the words themselves, only that the RAM has all of them.
Pointing(f) == Ordered(SramFifoDepth(f), wptr[f], wmsb[f], rptr[f], rmsb[f])
RamIsArray == ram = [a \in Addresses |-> ram[a]]
Placed == RamIsArray /\ \A f \in Fifos : Pointing(f)

\* The entries of FIFO f in the RAM, oldest first.
Filled(f) == Count(SramFifoDepth(f), wptr[f], wmsb[f], rptr[f], rmsb[f])
Word(f, i) == ram[BaseAddr(f) + Slot(SramFifoDepth(f), rptr[f], i)]
Entries(f) == [i \in 1 .. Filled(f) |-> Word(f, i)]
AllWords == {ram[a] : a \in Addresses}

\* They are what the instance of PrimFifoSync has between its pointers.
LEMMA SameEntries ==
  ASSUME Placed, NEW f \in Fifos
  PROVE  /\ Ptrs(f)!Contents = Entries(f)
         /\ Filled(f) \in Nat /\ Filled(f) <= SramFifoDepth(f)
         /\ Entries(f) \in [1 .. Filled(f) -> AllWords]
         /\ Len(Entries(f)) = Filled(f) /\ (Entries(f) = <<>> <=> Filled(f) = 0)
<1> DEFINE n == SramFifoDepth(f)
<1>1. n \in Nat /\ n >= 2 /\ Ordered(n, wptr[f], wmsb[f], rptr[f], rmsb[f])
  BY RegionSize DEF Placed, Pointing
<1> HIDE DEF n
<1>2. Count(n, wptr[f], wmsb[f], rptr[f], rmsb[f]) \in Nat
      /\ Count(n, wptr[f], wmsb[f], rptr[f], rmsb[f]) <= n
      /\ \A i \in 1 .. n : Slot(n, rptr[f], i) \in 0 .. n - 1
  BY <1>1, CountRange
<1>3. Filled(f) \in Nat /\ Filled(f) <= n
  BY <1>2 DEF Filled, n
<1>4. ASSUME NEW i \in 1 .. Filled(f)
      PROVE  Slot(n, rptr[f], i) \in 0 .. n - 1
  <2>1. i \in 1 .. n
    BY <1>1, <1>3
  <2> QED
    BY <1>2, <2>1
<1>5. \A i \in 1 .. Filled(f) : Word(f, i) \in AllWords
  BY <1>4, RegionInRam DEF Word, AllWords, n
<1>6. Entries(f) \in [1 .. Filled(f) -> AllWords]
  BY <1>5 DEF Entries
<1>7. Entries(f) \in Seq(AllWords) /\ Len(Entries(f)) = Filled(f)
  BY <1>3, <1>6, FunctionIsSeq
<1>8. Entries(f) = <<>> <=> Filled(f) = 0
  BY <1>7, EmptySeq
<1>9. Ptrs(f)!depth = Filled(f)
  BY DEF Ptrs!depth, Ptrs!full, Filled, Count
<1>10. \A i \in 1 .. Filled(f) : Region(f)[Slot(n, rptr[f], i)] = Word(f, i)
  BY <1>4 DEF Region, Word, n
<1>11. Ptrs(f)!Contents = [i \in 1 .. Filled(f) |-> Region(f)[Slot(n, rptr[f], i)]]
  BY <1>9 DEF Ptrs!Contents, Slot, n
<1>12. Ptrs(f)!Contents = Entries(f)
  BY <1>10, <1>11 DEF Entries
<1> QED
  BY <1>3, <1>6, <1>7, <1>8, <1>12 DEF n

\* The same of all FIFOs.
EntriesFit ==
  \A f \in Fifos : /\ Ptrs(f)!Contents = Entries(f)
                   /\ Filled(f) \in Nat
                   /\ Entries(f) \in [1 .. Filled(f) -> AllWords]
                   /\ Entries(f) = <<>> <=> Filled(f) = 0

\* The invariant says so of this state, and of the next one.
LEMMA EntriesFacts == Placed => EntriesFit
BY SameEntries DEF EntriesFit

\* The access of the FIFO that got the port touches its region only, where its write
\* pointer shows, and only in a write.
LEMMA WordStep ==
  ASSUME RamIsArray, NEW gnt \in SUBSET Fifos, \A g, h \in gnt : g = h,
         NEW reads \in SUBSET gnt, NEW clr, NEW avail, Ram(gnt, reads, clr, avail),
         \A g \in Fifos : wptr[g] \in 0 .. SramFifoDepth(g) - 1
  PROVE  /\ RamIsArray'
         /\ \A f \in Fifos : \A i \in 0 .. SramFifoDepth(f) - 1 :
              ram'[BaseAddr(f) + i] = IF f \in gnt \ reads /\ i = wptr[f] THEN Head(avail[f])
                                      ELSE ram[BaseAddr(f) + i]
<1>1. CASE gnt = reads
  BY <1>1 DEF Ram, RamIsArray
<1>2. CASE gnt # reads
  <2> DEFINE h == CHOOSE f \in gnt : TRUE
  <2>1. h \in gnt /\ gnt = {h} /\ reads = {}
    BY <1>2
  <2>2. ram' = [ram EXCEPT ![BaseAddr(h) + wptr[h]] = Head(avail[h])]
    BY <1>2 DEF Ram
  <2> HIDE DEF h
  <2>3. h \in Fifos
    BY <2>1
  <2>4. BaseAddr(h) + wptr[h] \in Addresses
    BY <2>3, RegionInRam
  <2>5. RamIsArray'
    BY <2>2 DEF RamIsArray
  <2>6. \A a \in Addresses : ram'[a] = IF a = BaseAddr(h) + wptr[h] THEN Head(avail[h]) ELSE ram[a]
    BY <2>2 DEF RamIsArray
  <2>7. ASSUME NEW f \in Fifos, NEW i \in 0 .. SramFifoDepth(f) - 1
        PROVE  ram'[BaseAddr(f) + i] = IF f \in gnt \ reads /\ i = wptr[f] THEN Head(avail[f])
                                       ELSE ram[BaseAddr(f) + i]
    <3>1. BaseAddr(f) + i \in Addresses
      BY RegionInRam
    <3>2. CASE f = h
      <4>1. BaseAddr(f) + i = BaseAddr(h) + wptr[h] <=> i = wptr[f]
        <5>1. BaseAddr(f) \in Int /\ i \in Int /\ wptr[f] \in Int
          <6>1. f \in Nat /\ FifoDepth \in Nat
            BY FifosAssumption, DepthAssumption DEF Fifos
          <6> QED
            BY <6>1 DEF BaseAddr
        <5> QED
          BY <3>2, <5>1
      <4> QED
        BY <2>1, <2>6, <3>1, <3>2, <4>1
    <3>3. CASE f # h
      <4>1. f < h \/ h < f
        BY <2>3, <3>3, FifosAssumption DEF Fifos
      <4>2. wptr[h] \in 0 .. SramFifoDepth(h) - 1
        BY <2>3
      <4>3. BaseAddr(f) + i # BaseAddr(h) + wptr[h]
        BY <2>3, <4>1, <4>2, RegionsAreDisjoint
      <4> QED
        BY <2>1, <2>6, <3>1, <3>3, <4>3
    <3> QED
      BY <3>2, <3>3
  <2> QED
    BY <2>5, <2>7
<1> QED
  BY <1>1, <1>2

\* The step of the pointers: a write counts one more, a read one less, a clear nothing.
LEMMA PointersStep ==
  ASSUME Placed, NEW gnt \in SUBSET Fifos, NEW reads \in SUBSET gnt, NEW clr \in SUBSET Fifos,
         Pointers(gnt, reads, clr), NEW f \in Fifos,
         f \in reads => Filled(f) # 0, f \in gnt \ reads => Filled(f) # SramFifoDepth(f)
  PROVE  LET n == SramFifoDepth(f)
         IN /\ Pointing(f)'
            /\ f \in clr => Filled(f)' = 0
            /\ f \notin clr /\ f \notin gnt =>
                 /\ Filled(f)' = Filled(f) /\ rptr'[f] = rptr[f]
            /\ f \notin clr /\ f \in gnt \ reads =>
                 /\ Filled(f)' = Filled(f) + 1 /\ rptr'[f] = rptr[f]
                 /\ Slot(n, rptr[f], Filled(f) + 1) = wptr[f]
            /\ f \notin clr /\ f \in reads =>
                 /\ Filled(f)' = Filled(f) - 1
                 /\ \A i \in 1 .. Filled(f) - 1 :
                      Slot(n, rptr'[f], i) = Slot(n, rptr[f], i + 1)
<1> DEFINE n == SramFifoDepth(f)
<1>1. n \in Nat /\ n >= 2 /\ Ordered(n, wptr[f], wmsb[f], rptr[f], rmsb[f])
  BY RegionSize DEF Placed, Pointing
<1>2. Filled(f) = Count(n, wptr[f], wmsb[f], rptr[f], rmsb[f])
  BY DEF Filled
<1>3. Filled(f)' = Count(n, wptr'[f], wmsb'[f], rptr'[f], rmsb'[f])
  BY DEF Filled
<1>4. Ordered(n, wptr'[f], wmsb'[f], rptr'[f], rmsb'[f]) => Pointing(f)'
  BY DEF Pointing
<1>5. \A p : Ptrs(f)!Incr(p) = After(n, p)
  BY DEF Ptrs!Incr, After
<1>6. /\ wptr'[f] = IF f \in clr THEN 0 ELSE IF f \in gnt \ reads THEN After(n, wptr[f]) ELSE wptr[f]
      /\ rptr'[f] = IF f \in clr THEN 0 ELSE IF f \in reads THEN After(n, rptr[f]) ELSE rptr[f]
  BY <1>5 DEF Pointers
<1>7. /\ wmsb'[f] = (f \notin clr /\ (wmsb[f] # (f \in gnt \ reads /\ wptr[f] = n - 1)))
      /\ rmsb'[f] = (f \notin clr /\ (rmsb[f] # (f \in reads /\ rptr[f] = n - 1)))
  BY DEF Pointers
<1>8. wmsb[f] \in BOOLEAN /\ rmsb[f] \in BOOLEAN
  BY <1>1 DEF Ordered
<1> HIDE DEF n
<1>9. CASE f \in clr
  <2>1. wptr'[f] = 0 /\ rptr'[f] = 0
    BY <1>6, <1>9, Zenon
  <2>2. wmsb'[f] = FALSE /\ rmsb'[f] = FALSE
    BY <1>7, <1>9
  <2>3. Ordered(n, 0, FALSE, 0, FALSE) /\ Count(n, 0, FALSE, 0, FALSE) = 0
    BY <1>1 DEF Ordered, Count
  <2>4. Ordered(n, wptr'[f], wmsb'[f], rptr'[f], rmsb'[f]) /\ Filled(f)' = 0
    BY <1>3, <2>1, <2>2, <2>3, Zenon
  <2> QED
    BY <1>4, <1>9, <2>4
<1>10. CASE f \notin clr /\ f \notin gnt
  <2>1. wptr'[f] = wptr[f] /\ rptr'[f] = rptr[f]
    BY <1>6, <1>10, Zenon
  <2>2. wmsb'[f] = wmsb[f] /\ rmsb'[f] = rmsb[f]
    BY <1>7, <1>8, <1>10
  <2> QED
    BY <1>1, <1>2, <1>3, <1>4, <1>10, <2>1, <2>2
<1>11. CASE f \notin clr /\ f \in gnt \ reads
  <2>1. wptr'[f] = After(n, wptr[f]) /\ rptr'[f] = rptr[f]
    BY <1>6, <1>11, Zenon
  <2>2. wmsb'[f] = (wmsb[f] # (wptr[f] = n - 1)) /\ rmsb'[f] = rmsb[f]
    BY <1>7, <1>8, <1>11
  <2>3. Count(n, wptr[f], wmsb[f], rptr[f], rmsb[f]) # n
    BY <1>2, <1>11 DEF n
  <2>4. LET c == Count(n, wptr[f], wmsb[f], rptr[f], rmsb[f])
        IN /\ Ordered(n, wptr'[f], wmsb'[f], rptr'[f], rmsb'[f])
           /\ Count(n, wptr'[f], wmsb'[f], rptr'[f], rmsb'[f]) = c + 1
           /\ Slot(n, rptr[f], c + 1) = wptr[f]
    BY <1>1, <2>1, <2>2, <2>3, CountPush
  <2> QED
    BY <1>2, <1>3, <1>4, <1>11, <2>1, <2>4 DEF n
<1>12. CASE f \notin clr /\ f \in reads
  <2>1. rptr'[f] = After(n, rptr[f]) /\ wptr'[f] = wptr[f]
    BY <1>6, <1>12, Zenon
  <2>2. rmsb'[f] = (rmsb[f] # (rptr[f] = n - 1)) /\ wmsb'[f] = wmsb[f]
    BY <1>7, <1>8, <1>12
  <2>3. Count(n, wptr[f], wmsb[f], rptr[f], rmsb[f]) # 0
    BY <1>2, <1>12
  <2>4. LET c == Count(n, wptr[f], wmsb[f], rptr[f], rmsb[f])
        IN /\ Ordered(n, wptr'[f], wmsb'[f], rptr'[f], rmsb'[f])
           /\ Count(n, wptr'[f], wmsb'[f], rptr'[f], rmsb'[f]) = c - 1
           /\ \A i \in 1 .. c - 1 : Slot(n, rptr'[f], i) = Slot(n, rptr[f], i + 1)
    BY <1>1, <2>1, <2>2, <2>3, CountPop
  <2> QED
    BY <1>2, <1>3, <1>4, <1>12, <2>1, <2>4 DEF n
<1> QED
  BY <1>9, <1>10, <1>11, <1>12

\* What then is between the pointers of a FIFO, in the order it was.
LEMMA EntriesStep ==
  ASSUME Placed, Placed', NEW gnt \in SUBSET Fifos, \A g, h \in gnt : g = h,
         NEW reads \in SUBSET gnt, NEW clr \in SUBSET Fifos, NEW avail,
         Pointers(gnt, reads, clr), Ram(gnt, reads, clr, avail), NEW f \in Fifos,
         f \in reads => Filled(f) # 0, f \in gnt \ reads => Filled(f) # SramFifoDepth(f)
  PROVE  /\ f \in clr => Entries(f)' = <<>>
         /\ f \notin clr /\ f \notin gnt => Entries(f)' = Entries(f)
         /\ f \notin clr /\ f \in gnt \ reads =>
              Entries(f)' = Append(Entries(f), Head(avail[f]))
         /\ f \notin clr /\ f \in reads => Entries(f)' = Tail(Entries(f))
         /\ f \in reads => ram[BaseAddr(f) + rptr[f]] = Head(Entries(f))
<1> DEFINE n == SramFifoDepth(f)
           c == Filled(f)
           S == AllWords \cup AllWords'
<1>1. /\ c \in Nat /\ c <= n /\ Entries(f) \in [1 .. c -> S]
      /\ \A i \in 1 .. c : Slot(n, rptr[f], i) \in 0 .. n - 1
  <2>1. c \in Nat /\ c <= n /\ Entries(f) \in [1 .. c -> AllWords]
    BY SameEntries
  <2>2. \A i \in 1 .. n : Slot(n, rptr[f], i) \in 0 .. n - 1
    BY CountRange, RegionSize DEF Placed, Pointing
  <2>3. n \in Nat
    BY RegionSize
  <2> HIDE DEF c, n
  <2>4. \A i \in 1 .. c : i \in 1 .. n
    BY <2>1, <2>3
  <2> QED
    BY <2>1, <2>2, <2>4
<1>2. /\ Filled(f)' \in Nat /\ Entries(f)' \in [1 .. Filled(f)' -> S]
      /\ Entries(f)' = <<>> <=> Filled(f)' = 0
  <2>1. EntriesFit'
    BY EntriesFacts, PTL
  <2>2. /\ Filled(f)' \in Nat /\ Entries(f)' \in [1 .. Filled(f)' -> AllWords']
        /\ Entries(f)' = <<>> <=> Filled(f)' = 0
    BY <2>1 DEF EntriesFit, Filled, Entries, Word, AllWords
  <2>3. AllWords' \subseteq S
    OBVIOUS
  <2> HIDE DEF S
  <2> QED
    BY <2>2, <2>3
<1>3. /\ Entries(f) = [i \in 1 .. c |-> ram[BaseAddr(f) + Slot(n, rptr[f], i)]]
      /\ Entries(f)' = [i \in 1 .. Filled(f)' |-> ram'[BaseAddr(f) + Slot(n, rptr'[f], i)]]
  BY DEF Entries, Word
<1>4. \A i \in 0 .. n - 1 :
        ram'[BaseAddr(f) + i] = IF f \in gnt \ reads /\ i = wptr[f] THEN Head(avail[f])
                                ELSE ram[BaseAddr(f) + i]
  <2>1. \A g \in Fifos : wptr[g] \in 0 .. SramFifoDepth(g) - 1
    BY DEF Placed, Pointing, Ordered
  <2> QED
    BY <2>1, WordStep DEF Placed
<1>5. /\ f \in clr => Filled(f)' = 0
      /\ f \notin clr /\ f \notin gnt => Filled(f)' = c /\ rptr'[f] = rptr[f]
      /\ f \notin clr /\ f \in gnt \ reads =>
           /\ Filled(f)' = c + 1 /\ rptr'[f] = rptr[f]
           /\ Slot(n, rptr[f], c + 1) = wptr[f]
      /\ f \notin clr /\ f \in reads =>
           /\ Filled(f)' = c - 1
           /\ \A i \in 1 .. c - 1 : Slot(n, rptr'[f], i) = Slot(n, rptr[f], i + 1)
  BY PointersStep DEF Filled
<1>6. n \in Nat /\ n >= 2 /\ Ordered(n, wptr[f], wmsb[f], rptr[f], rmsb[f])
      /\ c = Count(n, wptr[f], wmsb[f], rptr[f], rmsb[f])
  BY RegionSize DEF Placed, Pointing, Filled
<1> HIDE DEF n, c, S
<1>7. ASSUME f \notin clr, f \notin gnt
      PROVE  Entries(f)' = Entries(f)
  <2>1. \A i \in 1 .. c : ram'[BaseAddr(f) + Slot(n, rptr[f], i)]
                           = ram[BaseAddr(f) + Slot(n, rptr[f], i)]
    BY <1>1, <1>4, <1>7
  <2> QED
    BY <1>3, <1>5, <1>7, <2>1
<1>8. ASSUME f \notin clr, f \in gnt \ reads
      PROVE  Entries(f)' = Append(Entries(f), Head(avail[f]))
  <2>1. c # n
    BY <1>8 DEF c, n
  <2>2. /\ Slot(n, rptr[f], c + 1) = wptr[f] /\ wptr[f] \in 0 .. n - 1
        /\ \A i \in 1 .. c : Slot(n, rptr[f], i) # wptr[f]
    <3>1. \A i \in 1 .. c : Slot(n, rptr[f], i) # wptr[f]
      BY <1>6, <2>1, CountPush
    <3> QED
      BY <1>5, <1>6, <1>8, <3>1 DEF Ordered
  <2>3. \A i \in 1 .. c : Entries(f)'[i] = Entries(f)[i]
    <3> TAKE i \in 1 .. c
    <3>1. i \in 1 .. c + 1
      BY <1>1
    <3>2. ram'[BaseAddr(f) + Slot(n, rptr[f], i)] = ram[BaseAddr(f) + Slot(n, rptr[f], i)]
      BY <1>1, <1>4, <2>2
    <3> QED
      BY <1>3, <1>5, <1>8, <3>1, <3>2
  <2>4. Entries(f)'[c + 1] = Head(avail[f])
    <3>1. c + 1 \in 1 .. c + 1
      BY <1>1
    <3>2. ram'[BaseAddr(f) + wptr[f]] = Head(avail[f])
      BY <1>4, <1>8, <2>2
    <3> QED
      BY <1>3, <1>5, <1>8, <2>2, <3>1, <3>2
  <2>5. Entries(f)' \in [1 .. c + 1 -> S]
    BY <1>2, <1>5, <1>8
  <2> QED
    BY <1>1, <2>3, <2>4, <2>5, OneMore
<1>9. ASSUME f \in reads
      PROVE  c # 0 /\ ram[BaseAddr(f) + rptr[f]] = Head(Entries(f))
  <2>1. c # 0
    BY <1>9 DEF c
  <2>2. Slot(n, rptr[f], 1) = rptr[f]
    BY <1>6, <2>1, CountPop
  <2>3. 1 \in 1 .. c
    BY <1>1, <2>1
  <2>4. Entries(f)[1] = ram[BaseAddr(f) + rptr[f]]
    BY <1>3, <2>2, <2>3
  <2>5. Head(Entries(f)) = Entries(f)[1]
    BY <1>1, <2>1, HeadIsFirst
  <2> QED
    BY <2>1, <2>4, <2>5
<1>10. ASSUME f \notin clr, f \in reads
       PROVE  Entries(f)' = Tail(Entries(f))
  <2>1. c # 0
    BY <1>9, <1>10
  <2>2. \A i \in 1 .. c - 1 : Entries(f)'[i] = Entries(f)[i + 1]
    <3> TAKE i \in 1 .. c - 1
    <3>1. i + 1 \in 1 .. c
      BY <1>1
    <3>2. Slot(n, rptr'[f], i) = Slot(n, rptr[f], i + 1)
      BY <1>5, <1>10
    <3>3. ram'[BaseAddr(f) + Slot(n, rptr[f], i + 1)] = ram[BaseAddr(f) + Slot(n, rptr[f], i + 1)]
      BY <1>1, <1>4, <1>10, <3>1
    <3> QED
      BY <1>3, <1>5, <1>10, <3>1, <3>2, <3>3
  <2>3. Entries(f)' \in [1 .. c - 1 -> S]
    BY <1>2, <1>5, <1>10
  <2> QED
    BY <1>1, <2>1, <2>2, <2>3, OneLess
<1> QED
  BY <1>2, <1>5, <1>7, <1>8, <1>9, <1>10

\* The arbiter grants the port to one that asks for it, and to one only.
LEMMA GrantedAsks ==
  ASSUME NEW reqs \in SUBSET Fifos
  PROVE  Granted(reqs) \subseteq reqs /\ \A g, h \in Granted(reqs) : g = h
<1>1. CASE reqs = {}
  BY <1>1 DEF Granted
<1>2. CASE reqs # {}
  <2>1. reqs \subseteq Nat
    BY FifosAssumption DEF Fifos
  <2>2. reqs \cap prio_mask # {} => Min(reqs \cap prio_mask) \in reqs \cap prio_mask
    BY <2>1, SmallestFifo
  <2>3. Min(reqs) \in reqs
    BY <1>2, <2>1, SmallestFifo
  <2>4. idx(reqs) \in reqs
    BY <2>2, <2>3 DEF idx
  <2> QED
    BY <1>2, <2>4 DEF Granted
<1> QED
  BY <1>1, <1>2

\* A FIFO asks for a read with an entry in the RAM, for a write with room in it.
LEMMA RequestsFit ==
  ASSUME Placed, NEW f \in Fifos, NEW v, NEW r
  PROVE  /\ Adapter(f)!ReadRequest(v, r) => Filled(f) # 0
         /\ Adapter(f)!WriteRequest(v, r) =>
              Filled(f) # SramFifoDepth(f) /\ ~Adapter(f)!ReadRequest(v, r)
<1>1. /\ Ptrs(f)!Contents = Entries(f) /\ Len(Entries(f)) = Filled(f)
      /\ Entries(f) = <<>> <=> Filled(f) = 0
  BY SameEntries
<1>2. Adapter(f)!SramFifoDepth = SramFifoDepth(f)
  BY DEF Adapter!SramFifoDepth, Adapter!OupBufDepth, SramFifoDepth
<1>3. Adapter(f)!ReadRequest(v, r) => Filled(f) # 0
  BY <1>1 DEF Adapter!ReadRequest, Adapter!sram_empty
<1>4. Adapter(f)!WriteRequest(v, r) =>
        Filled(f) # SramFifoDepth(f) /\ ~Adapter(f)!ReadRequest(v, r)
  BY <1>1, <1>2 DEF Adapter!WriteRequest, Adapter!sram_full
<1> QED
  BY <1>3, <1>4

\* An edge leaves every FIFO's entries in place and is, for each, a step of its own.
LEMMA CycleStep ==
  ASSUME Placed, NEW w \in Offers, NEW rready \in [Fifos -> BOOLEAN], Cycle(w, rready)
  PROVE  Placed' /\ \A f \in Fifos : AdapterStep(f)
<1> DEFINE asking == {f \in Fifos : Adapter(f)!ReadRequest(w[f], rready[f])}
           reqs == asking \cup {f \in Fifos : Adapter(f)!WriteRequest(w[f], rready[f])}
           avail == [f \in Fifos |-> Adapter(f)!Avail(w[f])]
           drained == [f \in Fifos |->
                        IF Adapter(f)!Delivered(w[f], rready[f]) # <<>>
                        THEN Tail(Adapter(f)!OupAvail(w[f])) ELSE Adapter(f)!OupAvail(w[f])]
           gnt == Granted(reqs)
           reads == asking \cap gnt
           filled == [f \in Fifos |-> IF Adapter(f)!InpRead(w[f], rready[f], f \in gnt)
                                     THEN Tail(avail[f]) ELSE avail[f]]
<1>1. PICK clr \in SUBSET Fifos :
        /\ Pointers(gnt, reads, clr) /\ Ram(gnt, reads, clr, avail)
        /\ inp' = Kept(filled, clr) /\ oup' = Kept(drained, clr)
  BY DEF Cycle
<1>2. gnt \subseteq reqs /\ (\A g, h \in gnt : g = h) /\ gnt \in SUBSET Fifos
  <2>1. reqs \in SUBSET Fifos
    OBVIOUS
  <2> HIDE DEF reqs
  <2> QED
    BY <2>1, GrantedAsks
<1>3. reads \in SUBSET gnt
  OBVIOUS
<1>4. ASSUME NEW f \in Fifos
      PROVE  /\ f \in gnt /\ Adapter(f)!ReadRequest(w[f], rready[f]) <=> f \in reads
             /\ f \in gnt /\ Adapter(f)!WriteRequest(w[f], rready[f]) <=> f \in gnt \ reads
             /\ f \in reads => Filled(f) # 0
             /\ f \in gnt \ reads => Filled(f) # SramFifoDepth(f)
  <2>1. /\ Adapter(f)!ReadRequest(w[f], rready[f]) => Filled(f) # 0
        /\ Adapter(f)!WriteRequest(w[f], rready[f]) =>
             Filled(f) # SramFifoDepth(f) /\ ~Adapter(f)!ReadRequest(w[f], rready[f])
    BY RequestsFit
  <2>2. f \in asking <=> Adapter(f)!ReadRequest(w[f], rready[f])
    OBVIOUS
  <2>3. f \in gnt => f \in asking \/ Adapter(f)!WriteRequest(w[f], rready[f])
    BY <1>2
  <2> HIDE DEF asking, gnt
  <2> QED
    BY <2>1, <2>2, <2>3
<1>5. /\ inp' = [f \in Fifos |-> IF f \in clr THEN <<>> ELSE filled[f]]
      /\ oup' = [f \in Fifos |-> IF f \in clr THEN <<>> ELSE drained[f]]
  BY <1>1 DEF Kept
<1>6. ASSUME NEW f \in Fifos, f \notin clr
      PROVE  /\ inp'[f] = IF Adapter(f)!InpRead(w[f], rready[f], f \in gnt)
                          THEN Tail(Adapter(f)!Avail(w[f])) ELSE Adapter(f)!Avail(w[f])
             /\ oup'[f] = IF Adapter(f)!Delivered(w[f], rready[f]) # <<>>
                          THEN Tail(Adapter(f)!OupAvail(w[f])) ELSE Adapter(f)!OupAvail(w[f])
  BY <1>5, <1>6
<1>7. \A f \in Fifos : avail[f] = Adapter(f)!Avail(w[f])
  OBVIOUS
<1> HIDE DEF avail, drained, filled, asking, reqs, gnt, reads
<1>8. Placed'
  <2>1. \A f \in Fifos : Pointing(f)'
    BY <1>1, <1>2, <1>3, <1>4, PointersStep DEF Pointing
  <2>2. \A g \in Fifos : wptr[g] \in 0 .. SramFifoDepth(g) - 1
    BY DEF Placed, Pointing, Ordered
  <2>3. RamIsArray'
    BY <1>1, <1>2, <1>3, <2>2, WordStep DEF Placed
  <2> QED
    BY <2>1, <2>3 DEF Placed, Pointing
<1>9. ASSUME NEW f \in Fifos
      PROVE  AdapterStep(f)
  <2>1. Ptrs(f)!Contents = Entries(f)
    BY SameEntries
  <2>2. Ptrs(f)!Contents' = Entries(f)'
    <3>1. EntriesFit'
      BY <1>8, EntriesFacts, PTL
    <3> QED
      BY <3>1 DEF EntriesFit
  <2>3. /\ f \in clr => Entries(f)' = <<>>
        /\ f \notin clr /\ f \notin gnt => Entries(f)' = Entries(f)
        /\ f \notin clr /\ f \in gnt \ reads => Entries(f)' = Append(Entries(f), Head(avail[f]))
        /\ f \notin clr /\ f \in reads => Entries(f)' = Tail(Entries(f))
        /\ f \in reads => ram[BaseAddr(f) + rptr[f]] = Head(Entries(f))
    BY <1>1, <1>2, <1>3, <1>4, <1>8, EntriesStep
  <2>4. reading'[f] = (f \in reads \ clr) /\ (f \in reads => rdata' = Head(Entries(f)))
    <3>1. reading'[f] = (f \in reads \ clr)
      BY <1>1 DEF Ram
    <3>2. ASSUME f \in reads
          PROVE  rdata' = Head(Entries(f))
      <4>1. (CHOOSE g \in gnt : TRUE) = f
        BY <1>2, <1>3, <3>2
      <4>2. rdata' = ram[BaseAddr(f) + rptr[f]]
        BY <1>1, <3>2, <4>1 DEF Ram
      <4> QED
        BY <2>3, <3>2, <4>2
    <3> QED
      BY <3>1, <3>2
  <2>5. CASE f \in clr
    <3>1. inp'[f] = <<>> /\ oup'[f] = <<>>
      BY <1>5, <2>5
    <3> QED
      BY <2>2, <2>3, <2>4, <2>5, <3>1 DEF AdapterStep, Adapter!Forget, InFlight
  <2>6. CASE f \notin clr
    <3>1. w[f] \in Adapter(f)!Offers /\ rready[f] \in BOOLEAN /\ (f \in gnt) \in BOOLEAN
      BY DEF Offers
    <3>2. IF Adapter(f)!ReadRequest(w[f], rready[f]) /\ f \in gnt
          THEN InFlight(f)' = <<Head(Ptrs(f)!Contents)>> /\ Ptrs(f)!Contents' = Tail(Ptrs(f)!Contents)
          ELSE /\ InFlight(f)' = <<>>
               /\ Ptrs(f)!Contents' = IF Adapter(f)!WriteRequest(w[f], rready[f]) /\ f \in gnt
                                      THEN Append(Ptrs(f)!Contents, Head(Adapter(f)!Avail(w[f])))
                                      ELSE Ptrs(f)!Contents
      BY <1>3, <1>4, <1>7, <2>1, <2>2, <2>3, <2>4, <2>6 DEF InFlight
    <3>3. Adapter(f)!Move(w[f], rready[f], f \in gnt)
      BY <1>6, <2>6, <3>2 DEF Adapter!Move
    <3> QED
      BY <3>1, <3>3 DEF AdapterStep
  <2> QED
    BY <2>5, <2>6
<1> QED
  BY <1>8, <1>9

\* With all pointers at 0 nothing is in the RAM, whatever its words are.
LEMMA AllCleared ==
  ASSUME inp' = Nothing, oup' = Nothing, wptr' = Zero, rptr' = Zero, wmsb' = Nowhere,
         rmsb' = Nowhere, reading' = Nowhere, RamIsArray'
  PROVE  Placed' /\ \A f \in Fifos : AdapterStep(f)
<1>1. ASSUME NEW f \in Fifos
      PROVE  /\ wptr'[f] = 0 /\ rptr'[f] = 0 /\ wmsb'[f] = FALSE /\ rmsb'[f] = FALSE
             /\ inp'[f] = <<>> /\ oup'[f] = <<>> /\ reading'[f] = FALSE
  BY DEF Nothing, Zero, Nowhere
<1>2. ASSUME NEW f \in Fifos
      PROVE  Pointing(f)' /\ Filled(f)' = 0
  <2> DEFINE n == SramFifoDepth(f)
  <2>1. n \in Nat /\ n >= 2
    BY RegionSize
  <2>2. Pointing(f)' <=> Ordered(n, wptr'[f], wmsb'[f], rptr'[f], rmsb'[f])
    BY DEF Pointing
  <2>3. Filled(f)' = Count(n, wptr'[f], wmsb'[f], rptr'[f], rmsb'[f])
    BY DEF Filled
  <2> HIDE DEF n
  <2>4. Ordered(n, 0, FALSE, 0, FALSE) /\ Count(n, 0, FALSE, 0, FALSE) = 0
    BY <2>1 DEF Ordered, Count
  <2> QED
    BY <1>1, <2>2, <2>3, <2>4, Zenon
<1>3. Placed'
  BY <1>2 DEF Placed, Pointing
<1>4. EntriesFit'
  BY <1>3, EntriesFacts, PTL
<1>5. ASSUME NEW f \in Fifos
      PROVE  AdapterStep(f)
  <2>1. Ptrs(f)!Contents' = <<>>
    <3>1. Ptrs(f)!Contents' = Entries(f)' /\ (Entries(f)' = <<>> <=> Filled(f)' = 0)
      BY <1>4 DEF EntriesFit, Filled, Entries, Word, AllWords
    <3> QED
      BY <1>2, <3>1 DEF Filled
  <2> QED
    BY <1>1, <2>1 DEF AdapterStep, Adapter!Forget, InFlight
<1> QED
  BY <1>3, <1>5

\* Every step leaves the entries in place, and is a step of each adapter or a stutter.
LEMMA StepIsLocal == Placed /\ [Next]_vars => Placed' /\ [\A f \in Fifos : AdapterStep(f)]_vars
<1> SUFFICES ASSUME Placed, [Next]_vars
             PROVE  Placed' /\ [\A f \in Fifos : AdapterStep(f)]_vars
  OBVIOUS
<1>1. CASE \E w \in Offers, rready \in [Fifos -> BOOLEAN] : Cycle(w, rready)
  BY <1>1, CycleStep
<1>2. CASE Reset
  <2>1. RamIsArray'
    BY <1>2 DEF Reset, RamIsArray, Placed
  <2> QED
    BY <1>2, <2>1, AllCleared DEF Reset
<1>3. CASE UNCHANGED vars
  <2>1. UNCHANGED <<ram, ptrs>>
    BY <1>3 DEF vars
  <2> QED
    BY <1>3, <2>1 DEF ptrs, Placed, RamIsArray, Pointing
<1> QED
  BY <1>1, <1>2, <1>3 DEF Next

\* Out of reset the pointers are at 0.
LEMMA InitPlaced == Init => Placed
<1> SUFFICES ASSUME Init PROVE Placed
  OBVIOUS
<1>1. RamIsArray
  BY DEF Init, RamIsArray, Addresses
<1>2. ASSUME NEW f \in Fifos
      PROVE  Pointing(f)
  <2> DEFINE n == SramFifoDepth(f)
  <2>1. n \in Nat /\ n >= 2
    BY RegionSize
  <2>2. Pointing(f) <=> Ordered(n, wptr[f], wmsb[f], rptr[f], rmsb[f])
    BY DEF Pointing
  <2>3. wptr[f] = 0 /\ rptr[f] = 0 /\ wmsb[f] = FALSE /\ rmsb[f] = FALSE
    BY DEF Init, Zero, Nowhere
  <2> HIDE DEF n
  <2>4. Ordered(n, 0, FALSE, 0, FALSE)
    BY <2>1 DEF Ordered
  <2> QED
    BY <2>2, <2>3, <2>4, Zenon
<1> QED
  BY <1>1, <1>2 DEF Placed

\* For every number of FIFOs and all depths, and whatever else goes on on the port, each
\* FIFO of i2c_fifos.sv makes the steps of an adapter that is alone with its SRAM: no
\* region overlaps another, and the read data in a cycle belong to the FIFO that takes
\* them.
THEOREM FifosAreAdapters == Spec => ImplementsAdapters
<1> QED
  BY InitPlaced, StepIsLocal, PTL DEF Spec, ImplementsAdapters
================================================================================
