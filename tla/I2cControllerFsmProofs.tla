----------------------- MODULE I2cControllerFsmProofs -----------------------
(****************************************************************************)
(* Proofs about I2cControllerFsm for every width of a byte, every depth of  *)
(* the FMT FIFO and every set of entries.  What is proved of the bus is     *)
(* proved for one controller whose software waits: no other device drives   *)
(* the lines against the protocol, ENABLEHOST is cleared and an event is    *)
(* answered in Idle only (TLC finds each of the three to be needed).        *)
(****************************************************************************)
EXTENDS I2cControllerFsm, FiniteSetTheorems, FunctionTheorems, SequenceTheorems, TLAPS

OneController == ~OtherControllers /\ ~Disables /\ ~Hasty

------------------------------------------------------------------------------
(* Groups of states.                                                        *)

\* SCL is driven low when the state is entered, released on entry, or released
\* since before.
SclLow == {"ClockLow", "ClockLowAck", "ReadClockLow", "HostClockLowAck", "ClockStop"}
SclFalls == {"ClockStart", "HoldBit", "HoldDevAck", "ReadHoldBit", "HostHoldBitAck"}
SclRises == Pulses \cup {"SetupStop"}

WriteBits == {"ClockLow", "ClockPulse", "HoldBit"}
WriteAck == {"ClockLowAck", "ClockPulseAck", "HoldDevAck"}
ReadBits == {"ReadClockLow", "ReadClockPulse", "ReadHoldBit"}
ReadAck == {"HostClockLowAck", "HostClockPulseAck", "HostHoldBitAck"}
Starting == {"SetupStart", "HoldStart", "ClockStart"}
Stopping == {"ClockStop", "SetupStop", "HoldStop"}
Between == {"Idle", "Active", "PopFmtFifo"}

\* The controller drives SDA and releases SCL.
Driving == {"SetupStart", "HoldStart", "ClockPulse", "HostClockPulseAck", "SetupStop"}

\* What each state knows of the FMT FIFO and of the registers.
Sequence ==
  /\ \A i \in 1 .. Len(fmt) - 1 : fmt[i].stop => fmt[i + 1].start
  /\ fmt # <<>> /\ fmt[Len(fmt)].stop => writer = "start"

Control ==
  /\ auto_stop => st \in Stopping /\ (halt_controller \/ ~host_enable)
  /\ st # "Idle" /\ ~auto_stop => host_enable /\ fmt # <<>>
  /\ st = "Idle" /\ host_enable /\ ~halt_controller => Resumable
  /\ st \in {"HoldStart", "ClockStart"} \cup WriteBits \cup WriteAck \cup ReadBits \cup ReadAck
       => trans_started
  /\ st \in Stopping /\ ~auto_stop => trans_started /\ Top.stop
  /\ st = "Active" /\ ~trans_started => Top.start
  /\ st = "PopFmtFifo" => (trans_started <=> ~Top.stop)
  /\ st \in Starting \cup WriteBits \cup WriteAck => ~Top.read
  /\ st \in ReadBits \cup ReadAck => Top.read
  /\ pend_restart => st \in {"ClockLow", "SetupStart"}

Halting ==
  unhandled_nak => st \in {"ClockPulseAck", "HoldDevAck", "PopFmtFifo", "Idle"} \cup Stopping

\* SCL, as the state drives it and as it comes back.
Clock ==
  /\ st \in SclLow => ~scl /\ ~scl_q
  /\ st \in SclFalls => scl = loaded /\ (scl => scl_q)
  /\ st \in SclRises => (~loaded => scl_q) /\ (scl_q => scl)
  /\ st \in {"HoldStart", "HoldStop"} => scl /\ scl_q
  /\ st \in Between => scl = ~trans_started /\ scl_q = ~trans_started
  /\ st = "SetupStart" => IF trans_started THEN (~loaded => scl_q) /\ (scl_q => scl)
                          ELSE scl /\ scl_q

\* SDA, as the state drives it and as it comes back.
DataLine ==
  /\ st \in Driving => others
  /\ st \in {"HoldBit", "HostHoldBitAck"} /\ scl => others
  /\ st \in Between /\ ~trans_started => sda_fsm_q /\ others /\ sda_q
  /\ st = "SetupStart" => sda_fsm_q /\ (scl => sda_q)
  /\ st = "HoldStart" => sda_fsm_q = loaded /\ (loaded => sda_q)
  /\ st = "ClockStart" => ~sda_fsm_q /\ ~sda_q
  /\ st = "ClockLow" => (~loaded => sda_fsm_q = sda_o)
  /\ st = "ClockPulse" => sda_fsm_q = fmt_bit /\ (scl => sda_q = fmt_bit)
  /\ st = "HoldBit" => sda_fsm_q = fmt_bit /\ (scl_q => sda_q = fmt_bit)
  /\ st \in {"ClockLowAck", "ReadClockLow"} => (~loaded => sda_fsm_q)
  /\ st \in {"ClockPulseAck", "ReadClockPulse"} => sda_fsm_q /\ (scl_q => sda_q = others)
  /\ st \in {"HoldDevAck", "ReadHoldBit"} => sda_fsm_q /\ (scl => sda_q = others)
  /\ st = "HostClockLowAck" => (~loaded => sda_fsm_q = host_nack)
  /\ st = "HostClockPulseAck" => sda_fsm_q = host_nack /\ (scl => sda_q = host_nack)
  /\ st = "HostHoldBitAck" => sda_fsm_q = host_nack /\ (scl_q => sda_q = host_nack)
  /\ st = "ClockStop" => (~loaded => ~sda_fsm_q)
  /\ st = "SetupStop" => ~sda_fsm_q /\ ~sda_q
  /\ st = "HoldStop" => others /\ ~sda_q /\ (loaded <=> ~sda_fsm_q)

\* What the observer of the bus has seen.
Seen ==
  /\ st \in Between \cup {"SetupStart"} => (open <=> trans_started)
  /\ st = "HoldStart" /\ ~sda_q => open /\ symbol
  /\ st \notin Between \cup {"SetupStart", "HoldStart"} => open
  /\ st = "ClockStart" => symbol = scl_q
  /\ st \in SclLow \cup SclRises \cup (SclFalls \ {"ClockStart"}) \cup {"HoldStop"} => ~symbol
  /\ st \in Between \cup {"SetupStart"} /\ trans_started => ~symbol

\* Where in the byte the FSM and the bus are.
BitCount ==
  /\ st \in {"ClockLow", "ClockPulse", "ReadClockLow", "ReadClockPulse"}
       => pulses = ByteBits - 1 - bit_index
  /\ st \in {"HoldBit", "ReadHoldBit"}
       => pulses = ByteBits - 1 - bit_index + (IF scl_q THEN 0 ELSE 1)
  /\ st \notin WriteBits \cup ReadBits \/ pend_restart => bit_index = ByteBits - 1
  /\ st \in {"ClockLowAck", "ClockPulseAck", "HostClockLowAck", "HostClockPulseAck"}
       => pulses = ByteBits
  /\ st \in {"HoldDevAck", "HostHoldBitAck"} => pulses = IF scl_q THEN ByteBits ELSE 0
  /\ st \in Between \cup Starting \cup Stopping => pulses = 0

\* How much of the entry is done.
ByteCount ==
  /\ st \in Starting \cup WriteBits \cup (WriteAck \ {"HoldDevAck"}) => bytes = 0
  /\ st = "HoldDevAck" => bytes = IF scl_q THEN 0 ELSE 1
  /\ st \in ReadBits \cup ReadAck => byte_index \in 1 .. byte_num
  /\ st \in ReadBits \cup (ReadAck \ {"HostHoldBitAck"}) => bytes = byte_num - byte_index
  /\ st = "HostHoldBitAck" =>
       /\ bytes = byte_num - byte_index + (IF scl_q THEN 0 ELSE 1)
       /\ ~scl_q => acked = ~host_nack
  /\ (st \in Stopping /\ ~auto_stop) \/ st = "PopFmtFifo" =>
       IF Top.read THEN bytes = byte_num /\ acked = Top.rcont ELSE bytes = 1

\* The bits of the byte, on the bus and in the registers.
WordCount ==
  /\ st \in WriteBits =>
       word % 2^pulses = Top.fbyte \div 2^(ByteBits - pulses)
  /\ st \in WriteAck => word = Top.fbyte
  /\ (st \in Stopping /\ ~auto_stop) \/ st = "PopFmtFifo" =>
       (~Top.read => word = Top.fbyte)
  /\ st = "ReadHoldBit" /\ scl_q =>
       read_byte = (2 * (word % 2^pulses) + Bit(sda_q)) % 2^ByteBits
  /\ st \in ReadBits /\ ~(st = "ReadHoldBit" /\ scl_q) => read_byte = word % 2^pulses
  /\ st \notin ReadBits => read_byte = 0

IInv ==
  /\ TypeOK /\ Sequence /\ Control /\ Halting /\ Clock /\ DataLine /\ Seen /\ BitCount
  /\ ByteCount /\ WordCount

------------------------------------------------------------------------------
(* Arithmetic of bytes: quotients, remainders and powers of two.            *)

\* Quotient and remainder are determined by their sum.
LEMMA DivUnique ==
  ASSUME NEW d \in Nat, d > 0, NEW q \in Int, NEW r \in 0 .. d - 1
  PROVE  (q * d + r) % d = r /\ (q * d + r) \div d = q
OBVIOUS

\* Every number is its quotient and remainder put together.
LEMMA DivMod ==
  ASSUME NEW d \in Nat, d > 0, NEW x \in Int
  PROVE  /\ x \div d \in Int /\ x % d \in 0 .. d - 1
         /\ x = (x \div d) * d + (x % d)
<1>1. x \div d \in Int /\ x % d \in 0 .. d - 1
  OBVIOUS
<1>2. x = (x \div d) * d + (x % d)
  BY Z3
<1> QED
  BY <1>1, <1>2

\* A remainder keeps the remainders by the factors of its divisor.
LEMMA ModMod ==
  ASSUME NEW m \in Nat, m > 0, NEW q \in Nat, q > 0, NEW x \in Nat
  PROVE  (x % (m * q)) % m = x % m
<1>1. PICK y \in Int, r \in Int, s \in 0 .. m - 1 : x % (m * q) = r * m + s /\ x = y * (m * q) + (r * m + s)
  <2>1. m * q \in Nat /\ m * q > 0
    OBVIOUS
  <2>2. x % (m * q) \in Int /\ x \div (m * q) \in Int /\ x = (x \div (m * q)) * (m * q) + (x % (m * q))
    BY <2>1, DivMod
  <2>3. LET z == x % (m * q) IN z \div m \in Int /\ z % m \in 0 .. m - 1 /\ z = (z \div m) * m + (z % m)
    BY <2>2, DivMod
  <2> QED
    BY <2>2, <2>3
<1>2. y * (m * q) + (r * m + s) = (y * q + r) * m + s /\ y * q + r \in Int
  OBVIOUS
<1>3. (r * m + s) % m = s
  BY DivUnique
<1>4. ((y * q + r) * m + s) % m = s
  BY <1>2, DivUnique
<1> QED
  BY <1>1, <1>2, <1>3, <1>4

\* A quotient is twice the next one and its lowest bit.
LEMMA DivDiv ==
  ASSUME NEW d \in Nat, d > 0, NEW x \in Nat
  PROVE  x \div d = 2 * (x \div (2 * d)) + ((x \div d) % 2)
<1> DEFINE q == x \div d
           r == x % d
<1>1. q \in Int /\ r \in 0 .. d - 1 /\ x = q * d + r
  BY DivMod
<1>2. q \div 2 \in Int /\ q % 2 \in 0 .. 1 /\ q = (q \div 2) * 2 + (q % 2)
  BY <1>1, DivMod
<1>3. \A p, c \in Int : (p * 2 + c) * d + r = p * (2 * d) + (c * d + r)
  BY <1>1
<1>4. \A c \in 0 .. 1 : c * d + r \in 0 .. 2 * d - 1
  BY <1>1
<1>5. x = (q \div 2) * (2 * d) + ((q % 2) * d + r) /\ (q % 2) * d + r \in 0 .. 2 * d - 1
  <2> HIDE DEF q, r
  <2> QED
    BY <1>1, <1>2, <1>3, <1>4
<1>6. x \div (2 * d) = q \div 2
  <2>1. 2 * d \in Nat /\ 2 * d > 0
    OBVIOUS
  <2> HIDE DEF q, r
  <2> QED
    BY <1>2, <1>5, <2>1, DivUnique
<1> QED
  BY <1>2, <1>6

\* The remainder of a number shifted left by a bit.
LEMMA ModShift ==
  ASSUME NEW d \in Nat, d > 0, NEW x \in Nat, NEW b \in 0 .. 1
  PROVE  (2 * x + b) % (2 * d) = 2 * (x % d) + b
<1>1. PICK q \in Int, r \in 0 .. d - 1 : x = q * d + r /\ x % d = r
  BY DivMod
<1>2. 2 * x + b = q * (2 * d) + (2 * r + b) /\ 2 * r + b \in 0 .. 2 * d - 1
  BY <1>1
<1>3. 2 * d \in Nat /\ 2 * d > 0
  OBVIOUS
<1> QED
  BY <1>1, <1>2, <1>3, DivUnique

\* The powers of two are the numbers of subsets: no induction is needed.
LEMMA PowerIsNat ==
  ASSUME NEW n \in Nat
  PROVE  2^n \in Nat /\ 2^n >= 1
<1>1. IsFiniteSet(1 .. n) /\ Cardinality(1 .. n) = n
  BY FS_Interval
<1>2. IsFiniteSet(SUBSET (1 .. n)) /\ Cardinality(SUBSET (1 .. n)) = 2^n
  BY <1>1, FS_SUBSET
<1>3. Cardinality(SUBSET (1 .. n)) \in Nat /\ Cardinality(SUBSET (1 .. n)) # 0
  BY <1>2, FS_CardinalityType, FS_EmptySet
<1> QED
  BY <1>2, <1>3

\* A subset of a set of a + b members is a subset of a and one of b of them.
LEMMA PowerSum ==
  ASSUME NEW a \in Nat, NEW b \in Nat
  PROVE  2^(a + b) = 2^a * 2^b
<1> DEFINE A == 1 .. a
           B == (a + 1) .. (a + b)
           AB == 1 .. (a + b)
           f == [X \in SUBSET AB |-> <<X \cap A, X \cap B>>]
<1>1. /\ IsFiniteSet(A) /\ Cardinality(A) = a
      /\ IsFiniteSet(B) /\ Cardinality(B) = b
      /\ IsFiniteSet(AB) /\ Cardinality(AB) = a + b
  <2>1. a = (a - 1) + 1 /\ (1 > a => a = 0) /\ a - 1 + 1 = a
    OBVIOUS
  <2>2. IsFiniteSet(A) /\ Cardinality(A) = a
    BY FS_Interval
  <2>3. IsFiniteSet(AB) /\ Cardinality(AB) = a + b
    <3>1. 1 \in Int /\ a + b \in Int /\ (IF 1 > a + b THEN 0 ELSE (a + b) - 1 + 1) = a + b
      OBVIOUS
    <3> QED
      BY <3>1, FS_Interval, Zenon
  <2>4. IsFiniteSet(B) /\ Cardinality(B) = IF a + 1 > a + b THEN 0 ELSE (a + b) - (a + 1) + 1
    BY FS_Interval
  <2>5. (IF a + 1 > a + b THEN 0 ELSE (a + b) - (a + 1) + 1) = b
    OBVIOUS
  <2> QED
    BY <2>2, <2>3, <2>4, <2>5
<1>2. A \cup B = AB /\ A \cap B = {}
  OBVIOUS
<1> HIDE DEF A, B, AB
<1>3. f \in [SUBSET AB -> (SUBSET A) \X (SUBSET B)]
  OBVIOUS
<1>4. \A X, Y \in SUBSET AB : f[X] = f[Y] => X = Y
  BY <1>2
<1>5. \A p \in (SUBSET A) \X (SUBSET B) : \E X \in SUBSET AB : f[X] = p
  <2> TAKE p \in (SUBSET A) \X (SUBSET B)
  <2>1. PICK P \in SUBSET A, Q \in SUBSET B : p = <<P, Q>>
    OBVIOUS
  <2>2. P \cup Q \in SUBSET AB /\ (P \cup Q) \cap A = P /\ (P \cup Q) \cap B = Q
    BY <1>2
  <2> QED
    BY <2>1, <2>2
<1> HIDE DEF f
<1>6. f \in Bijection(SUBSET AB, (SUBSET A) \X (SUBSET B))
  BY <1>3, <1>4, <1>5, Fun_IsInj, Fun_IsSurj DEF Bijection
<1>7. /\ IsFiniteSet(SUBSET A) /\ Cardinality(SUBSET A) = 2^a
      /\ IsFiniteSet(SUBSET B) /\ Cardinality(SUBSET B) = 2^b
      /\ IsFiniteSet(SUBSET AB) /\ Cardinality(SUBSET AB) = 2^(a + b)
  BY <1>1, FS_SUBSET
<1>8. Cardinality((SUBSET A) \X (SUBSET B)) = 2^a * 2^b
  <2> DEFINE P == SUBSET A
             Q == SUBSET B
  <2>1. IsFiniteSet(P) /\ IsFiniteSet(Q)
    BY <1>7
  <2> HIDE DEF P, Q
  <2>2. Cardinality(P \X Q) = Cardinality(P) * Cardinality(Q)
    BY <2>1, FS_Product
  <2>3. Cardinality(P) = 2^a /\ Cardinality(Q) = 2^b
    BY <1>7 DEF P, Q
  <2> QED
    BY <2>2, <2>3, Zenon DEF P, Q
<1>9. Cardinality((SUBSET A) \X (SUBSET B)) = Cardinality(SUBSET AB)
  BY <1>6, <1>7, FS_Bijection DEF ExistsBijection
<1> QED
  BY <1>7, <1>8, <1>9

\* The next power of two.
LEMMA PowerNext ==
  ASSUME NEW n \in Nat
  PROVE  2^(n + 1) = 2 * 2^n
<1>1. 2^(n + 1) = 2^n * 2^1
  BY PowerSum
<1>2. 2^1 = 2
  OBVIOUS
<1> QED
  BY <1>1, <1>2, PowerIsNat

\* A byte is all its bits.
LEMMA WholeByte ==
  ASSUME NEW x \in Bytes
  PROVE  x % 2^ByteBits = x /\ x \div 2^0 = x /\ x \div 2^ByteBits = 0 /\ x % 2^0 = 0
<1>1. 2^ByteBits \in Nat /\ 2^ByteBits > 0 /\ 2^0 = 1
  BY PowerIsNat, ByteAssumption
<1>2. x = 0 * 2^ByteBits + x /\ x \in 0 .. 2^ByteBits - 1 /\ x = x * 1 + 0
  BY <1>1 DEF Bytes
<1>3. x % 2^ByteBits = x /\ x \div 2^ByteBits = 0
  BY <1>1, <1>2, DivUnique
<1>4. x % 1 = 0 /\ x \div 1 = x
  BY <1>2, DivUnique
<1> QED
  BY <1>1, <1>3, <1>4

\* What a shift does to the lower bits of a byte.
LEMMA ShiftBits ==
  ASSUME NEW w \in Bytes, NEW b \in BOOLEAN, NEW k \in 0 .. ByteBits - 1
  PROVE  /\ Shift(w, b) \in Bytes
         /\ Shift(w, b) % 2^(k + 1) = 2 * (w % 2^k) + Bit(b)
         /\ (2 * (w % 2^k) + Bit(b)) % 2^ByteBits = 2 * (w % 2^k) + Bit(b)
<1> DEFINE m == 2^(k + 1)
           q == 2^(ByteBits - (k + 1))
           x == 2 * w + Bit(b)
<1>1. 2^ByteBits = m * q /\ m = 2 * 2^k
  <2>1. k \in Nat /\ k + 1 \in Nat /\ ByteBits - (k + 1) \in Nat
        /\ ByteBits = (k + 1) + (ByteBits - (k + 1))
    BY ByteAssumption
  <2> QED
    BY <2>1, PowerSum, PowerNext
<1>2. /\ m \in Nat /\ m > 0 /\ q \in Nat /\ q > 0 /\ 2^k \in Nat /\ 2^k > 0
      /\ 2^ByteBits \in Nat /\ 2^ByteBits > 0
  BY PowerIsNat, ByteAssumption
<1>3. Bit(b) \in 0 .. 1 /\ w \in Nat
  BY <1>2 DEF Bit, Bytes
<1>4. x \in Nat
  BY <1>3
<1>5. x % m = 2 * (w % 2^k) + Bit(b)
  <2>1. x % (2 * 2^k) = 2 * (w % 2^k) + Bit(b)
    BY <1>2, <1>3, ModShift, Zenon
  <2> QED
    BY <1>1, <2>1, Zenon
<1>6. Shift(w, b) = x % (m * q) /\ Shift(w, b) = x % 2^ByteBits
  BY <1>1 DEF Shift
<1>7. (x % (m * q)) % m = x % m
  BY <1>2, <1>4, ModMod
<1>8. x % 2^ByteBits \in 0 .. 2^ByteBits - 1
  BY <1>2, <1>4, DivMod
<1>9. (x % m) % 2^ByteBits = x % m
  <2>1. x % m \in 0 .. m - 1
    BY <1>2, <1>4, DivMod
  <2>2. m <= m * q
    <3> HIDE DEF m, q
    <3> QED
      BY <1>2
  <2>3. x % m \in Bytes
    <3> HIDE DEF x, m, q
    <3> QED
      BY <1>1, <1>2, <1>4, <2>1, <2>2 DEF Bytes
  <2> HIDE DEF x, m
  <2> QED
    BY <2>3, WholeByte
<1> QED
  BY <1>5, <1>6, <1>7, <1>8, <1>9 DEF Bytes

\* The bits of a byte, the highest first.
LEMMA ByteBitsOf ==
  ASSUME NEW x \in Bytes, NEW i \in 0 .. ByteBits - 1
  PROVE  x \div 2^i = 2 * (x \div 2^(i + 1)) + Bit((x \div 2^i) % 2 = 1)
<1>1. i \in Nat /\ 2^i \in Nat /\ 2^i > 0 /\ 2^(i + 1) = 2 * 2^i /\ x \in Nat
  BY PowerIsNat, PowerNext, ByteAssumption DEF Bytes
<1>2. x \div 2^i = 2 * (x \div (2 * 2^i)) + ((x \div 2^i) % 2)
  BY <1>1, DivDiv
<1>3. (x \div 2^i) % 2 = Bit((x \div 2^i) % 2 = 1)
  BY <1>1, DivMod DEF Bit
<1> QED
  BY <1>1, <1>2, <1>3

------------------------------------------------------------------------------
(* A clock edge without another controller.                                 *)

\* The moves of state_q when SDA and SCL are what the FSM makes them.
Moves(done, free) ==
  \/ st = "Idle" /\ Idle(free)
  \/ st = "Active" /\ Active
  \/ st = "PopFmtFifo" /\ PopFmtFifo
  \/ st = "SetupStart" /\ Timed(done, "HoldStart")
  \/ st = "HoldStart" /\ Timed(done, "ClockStart")
  \/ st = "ClockStart" /\ Timed(done, "ClockLow")
  \/ st = "ClockLow" /\ Timed(done, IF pend_restart THEN "SetupStart" ELSE "ClockPulse")
  \/ st = "ClockPulse" /\ Timed(done, "HoldBit")
  \/ st = "HoldBit" /\ Timed(done, IF bit_index = 0 THEN "ClockLowAck" ELSE "ClockLow")
  \/ st = "ClockLowAck" /\ Timed(done, "ClockPulseAck")
  \/ st = "ClockPulseAck" /\ Timed(done, "HoldDevAck")
  \/ st = "HoldDevAck" /\ Timed(done, EntryDone)
  \/ st = "ReadClockLow" /\ Timed(done, "ReadClockPulse")
  \/ st = "ReadClockPulse" /\ Timed(done, "ReadHoldBit")
  \/ st = "ReadHoldBit" /\ Timed(done, IF bit_index = 0 THEN "HostClockLowAck" ELSE "ReadClockLow")
  \/ st = "HostClockLowAck" /\ Timed(done, "HostClockPulseAck")
  \/ st = "HostClockPulseAck" /\ Timed(done, "HostHoldBitAck")
  \/ st = "HostHoldBitAck" /\ Timed(done, IF byte_index = 1 THEN EntryDone ELSE "ReadClockLow")
  \/ st = "ClockStop" /\ Timed(done, "SetupStop")
  \/ st = "SetupStop" /\ Timed(done, "HoldStop")
  \/ st = "HoldStop" /\ IF sda THEN st' = (IF auto_stop THEN "Idle" ELSE "PopFmtFifo") /\ auto_stop' = FALSE
                               ELSE Stay

\* Without another controller nothing interferes, no symbol fails, and SCL falls only where
\* the FSM lets it fall.
LEMMA Undisturbed ==
  ASSUME IInv, NEW interf \in Interferences
  PROVE  /\ interf = FALSE
         /\ ~sda_unstable
         /\ ~ctrl_symbol_failed
         /\ ~arbitration_lost(interf)
         /\ scl_fell => st \in SclFalls
<1>1. TypeOK /\ Clock /\ DataLine /\ Control
  BY DEF IInv
<1>2. interf = FALSE
  BY <1>1 DEF Interferences, DataLine, Clock, Driving, SclLow, sda, TypeOK, lines, transmitting
<1>3. scl_fell => st \in SclFalls
  BY <1>1 DEF Clock, scl_fell, TypeOK, States, SclFalls, SclLow, SclRises, Between
<1>4. ~sda_unstable
  BY <1>1 DEF Clock, DataLine, Driving, Pulses, SclRises, sda_unstable, sda, TypeOK, lines
<1>5. ~ctrl_symbol_failed
  BY <1>1, <1>3 DEF ctrl_symbol_failed, SclFalls, Clock
<1> QED
  BY <1>2, <1>3, <1>4, <1>5 DEF arbitration_lost

\* An edge then makes one of these moves, and only SetupStart starts a transaction.
LEMMA CycleMoves ==
  ASSUME IInv, NEW done \in Expiries, NEW free \in BOOLEAN, NEW interf \in Interferences,
         NEW expires \in BOOLEAN, NEW timeout \in Timeouts,
         Cycle(done, free, interf, expires, timeout)
  PROVE  /\ Moves(done, free)
         /\ trans_started' = IF trans_started /\ ~host_enable THEN FALSE
                             ELSE log_start(done) \/ (trans_started /\ ~log_stop)
         /\ log_start(done) <=> st = "SetupStart" /\ done
<1>1. /\ ~interf /\ ~sda_unstable /\ ~ctrl_symbol_failed /\ ~arbitration_lost(interf)
      /\ scl_fell => st \in SclFalls
  BY Undisturbed
<1>2. StateStep(done, free) /\ Started(done, interf)
  BY <1>1 DEF Cycle
<1>3. Clock
  BY DEF IInv
<1>4. log_start(done) <=> st = "SetupStart" /\ done
  BY <1>1 DEF log_start, SclFalls
<1>5. Moves(done, free)
  <2>1. CASE st \in Pulses
    <3>1. Pulse(done)
      BY <1>2, <2>1 DEF StateStep, Idle, Active, PopFmtFifo, SetupStart, HoldStart, ClockStart,
         ClockLow, ClockLowAck, ReadClockLow, HostClockLowAck, HoldBit, ReadHoldBit, HoldDevAck,
         HostHoldBitAck, ClockStop, SetupStop, HoldStop, Pulses
    <3>2. Timed(done, AfterPulse[st])
      BY <1>1, <2>1, <3>1 DEF Pulse, Pulses, SclFalls, Timed, Goto
    <3>3. \/ st = "ClockPulse" /\ AfterPulse[st] = "HoldBit"
          \/ st = "ClockPulseAck" /\ AfterPulse[st] = "HoldDevAck"
          \/ st = "ReadClockPulse" /\ AfterPulse[st] = "ReadHoldBit"
          \/ st = "HostClockPulseAck" /\ AfterPulse[st] = "HostHoldBitAck"
      BY <2>1 DEF Pulses, AfterPulse
    <3> QED
      BY <3>2, <3>3, Zenon DEF Moves
  <2>2. CASE st = "SetupStart"
    <3>1. SetupStart(done)
      BY <1>2, <2>2 DEF StateStep, Idle, Active, PopFmtFifo, HoldStart, ClockStart, Pulse, Pulses,
         ClockLow, ClockLowAck, ReadClockLow, HostClockLowAck, HoldBit, ReadHoldBit, HoldDevAck,
         HostHoldBitAck, ClockStop, SetupStop, HoldStop
    <3>2. Timed(done, "HoldStart")
      BY <1>1, <1>3, <2>2, <3>1 DEF SetupStart, Clock, SclFalls, Timed, Goto
    <3> QED
      BY <2>2, <3>2, Zenon DEF Moves
  <2>3. CASE st = "HoldStop"
    <3>1. HoldStop
      BY <1>2, <2>3 DEF StateStep, Idle, Active, PopFmtFifo, HoldStart, ClockStart, Pulse, Pulses,
         ClockLow, ClockLowAck, ReadClockLow, HostClockLowAck, HoldBit, ReadHoldBit, HoldDevAck,
         HostHoldBitAck, ClockStop, SetupStop, SetupStart
    <3>2. IF sda THEN st' = (IF auto_stop THEN "Idle" ELSE "PopFmtFifo") /\ auto_stop' = FALSE
                 ELSE Stay
      BY <1>3, <2>3, <3>1 DEF HoldStop, Clock
    <3> QED
      BY <2>3, <3>2, Zenon DEF Moves
  <2>4. CASE st \notin Pulses \cup {"SetupStart", "HoldStop"}
    <3>1. /\ st = "HoldStart" /\ HoldStart(done) => Timed(done, "ClockStart")
          /\ st = "SetupStop" /\ SetupStop(done) => Timed(done, "HoldStop")
      BY <1>1 DEF HoldStart, SetupStop, SclFalls, Timed, Goto
    <3>2. ~Pulse(done) /\ ~SetupStart(done) /\ ~HoldStop
      BY <2>4 DEF Pulse, SetupStart, HoldStop
    <3> QED
      BY <1>2, <3>1, <3>2, Zenon
       DEF Moves, StateStep, Idle, Active, PopFmtFifo, HoldStart, ClockStart, ClockLow,
           ClockLowAck, ReadClockLow, HostClockLowAck, HoldBit, ReadHoldBit, HoldDevAck,
           HostHoldBitAck, ClockStop, SetupStop
  <2> QED
    BY <2>1, <2>2, <2>3, <2>4
<1> QED
  BY <1>1, <1>2, <1>4, <1>5 DEF Started

\* A clock edge as a controller alone on the bus has it.
QuietEdge(done, free) ==
  /\ Moves(done, free)
  /\ done => ~loaded /\ (stretch_en => scl)
  /\ loaded' = (st' # st \/ (stretch_en /\ ~scl))
  /\ trans_started' = IF trans_started /\ ~host_enable THEN FALSE
                      ELSE (st = "SetupStart" /\ done) \/ (trans_started /\ ~log_stop)
  /\ pend_restart' = IF pend_restart /\ ~host_enable THEN FALSE
                     ELSE req_restart \/ (pend_restart /\ ~(st = "SetupStart" /\ done))
  /\ bit_counter(done) /\ byte_counter(done)
  /\ read_byte' = IF st = "ReadHoldBit" /\ done /\ bit_index = 0 THEN 0
                  ELSE IF st = "ReadClockPulse" /\ done THEN Shift(read_byte, sda)
                  ELSE read_byte
  /\ nak_expired' \in BOOLEAN
  /\ events \subseteq events' /\ events' \subseteq ControllerEvents
  /\ "nack" \in events' => "nack" \in events \/ st = "ClockPulseAck"
  /\ fmt' = IF st = "PopFmtFifo" THEN Tail(fmt) ELSE fmt
  /\ UNCHANGED <<host_enable, writer>>
  /\ scl' \in BOOLEAN /\ others' \in BOOLEAN
  /\ scl' => scl_o
  /\ scl /\ scl_o => scl'
  /\ others' # others => ~(scl /\ scl')
  /\ st' \in Driving => others'
  /\ scl_q' = scl /\ sda_q' = sda /\ sda_fsm_q' = sda_o
  /\ Observer

\* An edge of a controller alone on the bus is a quiet one.
LEMMA CycleIsQuiet ==
  ASSUME OneController, IInv, NEW done \in Expiries, NEW free \in BOOLEAN,
         NEW interf \in Interferences, NEW expires \in BOOLEAN, NEW timeout \in Timeouts,
         Cycle(done, free, interf, expires, timeout)
  PROVE  done \in BOOLEAN /\ QuietEdge(done, free)
<1>1. /\ Moves(done, free)
      /\ trans_started' = IF trans_started /\ ~host_enable THEN FALSE
                          ELSE log_start(done) \/ (trans_started /\ ~log_stop)
      /\ log_start(done) <=> st = "SetupStart" /\ done
  BY CycleMoves
<1>2. /\ done \in BOOLEAN /\ (done => ~loaded /\ (stretch_en => scl))
      /\ loaded' = (st' # st \/ (stretch_en /\ ~scl))
  BY DEF Expiries, Cycle
<1>3. /\ scl' \in BOOLEAN /\ others' \in BOOLEAN
      /\ scl' => scl_o
      /\ scl /\ scl_o => scl'
      /\ others' # others => ~(scl /\ scl')
      /\ st' \in Driving => others'
      /\ scl_q' = scl /\ sda_q' = sda /\ sda_fsm_q' = sda_o
  <2>1. Lines /\ TargetsOnly
    BY DEF OneController, Cycle, Lines
  <2>2. st' \in Driving => transmitting' /\ scl_o'
    BY DEF Driving, transmitting, scl_o, Pulses
  <2> QED
    BY <2>1, <2>2 DEF Lines, TargetsOnly
<1>4. /\ trans_started' = IF trans_started /\ ~host_enable THEN FALSE
                          ELSE (st = "SetupStart" /\ done) \/ (trans_started /\ ~log_stop)
      /\ pend_restart' = IF pend_restart /\ ~host_enable THEN FALSE
                         ELSE req_restart \/ (pend_restart /\ ~(st = "SetupStart" /\ done))
  <2>1. Restart(done)
    BY DEF Cycle
  <2> QED
    BY <1>1, <2>1 DEF Restart
<1>5. read_byte' = IF st = "ReadHoldBit" /\ done /\ bit_index = 0 THEN 0
                   ELSE IF st = "ReadClockPulse" /\ done THEN Shift(read_byte, sda)
                   ELSE read_byte
  <2>1. read_register(done) /\ ~sda_unstable /\ (scl_fell => st \in SclFalls)
    BY Undisturbed DEF Cycle
  <2>2. st = "ReadClockPulse" => (PulseEnds(done) <=> done)
    BY <1>2, <2>1 DEF PulseEnds, Pulses, SclFalls
  <2> QED
    BY <2>1, <2>2 DEF read_register
<1>6. /\ events \subseteq events' /\ events' \subseteq ControllerEvents
      /\ "nack" \in events' => "nack" \in events \/ st = "ClockPulseAck"
  BY DEF Cycle, NewEvents, event_nak, IInv, TypeOK
<1>7. nak_expired' \in BOOLEAN
  BY DEF Cycle, unhandled_nak_cnt
<1>8. fmt' = IF st = "PopFmtFifo" THEN Tail(fmt) ELSE fmt
  BY DEF Cycle, Pop, IInv, Control, Stopping
<1>9. bit_counter(done) /\ byte_counter(done) /\ Observer /\ UNCHANGED <<host_enable, writer>>
  BY DEF Cycle
<1> QED
  BY <1>1, <1>2, <1>3, <1>4, <1>5, <1>6, <1>7, <1>8, <1>9 DEF QuietEdge

------------------------------------------------------------------------------
(* The FMT FIFO.                                                            *)

\* What EntriesAssumption says of one entry.
LEMMA EntryFacts ==
  ASSUME NEW e \in Entries
  PROVE  /\ e.fbyte \in Bytes
         /\ e.start \in BOOLEAN /\ e.stop \in BOOLEAN /\ e.read \in BOOLEAN
         /\ e.rcont \in BOOLEAN /\ e.nakok \in BOOLEAN
         /\ e.read => ~e.start
         /\ e.rcont => e.read /\ ~e.stop
BY EntriesAssumption DEF FmtEntry

\* The entry on top is one of Entries whenever the FSM works on it.
LEMMA TopFacts ==
  ASSUME IInv
  PROVE  /\ fmt # <<>> => Top = Head(fmt) /\ Top \in Entries
         /\ Top.read => ~Top.start
         /\ Top.start \in BOOLEAN /\ Top.stop \in BOOLEAN /\ Top.read \in BOOLEAN
         /\ Top.rcont \in BOOLEAN
         /\ st # "Idle" /\ ~auto_stop => Top \in Entries
<1>1. CASE fmt = <<>>
  BY <1>1 DEF Top, IInv, Control
<1>2. CASE fmt # <<>>
  <2>1. Top = Head(fmt) /\ Head(fmt) \in Entries
    BY <1>2, HeadTailProperties DEF Top, IInv, TypeOK
  <2> QED
    BY <2>1, EntryFacts
<1> QED
  BY <1>1, <1>2

\* SCL comes back as the next state expects it.
LEMMA ClockStep ==
  ASSUME IInv, NEW done \in BOOLEAN, NEW free \in BOOLEAN, QuietEdge(done, free)
  PROVE  Clock'
<1>1. Clock /\ Control /\ TypeOK /\ DataLine /\ (Top.read => ~Top.start)
  BY TopFacts DEF IInv
<1> USE <1>1 DEF QuietEdge, Clock, Control, DataLine, Moves, Timed, Goto, Stay, AutoStopNow,
     Idle, Active, PopFmtFifo, EntryDone, stretch_en, scl_o, log_stop, host_idle, sda, TypeOK, lines,
     SclLow, SclFalls, SclRises, Between, Pulses, Starting, Stopping, WriteBits, WriteAck,
     ReadBits, ReadAck, States
<1>2. CASE st = "Idle"
  BY <1>2
<1>3. CASE st = "Active"
  BY <1>3
<1>4. CASE st = "PopFmtFifo"
  BY <1>4
<1>5. CASE st = "SetupStart"
  BY <1>5
<1>6. CASE st = "HoldStart"
  BY <1>6
<1>7. CASE st = "ClockStart"
  BY <1>7
<1>8. CASE st = "ClockLow"
  BY <1>8
<1>9. CASE st = "ClockPulse"
  BY <1>9
<1>10. CASE st = "HoldBit"
  BY <1>10
<1>11. CASE st = "ClockLowAck"
  BY <1>11
<1>12. CASE st = "ClockPulseAck"
  BY <1>12
<1>13. CASE st = "HoldDevAck"
  BY <1>13
<1>14. CASE st = "ReadClockLow"
  BY <1>14
<1>15. CASE st = "ReadClockPulse"
  BY <1>15
<1>16. CASE st = "ReadHoldBit"
  BY <1>16
<1>17. CASE st = "HostClockLowAck"
  BY <1>17
<1>18. CASE st = "HostClockPulseAck"
  BY <1>18
<1>19. CASE st = "HostHoldBitAck"
  BY <1>19
<1>20. CASE st = "ClockStop"
  BY <1>20
<1>21. CASE st = "SetupStop"
  BY <1>21
<1>22. CASE st = "HoldStop"
  BY <1>22
<1> QED
  BY <1>1, <1>2, <1>3, <1>4, <1>5, <1>6, <1>7, <1>8, <1>9, <1>10, <1>11, <1>12, <1>13, <1>14, <1>15, <1>16, <1>17, <1>18, <1>19, <1>20, <1>21, <1>22

\* What PopFmtFifo leaves: an entry with STOP is followed by one with START.
LEMMA PopLeaves ==
  ASSUME IInv, st = "PopFmtFifo", fmt' = Tail(fmt), writer' = writer
  PROVE  /\ fmt' \in Seq(Entries) /\ Len(fmt') <= FmtFifoDepth
         /\ fmt' = <<>> <=> Len(fmt) = 1
         /\ Top.stop => (IF fmt' = <<>> THEN writer' = "start" ELSE Top'.start)
         /\ Sequence'
<1>1. fmt \in Seq(Entries) /\ Len(fmt) <= FmtFifoDepth /\ fmt # <<>> /\ Sequence
  BY DEF IInv, TypeOK, Control, Stopping
<1>2. /\ Len(fmt) \in Nat /\ Len(fmt) >= 1
      /\ fmt' \in Seq(Entries) /\ Len(fmt') = Len(fmt) - 1
      /\ \A i \in 1 .. Len(fmt') : fmt'[i] = fmt[i + 1]
      /\ Head(fmt) = fmt[1]
  BY <1>1, EmptySeq, HeadTailProperties
<1>3. fmt' = <<>> <=> Len(fmt) = 1
  <2>1. fmt' = <<>> => Len(fmt') = 0
    BY EmptySeq
  <2>2. fmt' # <<>> => Len(fmt') \in Nat /\ Len(fmt') # 0
    BY <1>2, EmptySeq
  <2> QED
    BY <1>2, <2>1, <2>2
<1>4. Top = fmt[1] /\ (fmt' # <<>> => Top' = fmt'[1])
  <2>1. fmt' # <<>> => Head(fmt') = fmt'[1]
    BY <1>2, HeadTailProperties
  <2> QED
    BY <1>1, <1>2, <2>1 DEF Top
<1>5. fmt' # <<>> => 1 \in 1 .. Len(fmt') /\ 1 \in 1 .. Len(fmt) - 1 /\ fmt'[1] = fmt[2]
  BY <1>2, <1>3
<1>6. Top.stop => (IF fmt' = <<>> THEN writer' = "start" ELSE Top'.start)
  BY <1>1, <1>3, <1>4, <1>5 DEF Sequence
<1>7. Sequence'
  <2>1. ASSUME NEW i \in 1 .. Len(fmt') - 1, fmt'[i].stop
        PROVE  fmt'[i + 1].start
    <3>1. i + 1 \in 1 .. Len(fmt) - 1 /\ i \in 1 .. Len(fmt') /\ i + 1 \in 1 .. Len(fmt')
      BY <1>2
    <3>2. fmt'[i] = fmt[i + 1] /\ fmt'[i + 1] = fmt[(i + 1) + 1]
      BY <1>2, <3>1
    <3> QED
      BY <1>1, <2>1, <3>1, <3>2 DEF Sequence
  <2>2. fmt' # <<>> => fmt'[Len(fmt')] = fmt[Len(fmt)]
    BY <1>2, <1>3
  <2> QED
    BY <1>1, <2>1, <2>2 DEF Sequence
<1>8. Len(fmt') <= FmtFifoDepth
  BY <1>1, <1>2, DepthAssumption
<1> QED
  BY <1>2, <1>3, <1>6, <1>7, <1>8

\* The entry on top depends on the FMT FIFO only.
LEMMA TopStays ==
  ASSUME fmt' = fmt
  PROVE  Top' = Top /\ byte_num' = byte_num
BY DEF Top, byte_num

\* An edge leaves the order of the entries in the FMT FIFO alone.
LEMMA SequenceStep ==
  ASSUME IInv, NEW done \in BOOLEAN, NEW free \in BOOLEAN, QuietEdge(done, free)
  PROVE  Sequence' /\ fmt' \in Seq(Entries) /\ Len(fmt') <= FmtFifoDepth
<1>1. CASE st = "PopFmtFifo"
  BY <1>1, PopLeaves DEF QuietEdge
<1>2. CASE st # "PopFmtFifo"
  BY <1>2 DEF QuietEdge, Sequence, IInv, TypeOK
<1> QED
  BY <1>1, <1>2

\* An edge leads to a state that agrees with the entry on top and the registers.
LEMMA ControlStep ==
  ASSUME IInv, NEW done \in BOOLEAN, NEW free \in BOOLEAN, QuietEdge(done, free)
  PROVE  Control'
<1>1. Clock /\ Control /\ Halting /\ TypeOK /\ DataLine /\ (Top.read => ~Top.start)
  BY TopFacts DEF IInv
<1>2. st # "PopFmtFifo" => fmt' = fmt /\ Top' = Top
  BY TopStays DEF QuietEdge
<1>3. st = "PopFmtFifo" =>
        /\ fmt' = <<>> <=> Len(fmt) = 1
        /\ Top.stop => (IF fmt' = <<>> THEN writer' = "start" ELSE Top'.start)
  BY PopLeaves DEF QuietEdge
<1> USE <1>1, <1>2 DEF QuietEdge, Clock, Control, Halting, DataLine, Moves, Timed, Goto, Stay, AutoStopNow,
     Idle, Active, PopFmtFifo, EntryDone, log_stop, host_idle, sda, TypeOK, lines, halt_controller,
     SclLow, SclFalls, SclRises, Between, Pulses, Starting, Stopping, WriteBits, WriteAck,
     ReadBits, ReadAck, States, Resumable, req_restart, unhandled_nak
<1>4. CASE st = "Idle"
  BY <1>4, <1>3
<1>5. CASE st = "Active"
  BY <1>5, <1>3
<1>6. CASE st = "PopFmtFifo"
  BY <1>6, <1>3
<1>7. CASE st = "SetupStart"
  BY <1>7, <1>3
<1>8. CASE st = "HoldStart"
  BY <1>8, <1>3
<1>9. CASE st = "ClockStart"
  BY <1>9, <1>3
<1>10. CASE st = "ClockLow"
  BY <1>10, <1>3
<1>11. CASE st = "ClockPulse"
  BY <1>11, <1>3
<1>12. CASE st = "HoldBit"
  BY <1>12, <1>3
<1>13. CASE st = "ClockLowAck"
  BY <1>13, <1>3
<1>14. CASE st = "ClockPulseAck"
  BY <1>14, <1>3
<1>15. CASE st = "HoldDevAck"
  BY <1>15, <1>3
<1>16. CASE st = "ReadClockLow"
  BY <1>16, <1>3
<1>17. CASE st = "ReadClockPulse"
  BY <1>17, <1>3
<1>18. CASE st = "ReadHoldBit"
  BY <1>18, <1>3
<1>19. CASE st = "HostClockLowAck"
  BY <1>19, <1>3
<1>20. CASE st = "HostClockPulseAck"
  BY <1>20, <1>3
<1>21. CASE st = "HostHoldBitAck"
  BY <1>21, <1>3
<1>22. CASE st = "ClockStop"
  BY <1>22, <1>3
<1>23. CASE st = "SetupStop"
  BY <1>23, <1>3
<1>24. CASE st = "HoldStop"
  BY <1>24, <1>3
<1> QED
  BY <1>1, <1>4, <1>5, <1>6, <1>7, <1>8, <1>9, <1>10, <1>11, <1>12, <1>13, <1>14, <1>15, <1>16, <1>17, <1>18, <1>19, <1>20, <1>21, <1>22, <1>23, <1>24

\* A NACK arises in ClockPulseAck, and leads from there to Idle only.
LEMMA HaltingStep ==
  ASSUME IInv, NEW done \in BOOLEAN, NEW free \in BOOLEAN, QuietEdge(done, free)
  PROVE  Halting'
<1>1. Control /\ Halting /\ TypeOK
  BY DEF IInv
<1> USE <1>1 DEF QuietEdge, Control, Halting, Moves, Timed, Goto, Stay, AutoStopNow,
     Idle, Active, PopFmtFifo, EntryDone, TypeOK, halt_controller, Stopping, States, unhandled_nak, Pulses
<1>2. CASE st = "Idle"
  BY <1>2
<1>3. CASE st = "Active"
  BY <1>3
<1>4. CASE st = "PopFmtFifo"
  BY <1>4
<1>5. CASE st = "SetupStart"
  BY <1>5
<1>6. CASE st = "HoldStart"
  BY <1>6
<1>7. CASE st = "ClockStart"
  BY <1>7
<1>8. CASE st = "ClockLow"
  BY <1>8
<1>9. CASE st = "ClockPulse"
  BY <1>9
<1>10. CASE st = "HoldBit"
  BY <1>10
<1>11. CASE st = "ClockLowAck"
  BY <1>11
<1>12. CASE st = "ClockPulseAck"
  BY <1>12
<1>13. CASE st = "HoldDevAck"
  BY <1>13
<1>14. CASE st = "ReadClockLow"
  BY <1>14
<1>15. CASE st = "ReadClockPulse"
  BY <1>15
<1>16. CASE st = "ReadHoldBit"
  BY <1>16
<1>17. CASE st = "HostClockLowAck"
  BY <1>17
<1>18. CASE st = "HostClockPulseAck"
  BY <1>18
<1>19. CASE st = "HostHoldBitAck"
  BY <1>19
<1>20. CASE st = "ClockStop"
  BY <1>20
<1>21. CASE st = "SetupStop"
  BY <1>21
<1>22. CASE st = "HoldStop"
  BY <1>22
<1> QED
  BY <1>1, <1>2, <1>3, <1>4, <1>5, <1>6, <1>7, <1>8, <1>9, <1>10, <1>11, <1>12, <1>13, <1>14, <1>15, <1>16, <1>17, <1>18, <1>19, <1>20, <1>21, <1>22

\* The values the FSM puts on SDA do not change while it waits.
LEMMA DataStays ==
  ASSUME st # "PopFmtFifo", fmt' = fmt
  PROVE  /\ bit_index' = bit_index => fmt_bit' = fmt_bit
         /\ byte_index' = byte_index => host_nack' = host_nack
         /\ Top' = Top
BY DEF Top, fmt_bit, host_nack

\* SDA comes back as the next state expects it.
LEMMA DataLineStep ==
  ASSUME IInv, NEW done \in BOOLEAN, NEW free \in BOOLEAN, QuietEdge(done, free)
  PROVE  DataLine'
<1>1. Clock /\ Control /\ TypeOK /\ DataLine /\ (Top.read => ~Top.start)
  BY TopFacts DEF IInv
<1>2. st # "PopFmtFifo" => /\ bit_index' = bit_index => fmt_bit' = fmt_bit
                           /\ byte_index' = byte_index => host_nack' = host_nack
                           /\ Top' = Top
  BY DataStays DEF QuietEdge
<1>3. fmt_bit \in BOOLEAN /\ host_nack \in BOOLEAN /\ fmt_bit' \in BOOLEAN /\ host_nack' \in BOOLEAN
  BY DEF fmt_bit, host_nack
<1> USE <1>1, <1>2, <1>3 DEF QuietEdge, Clock, Control, DataLine, Moves, Timed, Goto, Stay, AutoStopNow,
     Idle, Active, PopFmtFifo, EntryDone, stretch_en, scl_o, sda_o, log_stop, host_idle, sda, TypeOK, lines,
     SclLow, SclFalls, SclRises, Between, Pulses, Starting, Stopping, WriteBits, WriteAck,
     ReadBits, ReadAck, States, Driving, bit_counter, byte_counter, req_restart
<1>4. CASE st = "Idle"
  BY <1>4
<1>5. CASE st = "Active"
  BY <1>5
<1>6. CASE st = "PopFmtFifo"
  BY <1>6
<1>7. CASE st = "SetupStart"
  BY <1>7
<1>8. CASE st = "HoldStart"
  BY <1>8
<1>9. CASE st = "ClockStart"
  BY <1>9
<1>10. CASE st = "ClockLow"
  BY <1>10
<1>11. CASE st = "ClockPulse"
  BY <1>11
<1>12. CASE st = "HoldBit"
  BY <1>12
<1>13. CASE st = "ClockLowAck"
  BY <1>13
<1>14. CASE st = "ClockPulseAck"
  BY <1>14
<1>15. CASE st = "HoldDevAck"
  BY <1>15
<1>16. CASE st = "ReadClockLow"
  BY <1>16
<1>17. CASE st = "ReadClockPulse"
  BY <1>17
<1>18. CASE st = "ReadHoldBit"
  BY <1>18
<1>19. CASE st = "HostClockLowAck"
  BY <1>19
<1>20. CASE st = "HostClockPulseAck"
  BY <1>20
<1>21. CASE st = "HostHoldBitAck"
  BY <1>21
<1>22. CASE st = "ClockStop"
  BY <1>22
<1>23. CASE st = "SetupStop"
  BY <1>23
<1>24. CASE st = "HoldStop"
  BY <1>24
<1> QED
  BY <1>1, <1>4, <1>5, <1>6, <1>7, <1>8, <1>9, <1>10, <1>11, <1>12, <1>13, <1>14, <1>15, <1>16, <1>17, <1>18, <1>19, <1>20, <1>21, <1>22, <1>23, <1>24

\* The observer's open and symbol follow the states.
LEMMA SeenStep ==
  ASSUME IInv, NEW done \in BOOLEAN, NEW free \in BOOLEAN, QuietEdge(done, free)
  PROVE  Seen'
<1>1. Clock /\ Control /\ TypeOK /\ DataLine /\ Seen /\ (Top.read => ~Top.start)
  BY TopFacts DEF IInv
<1> USE <1>1 DEF QuietEdge, Clock, Control, DataLine, Seen, Moves, Timed, Goto, Stay, AutoStopNow,
     Idle, Active, PopFmtFifo, EntryDone, stretch_en, scl_o, log_stop, host_idle, sda, TypeOK, lines,
     SclLow, SclFalls, SclRises, Between, Pulses, Starting, Stopping, WriteBits, WriteAck,
     ReadBits, ReadAck, States, Driving, Observer, StartSeen, StopSeen
<1>2. CASE st = "Idle"
  BY <1>2
<1>3. CASE st = "Active"
  BY <1>3
<1>4. CASE st = "PopFmtFifo"
  BY <1>4
<1>5. CASE st = "SetupStart"
  BY <1>5
<1>6. CASE st = "HoldStart"
  BY <1>6
<1>7. CASE st = "ClockStart"
  BY <1>7
<1>8. CASE st = "ClockLow"
  BY <1>8
<1>9. CASE st = "ClockPulse"
  BY <1>9
<1>10. CASE st = "HoldBit"
  BY <1>10
<1>11. CASE st = "ClockLowAck"
  BY <1>11
<1>12. CASE st = "ClockPulseAck"
  BY <1>12
<1>13. CASE st = "HoldDevAck"
  BY <1>13
<1>14. CASE st = "ReadClockLow"
  BY <1>14
<1>15. CASE st = "ReadClockPulse"
  BY <1>15
<1>16. CASE st = "ReadHoldBit"
  BY <1>16
<1>17. CASE st = "HostClockLowAck"
  BY <1>17
<1>18. CASE st = "HostClockPulseAck"
  BY <1>18
<1>19. CASE st = "HostHoldBitAck"
  BY <1>19
<1>20. CASE st = "ClockStop"
  BY <1>20
<1>21. CASE st = "SetupStop"
  BY <1>21
<1>22. CASE st = "HoldStop"
  BY <1>22
<1> QED
  BY <1>1, <1>2, <1>3, <1>4, <1>5, <1>6, <1>7, <1>8, <1>9, <1>10, <1>11, <1>12, <1>13, <1>14, <1>15, <1>16, <1>17, <1>18, <1>19, <1>20, <1>21, <1>22

------------------------------------------------------------------------------
(* Counting.                                                                *)

\* What the observer sees in each state: START and STOP where the controller
\* issues them, and a pulse when SCL falls after it was high.
LEMMA Symbols ==
  ASSUME IInv
  PROVE  /\ StartSeen <=> st = "HoldStart" /\ sda_q /\ ~sda
         /\ StopSeen <=> st = "HoldStop" /\ sda
         /\ PulseSeen <=> st \in SclFalls \ {"ClockStart"} /\ scl_q /\ ~scl
<1>1. Clock /\ TypeOK /\ DataLine /\ Seen
  BY DEF IInv
<1> USE <1>1 DEF Clock, TypeOK, DataLine, Seen, StartSeen, StopSeen, PulseSeen, scl_fell, sda, lines,
      SclLow, SclFalls, SclRises, Between, Pulses, Starting, Stopping, WriteBits, WriteAck,
      ReadBits, ReadAck, States, Driving
<1>2. CASE st = "Idle"
  BY <1>2
<1>3. CASE st = "Active"
  BY <1>3
<1>4. CASE st = "PopFmtFifo"
  BY <1>4
<1>5. CASE st = "SetupStart"
  BY <1>5
<1>6. CASE st = "HoldStart"
  BY <1>6
<1>7. CASE st = "ClockStart"
  BY <1>7
<1>8. CASE st = "ClockLow"
  BY <1>8
<1>9. CASE st = "ClockPulse"
  BY <1>9
<1>10. CASE st = "HoldBit"
  BY <1>10
<1>11. CASE st = "ClockLowAck"
  BY <1>11
<1>12. CASE st = "ClockPulseAck"
  BY <1>12
<1>13. CASE st = "HoldDevAck"
  BY <1>13
<1>14. CASE st = "ReadClockLow"
  BY <1>14
<1>15. CASE st = "ReadClockPulse"
  BY <1>15
<1>16. CASE st = "ReadHoldBit"
  BY <1>16
<1>17. CASE st = "HostClockLowAck"
  BY <1>17
<1>18. CASE st = "HostClockPulseAck"
  BY <1>18
<1>19. CASE st = "HostHoldBitAck"
  BY <1>19
<1>20. CASE st = "ClockStop"
  BY <1>20
<1>21. CASE st = "SetupStop"
  BY <1>21
<1>22. CASE st = "HoldStop"
  BY <1>22
<1> QED
  BY <1>1, <1>2, <1>3, <1>4, <1>5, <1>6, <1>7, <1>8, <1>9, <1>10, <1>11, <1>12, <1>13, <1>14, <1>15, <1>16, <1>17, <1>18, <1>19, <1>20, <1>21, <1>22

\* The observer's count of pulses wraps after the acknowledge bit.
LEMMA NextPulse ==
  ASSUME NEW p \in 0 .. ByteBits
  PROVE  (p + 1) % (ByteBits + 1) = IF p = ByteBits THEN 0 ELSE p + 1
BY ByteAssumption

\* The count of pulses moves when SCL falls in one of the hold states, and only then.
LEMMA PulsesStep ==
  ASSUME IInv, NEW done \in BOOLEAN, NEW free \in BOOLEAN, QuietEdge(done, free)
  PROVE  pulses' = IF st \in SclFalls \ {"ClockStart"} /\ scl_q /\ ~scl
                   THEN IF pulses = ByteBits THEN 0 ELSE pulses + 1
                   ELSE pulses
<1>1. /\ StartSeen <=> st = "HoldStart" /\ sda_q /\ ~sda
      /\ StopSeen <=> st = "HoldStop" /\ sda
      /\ PulseSeen <=> st \in SclFalls \ {"ClockStart"} /\ scl_q /\ ~scl
  BY Symbols
<1>2. pulses' = IF StartSeen \/ StopSeen THEN 0
                ELSE IF PulseSeen THEN (pulses + 1) % (ByteBits + 1) ELSE pulses
  BY DEF QuietEdge, Observer
<1>3. st = "HoldStart" \/ st = "HoldStop" => pulses = 0
  BY DEF IInv, BitCount, Starting, Stopping
<1>4. (pulses + 1) % (ByteBits + 1) = IF pulses = ByteBits THEN 0 ELSE pulses + 1
  BY NextPulse DEF IInv, TypeOK
<1> QED
  BY <1>1, <1>2, <1>3, <1>4 DEF SclFalls

\* bit_index and the pulses on the bus count the same bits.
LEMMA BitCountStep ==
  ASSUME IInv, NEW done \in BOOLEAN, NEW free \in BOOLEAN, QuietEdge(done, free)
  PROVE  BitCount' /\ bit_index' \in 0 .. ByteBits - 1 /\ pulses' \in 0 .. ByteBits
<1>1. Clock /\ Control /\ BitCount /\ bit_index \in 0 .. ByteBits - 1 /\ pulses \in 0 .. ByteBits
  BY DEF IInv, TypeOK
<1>2. pulses' = IF st \in SclFalls \ {"ClockStart"} /\ scl_q /\ ~scl
                THEN IF pulses = ByteBits THEN 0 ELSE pulses + 1
                ELSE pulses
  BY PulsesStep
<1>3. pend_restart' = (req_restart \/ (pend_restart /\ host_enable /\ ~(st = "SetupStart" /\ done)))
  BY DEF QuietEdge, req_restart, Control, IInv, TypeOK
<1>4. /\ Moves(done, free) /\ bit_counter(done) /\ scl_q' = scl
      /\ done => ~loaded
      /\ scl \in BOOLEAN /\ scl_q \in BOOLEAN
  BY DEF QuietEdge, IInv, TypeOK, lines
<1>5. st \in States
  BY DEF IInv, TypeOK
<1> USE ByteAssumption, <1>1, <1>2, <1>3, <1>4 DEF Clock, Control, BitCount, Moves, Timed, Goto, Stay,
     AutoStopNow, Idle, Active, PopFmtFifo, EntryDone, bit_counter, NextBit, req_restart,
     SclLow, SclFalls, SclRises, Between, Pulses, Starting, Stopping, WriteBits, WriteAck,
     ReadBits, ReadAck
<1>6. CASE st = "Idle"
  BY <1>6
<1>7. CASE st = "Active"
  BY <1>7
<1>8. CASE st = "PopFmtFifo"
  BY <1>8
<1>9. CASE st = "SetupStart"
  BY <1>9
<1>10. CASE st = "HoldStart"
  BY <1>10
<1>11. CASE st = "ClockStart"
  BY <1>11
<1>12. CASE st = "ClockLow"
  BY <1>12
<1>13. CASE st = "ClockPulse"
  <2>1. bit_index' = bit_index /\ pulses' = pulses /\ bit_index \in Int
    BY <1>13
  <2>2. CASE done
    <3>1. st' = "HoldBit" /\ scl_q'
      BY <1>13, <2>2
    <3>2. pulses' = ByteBits - 1 - bit_index' + (IF scl_q' THEN 0 ELSE 1)
      BY <1>13, <2>1, <3>1
    <3> QED
      BY <1>13, <2>1, <3>1, <3>2
  <2>3. CASE ~done
    BY <1>13, <2>1, <2>3
  <2> QED
    BY <2>2, <2>3
<1>14. CASE st = "HoldBit"
  BY <1>14
<1>15. CASE st = "ClockLowAck"
  BY <1>15
<1>16. CASE st = "ClockPulseAck"
  BY <1>16
<1>17. CASE st = "HoldDevAck"
  BY <1>17
<1>18. CASE st = "ReadClockLow"
  BY <1>18
<1>19. CASE st = "ReadClockPulse"
  <2>1. bit_index' = bit_index /\ pulses' = pulses /\ bit_index \in Int
    BY <1>19
  <2>2. CASE done
    <3>1. st' = "ReadHoldBit" /\ scl_q'
      BY <1>19, <2>2
    <3>2. pulses' = ByteBits - 1 - bit_index' + (IF scl_q' THEN 0 ELSE 1)
      BY <1>19, <2>1, <3>1
    <3> QED
      BY <1>19, <2>1, <3>1, <3>2
  <2>3. CASE ~done
    BY <1>19, <2>1, <2>3
  <2> QED
    BY <2>2, <2>3
<1>20. CASE st = "ReadHoldBit"
  BY <1>20
<1>21. CASE st = "HostClockLowAck"
  BY <1>21
<1>22. CASE st = "HostClockPulseAck"
  BY <1>22
<1>23. CASE st = "HostHoldBitAck"
  BY <1>23
<1>24. CASE st = "ClockStop"
  BY <1>24
<1>25. CASE st = "SetupStop"
  BY <1>25
<1>26. CASE st = "HoldStop"
  BY <1>26
<1> QED
  BY <1>5, <1>6, <1>7, <1>8, <1>9, <1>10, <1>11, <1>12, <1>13, <1>14, <1>15, <1>16, <1>17, <1>18, <1>19, <1>20, <1>21, <1>22, <1>23, <1>24, <1>25, <1>26 DEF States

\* The byte counters: byte_index does not wrap, and the observer's byte count
\* stays below its cap.
LEMMA ByteIndexStep ==
  ASSUME IInv, NEW done \in BOOLEAN, NEW free \in BOOLEAN, QuietEdge(done, free)
  PROVE  /\ byte_num \in 0 .. 2^ByteBits /\ (Top.read => byte_num >= 1)
         /\ byte_index' \in 0 .. 2^ByteBits
         /\ byte_index' = IF st = "Active" /\ Top.read THEN byte_num
                          ELSE IF st = "HostHoldBitAck" /\ done /\ byte_index # 1
                          THEN byte_index - 1
                          ELSE byte_index
<1>1. 2^ByteBits \in Nat /\ 2^ByteBits >= 1 /\ 2^(ByteBits + 1) = 2 * 2^ByteBits
  BY PowerIsNat, PowerNext, ByteAssumption
<1>2. byte_num \in 0 .. 2^ByteBits /\ (Top.read => byte_num >= 1)
  <2>1. Top.read => Top.fbyte \in Bytes
    BY TopFacts, EntryFacts DEF Top
  <2> QED
    BY <1>1, <2>1 DEF byte_num, Bytes
<1>3. byte_index \in 0 .. 2^ByteBits /\ (st = "HostHoldBitAck" => byte_index \in 1 .. byte_num)
  BY DEF IInv, TypeOK, ByteCount, ReadAck
<1>4. st = "HostHoldBitAck" => (byte_index - 1) % 2^(ByteBits + 1) = byte_index - 1
  <2> SUFFICES ASSUME st = "HostHoldBitAck"
               PROVE  (byte_index - 1) % 2^(ByteBits + 1) = byte_index - 1
    OBVIOUS
  <2> DEFINE d == 2^(ByteBits + 1)
             x == byte_index - 1
  <2>1. d \in Nat /\ d > 0 /\ x \in 0 .. d - 1
    BY <1>1, <1>2, <1>3
  <2>2. (0 * d + x) % d = x
    <3> HIDE DEF d, x
    <3> QED
      BY <2>1, DivUnique
  <2>3. 0 * d + x = x
    BY <2>1
  <2> QED
    BY <2>2, <2>3
<1>5. byte_counter(done)
  BY DEF QuietEdge
<1> QED
  BY <1>1, <1>2, <1>3, <1>4, <1>5 DEF byte_counter

\* byte_index and the bytes on the bus count the same bytes.
LEMMA ByteCountStep ==
  ASSUME IInv, NEW done \in BOOLEAN, NEW free \in BOOLEAN, QuietEdge(done, free)
  PROVE  ByteCount'
<1>1. /\ Clock /\ Control /\ BitCount /\ ByteCount
      /\ byte_index \in 0 .. 2^ByteBits /\ 2^ByteBits \in Nat
      /\ bit_index \in 0 .. ByteBits - 1 /\ scl \in BOOLEAN /\ scl_q \in BOOLEAN
  BY PowerIsNat, ByteAssumption DEF IInv, TypeOK, lines
<1>2. /\ byte_num \in 0 .. 2^ByteBits /\ (Top.read => byte_num >= 1)
      /\ byte_index' = IF st = "Active" /\ Top.read THEN byte_num
                       ELSE IF st = "HostHoldBitAck" /\ done /\ byte_index # 1
                       THEN byte_index - 1
                       ELSE byte_index
  BY ByteIndexStep
<1>3. PulseSeen <=> st \in SclFalls \ {"ClockStart"} /\ scl_q /\ ~scl
  BY Symbols
<1>4. /\ bytes' = IF st = "Active" THEN 0
                  ELSE IF PulseSeen /\ pulses = ByteBits /\ bytes <= 2^ByteBits THEN bytes + 1
                  ELSE bytes
      /\ acked' = IF PulseSeen /\ pulses = ByteBits THEN ~sda_q ELSE acked
  BY DEF QuietEdge, Observer
<1>5. st # "PopFmtFifo" => Top' = Top /\ byte_num' = byte_num
  BY TopStays DEF QuietEdge
<1>6. /\ Moves(done, free) /\ scl_q' = scl /\ (done => ~loaded /\ (stretch_en => scl))
      /\ pend_restart' \in BOOLEAN
  BY DEF QuietEdge, IInv, TypeOK
<1>7. st = "HostHoldBitAck" /\ scl_q => sda_q = host_nack
  BY DEF IInv, DataLine
<1>8. st \in States
  BY DEF IInv, TypeOK
<1> USE ByteAssumption, <1>1, <1>2, <1>3, <1>4, <1>5, <1>6, <1>7
     DEF Clock, Control, BitCount, ByteCount, Moves, Timed, Goto, Stay, host_nack, stretch_en,
     AutoStopNow, Idle, Active, PopFmtFifo, EntryDone, 
     SclLow, SclFalls, SclRises, Between, Pulses, Starting, Stopping, WriteBits, WriteAck,
     ReadBits, ReadAck
<1>9. CASE st = "Idle"
  BY <1>9
<1>10. CASE st = "Active"
  BY <1>10
<1>11. CASE st = "PopFmtFifo"
  BY <1>11
<1>12. CASE st = "SetupStart"
  BY <1>12
<1>13. CASE st = "HoldStart"
  BY <1>13
<1>14. CASE st = "ClockStart"
  BY <1>14
<1>15. CASE st = "ClockLow"
  BY <1>15
<1>16. CASE st = "ClockPulse"
  BY <1>16
<1>17. CASE st = "HoldBit"
  <2>1. ~(PulseSeen /\ pulses = ByteBits)
    BY <1>17
  <2> QED
    BY <1>17, <2>1
<1>18. CASE st = "ClockLowAck"
  BY <1>18
<1>19. CASE st = "ClockPulseAck"
  BY <1>19
<1>20. CASE st = "HoldDevAck"
  BY <1>20
<1>21. CASE st = "ReadClockLow"
  BY <1>21
<1>22. CASE st = "ReadClockPulse"
  BY <1>22
<1>23. CASE st = "ReadHoldBit"
  <2>1. ~(PulseSeen /\ pulses = ByteBits)
    BY <1>23
  <2> QED
    BY <1>23, <2>1
<1>24. CASE st = "HostClockLowAck"
  BY <1>24
<1>25. CASE st = "HostClockPulseAck"
  BY <1>25
<1>26. CASE st = "HostHoldBitAck"
  <2>1. PulseSeen => pulses = ByteBits /\ bytes <= 2^ByteBits
    BY <1>26
  <2>2. bytes' = byte_num - byte_index + (IF scl_q' THEN 0 ELSE 1)
    BY <1>26, <2>1
  <2>3. ~scl_q' => acked' = ~host_nack
    BY <1>26, <2>1
  <2>4. CASE done
    <3>1. ~scl_q'
      BY <1>26, <2>4
    <3>2. CASE byte_index = 1
      <4>1. st' \in {"ClockStop", "PopFmtFifo"} /\ Top' = Top /\ byte_num' = byte_num
            /\ byte_index' = byte_index /\ Top.read
        BY <1>26, <2>4, <3>2
      <4>2. bytes' = byte_num'
        BY <2>2, <3>1, <3>2, <4>1
      <4>3. acked' = Top'.rcont
        BY <2>3, <3>1, <3>2, <4>1, TopFacts
      <4> QED
        BY ONLY <4>1, <4>2, <4>3 DEF ByteCount, Starting, WriteBits, WriteAck, ReadBits, ReadAck, Stopping
    <3>3. CASE byte_index # 1
      BY <1>26, <2>2, <2>4, <3>1, <3>3
    <3> QED
      BY <3>2, <3>3
  <2>5. CASE ~done
    BY <1>26, <2>2, <2>3, <2>5
  <2> QED
    BY <2>4, <2>5
<1>27. CASE st = "ClockStop"
  BY <1>27
<1>28. CASE st = "SetupStop"
  BY <1>28
<1>29. CASE st = "HoldStop"
  BY <1>29
<1> QED
  BY <1>8, <1>9, <1>10, <1>11, <1>12, <1>13, <1>14, <1>15, <1>16, <1>17, <1>18, <1>19, <1>20, <1>21, <1>22, <1>23, <1>24, <1>25, <1>26, <1>27, <1>28, <1>29 DEF States

\* What the observer puts into its word, bit by bit.
LEMMA WordStep ==
  ASSUME IInv, NEW done \in BOOLEAN, NEW free \in BOOLEAN, QuietEdge(done, free)
  PROVE  /\ word' = IF st \in {"HoldBit", "ReadHoldBit"} /\ scl_q /\ ~scl
                    THEN Shift(word, sda_q) ELSE word
         /\ word' \in Bytes
<1>1. PulseSeen <=> st \in SclFalls \ {"ClockStart"} /\ scl_q /\ ~scl
  BY Symbols
<1>2. word' = IF PulseSeen /\ pulses < ByteBits THEN Shift(word, sda_q) ELSE word
  BY DEF QuietEdge, Observer
<1>3. /\ st \in {"HoldBit", "ReadHoldBit"} /\ scl_q => pulses < ByteBits
      /\ st \in {"HoldDevAck", "HostHoldBitAck"} /\ scl_q => pulses = ByteBits
  BY ByteAssumption DEF IInv, TypeOK, BitCount
<1>4. word' = IF st \in {"HoldBit", "ReadHoldBit"} /\ scl_q /\ ~scl
              THEN Shift(word, sda_q) ELSE word
  BY <1>1, <1>2, <1>3, ByteAssumption DEF SclFalls
<1>5. word \in Bytes /\ sda_q \in BOOLEAN /\ 0 \in 0 .. ByteBits - 1
  BY ByteAssumption DEF IInv, TypeOK, lines
<1>6. Shift(word, sda_q) \in Bytes
  BY <1>5, ShiftBits
<1> QED
  BY <1>4, <1>5, <1>6

\* A bit written: the word ends with the bits of the byte sent so far.
LEMMA WriteBit ==
  ASSUME IInv, NEW done \in BOOLEAN, NEW free \in BOOLEAN, QuietEdge(done, free),
         st = "HoldBit"
  PROVE  word' % 2^pulses' = Top.fbyte \div 2^(ByteBits - pulses')
<1>1. /\ word \in Bytes /\ sda_q \in BOOLEAN /\ bit_index \in 0 .. ByteBits - 1
      /\ Top.fbyte \in Bytes /\ (scl_q => sda_q = fmt_bit)
      /\ pulses = ByteBits - 1 - bit_index + (IF scl_q THEN 0 ELSE 1)
      /\ word % 2^pulses = Top.fbyte \div 2^(ByteBits - pulses)
  <2>1. Top \in Entries
    BY TopFacts DEF IInv, Control, Stopping
  <2> QED
    BY <2>1, EntryFacts DEF IInv, TypeOK, lines, DataLine, BitCount, WordCount, WriteBits
<1>2. /\ word' = IF scl_q /\ ~scl THEN Shift(word, sda_q) ELSE word
      /\ pulses' = IF scl_q /\ ~scl THEN (IF pulses = ByteBits THEN 0 ELSE pulses + 1) ELSE pulses
  BY WordStep, PulsesStep DEF SclFalls
<1>3. CASE ~(scl_q /\ ~scl)
  BY <1>1, <1>2, <1>3
<1>4. CASE scl_q /\ ~scl
  <2>1. /\ pulses \in 0 .. ByteBits - 1 /\ pulses' = pulses + 1
        /\ ByteBits - pulses = bit_index + 1 /\ ByteBits - (pulses + 1) = bit_index
    BY <1>1, <1>2, <1>4, ByteAssumption
  <2>2. word' % 2^(pulses + 1) = 2 * (word % 2^pulses) + Bit(fmt_bit)
    BY <1>1, <1>2, <1>4, <2>1, ShiftBits
  <2>3. Top.fbyte \div 2^bit_index = 2 * (Top.fbyte \div 2^(bit_index + 1)) + Bit(fmt_bit)
    BY <1>1, ByteBitsOf DEF fmt_bit
  <2> QED
    BY <1>1, <2>1, <2>2, <2>3
<1> QED
  BY <1>3, <1>4

\* A bit read: once SCL fell, read_byte has the bits the observer saw.
LEMMA ReadBit ==
  ASSUME IInv, NEW done \in BOOLEAN, NEW free \in BOOLEAN, QuietEdge(done, free),
         st = "ReadHoldBit", ~scl
  PROVE  read_byte = word' % 2^pulses'
<1>1. /\ word \in Bytes /\ sda_q \in BOOLEAN /\ bit_index \in 0 .. ByteBits - 1
      /\ pulses = ByteBits - 1 - bit_index + (IF scl_q THEN 0 ELSE 1)
      /\ IF scl_q THEN read_byte = (2 * (word % 2^pulses) + Bit(sda_q)) % 2^ByteBits
                  ELSE read_byte = word % 2^pulses
  BY DEF IInv, TypeOK, lines, BitCount, WordCount, ReadBits
<1>2. /\ word' = IF scl_q THEN Shift(word, sda_q) ELSE word
      /\ pulses' = IF scl_q THEN (IF pulses = ByteBits THEN 0 ELSE pulses + 1) ELSE pulses
  BY WordStep, PulsesStep DEF SclFalls
<1>3. CASE ~scl_q
  BY <1>1, <1>2, <1>3
<1>4. CASE scl_q
  <2>1. pulses \in 0 .. ByteBits - 1 /\ pulses' = pulses + 1
    BY <1>1, <1>2, <1>4, ByteAssumption
  <2>2. /\ word' % 2^(pulses + 1) = 2 * (word % 2^pulses) + Bit(sda_q)
        /\ (2 * (word % 2^pulses) + Bit(sda_q)) % 2^ByteBits = 2 * (word % 2^pulses) + Bit(sda_q)
    BY <1>1, <1>2, <1>4, <2>1, ShiftBits
  <2> QED
    BY <1>1, <1>4, <2>1, <2>2
<1> QED
  BY <1>3, <1>4

\* fmt_bit and read_byte are the bits the observer has in its word.
LEMMA WordCountStep ==
  ASSUME IInv, NEW done \in BOOLEAN, NEW free \in BOOLEAN, QuietEdge(done, free)
  PROVE  WordCount' /\ read_byte' \in Bytes
<1>1. /\ Clock /\ Control /\ DataLine /\ BitCount /\ WordCount
      /\ scl \in BOOLEAN /\ scl_q \in BOOLEAN /\ others \in BOOLEAN /\ sda_q \in BOOLEAN
      /\ read_byte \in Bytes /\ word \in Bytes
      /\ (Top.read => ~Top.start)
  BY TopFacts DEF IInv, TypeOK, lines
<1>2. word' = IF st \in {"HoldBit", "ReadHoldBit"} /\ scl_q /\ ~scl
              THEN Shift(word, sda_q) ELSE word
  BY WordStep
<1>3. /\ st = "HoldBit" => word' % 2^pulses' = Top.fbyte \div 2^(ByteBits - pulses')
      /\ st = "ReadHoldBit" /\ ~scl => read_byte = word' % 2^pulses'
  BY WriteBit, ReadBit
<1>4. BitCount' /\ Control' /\ word' \in Bytes
  BY BitCountStep, ControlStep, WordStep
<1>5. st # "PopFmtFifo" => Top' = Top /\ Top.fbyte' = Top.fbyte
  BY TopStays DEF QuietEdge
<1>6. /\ st # "Idle" /\ ~auto_stop => Top.fbyte \in Bytes
      /\ st \notin SclFalls => pulses' = pulses
      /\ st \notin SclFalls => word' = word
      /\ st = "ClockStart" \/ scl => pulses' = pulses
      /\ st = "HostHoldBitAck" /\ ~scl => pulses' = 0
      /\ scl_q' = scl /\ sda_q' = (sda_fsm_q /\ others)
  <2>1. st # "Idle" /\ ~auto_stop => Top \in Entries
    BY TopFacts
  <2> QED
    BY <1>1, <1>2, <2>1, EntryFacts, PulsesStep DEF QuietEdge, sda, SclFalls, BitCount
<1>7. /\ Moves(done, free) /\ (done => ~loaded /\ (stretch_en => scl))
      /\ read_byte' = IF st = "ReadHoldBit" /\ done /\ bit_index = 0 THEN 0
                      ELSE IF st = "ReadClockPulse" /\ done THEN Shift(read_byte, sda)
                      ELSE read_byte
  BY DEF QuietEdge
<1>8. st \in States
  BY DEF IInv, TypeOK
<1>9. /\ word' % 2^ByteBits = word' /\ word' % 2^0 = 0
      /\ Top.fbyte \in Bytes => Top.fbyte \div 2^0 = Top.fbyte /\ Top.fbyte \div 2^ByteBits = 0
      /\ ByteBits - ByteBits = 0 /\ ByteBits - 0 = ByteBits /\ 0 \in Bytes
  <2>1. word' % 2^ByteBits = word' /\ word' % 2^0 = 0
    BY <1>4, WholeByte
  <2>2. Top.fbyte \in Bytes => Top.fbyte \div 2^0 = Top.fbyte /\ Top.fbyte \div 2^ByteBits = 0
    BY WholeByte
  <2>3. ByteBits - ByteBits = 0 /\ ByteBits - 0 = ByteBits /\ 0 \in Bytes
    BY ByteAssumption, PowerIsNat DEF Bytes
  <2> QED
    BY <2>1, <2>2, <2>3
<1>10. read_byte' \in Bytes
  <2>1. sda \in BOOLEAN /\ 0 \in 0 .. ByteBits - 1
    BY ByteAssumption DEF sda, IInv, TypeOK, lines
  <2>2. Shift(read_byte, sda) \in Bytes
    BY <1>1, <2>1, ShiftBits
  <2> QED
    BY <1>1, <1>7, <1>9, <2>2
<1> USE <1>1, <1>2, <1>3, <1>4, <1>5, <1>6, <1>7, <1>9
     DEF Clock, Control, DataLine, BitCount, WordCount, Moves, Timed, Goto, Stay, stretch_en,
     AutoStopNow, Idle, Active, PopFmtFifo, EntryDone, sda,
     SclLow, SclFalls, SclRises, Between, Pulses, Starting, Stopping, WriteBits, WriteAck,
     ReadBits, ReadAck
<1>11. CASE st = "Idle"
  BY <1>11, <1>10
<1>12. CASE st = "Active"
  BY <1>12, <1>10
<1>13. CASE st = "PopFmtFifo"
  BY <1>13, <1>10
<1>14. CASE st = "SetupStart"
  BY <1>14, <1>10
<1>15. CASE st = "HoldStart"
  BY <1>15, <1>10
<1>16. CASE st = "ClockStart"
  BY <1>16, <1>10
<1>17. CASE st = "ClockLow"
  BY <1>17, <1>10
<1>18. CASE st = "ClockPulse"
  BY <1>18, <1>10
<1>19. CASE st = "HoldBit"
  BY <1>19, <1>10
<1>20. CASE st = "ClockLowAck"
  BY <1>20, <1>10
<1>21. CASE st = "ClockPulseAck"
  BY <1>21, <1>10
<1>22. CASE st = "HoldDevAck"
  BY <1>22, <1>10
<1>23. CASE st = "ReadClockLow"
  BY <1>23, <1>10
<1>24. CASE st = "ReadClockPulse"
  BY <1>24, <1>10 DEF Shift
<1>25. CASE st = "ReadHoldBit"
  <2>1. CASE scl
    <3>1. ~done /\ scl_q /\ sda_q = (sda_fsm_q /\ others) /\ st' = st /\ scl_q'
      BY <1>25, <2>1
    <3>2. word' = word /\ pulses' = pulses /\ read_byte' = read_byte /\ sda_q' = sda_q
      BY <1>25, <2>1, <3>1
    <3> QED
      BY <1>25, <2>1, <3>1, <3>2
  <2>2. CASE ~scl /\ st' = "HostClockLowAck"
    BY <1>25, <1>10, <2>2
  <2>3. CASE ~scl /\ st' # "HostClockLowAck"
    BY <1>25, <1>10, <2>3
  <2> QED
    BY <2>1, <2>2, <2>3
<1>26. CASE st = "HostClockLowAck"
  BY <1>26, <1>10
<1>27. CASE st = "HostClockPulseAck"
  BY <1>27, <1>10
<1>28. CASE st = "HostHoldBitAck"
  BY <1>28, <1>10
<1>29. CASE st = "ClockStop"
  BY <1>29, <1>10
<1>30. CASE st = "SetupStop"
  BY <1>30, <1>10
<1>31. CASE st = "HoldStop"
  BY <1>31, <1>10
<1> QED
  BY <1>8, <1>10, <1>11, <1>12, <1>13, <1>14, <1>15, <1>16, <1>17, <1>18, <1>19, <1>20, <1>21, <1>22, <1>23, <1>24, <1>25, <1>26, <1>27, <1>28, <1>29, <1>30, <1>31 DEF States

------------------------------------------------------------------------------
(* The invariant.                                                           *)

\* An edge keeps the types.
LEMMA TypeStep ==
  ASSUME IInv, NEW done \in BOOLEAN, NEW free \in BOOLEAN, QuietEdge(done, free)
  PROVE  TypeOK'
<1>1. TypeOK
  BY DEF IInv
<1>2. st' \in States /\ auto_stop' \in BOOLEAN
  BY <1>1 DEF TypeOK, QuietEdge, Moves, Timed, Goto, Stay, AutoStopNow, Idle, Active, PopFmtFifo,
     EntryDone, States, Pulses
<1>3. /\ loaded' \in BOOLEAN /\ trans_started' \in BOOLEAN /\ pend_restart' \in BOOLEAN
      /\ nak_expired' \in BOOLEAN /\ events' \subseteq ControllerEvents
      /\ host_enable' \in BOOLEAN /\ writer' \in {"start", "any", "read"}
  BY <1>1 DEF TypeOK, QuietEdge, req_restart
<1>4. lines' \in BOOLEAN \X BOOLEAN \X BOOLEAN \X BOOLEAN \X BOOLEAN
  <2>1. sda_o \in BOOLEAN
    BY DEF sda_o, fmt_bit, host_nack
  <2> QED
    BY <1>1, <2>1 DEF TypeOK, QuietEdge, lines, sda
<1>5. open' \in BOOLEAN /\ symbol' \in BOOLEAN /\ acked' \in BOOLEAN
  BY <1>1 DEF TypeOK, QuietEdge, Observer, StartSeen, StopSeen, lines
<1>6. bytes' \in 0 .. 2^ByteBits + 1
  BY <1>1, PowerIsNat, ByteAssumption DEF TypeOK, QuietEdge, Observer
<1>7. /\ fmt' \in Seq(Entries) /\ Len(fmt') <= FmtFifoDepth
      /\ bit_index' \in 0 .. ByteBits - 1 /\ pulses' \in 0 .. ByteBits
      /\ byte_index' \in 0 .. 2^ByteBits
      /\ read_byte' \in Bytes /\ word' \in Bytes
  BY SequenceStep, BitCountStep, ByteIndexStep, WordCountStep, WordStep
<1> QED
  BY <1>2, <1>3, <1>4, <1>5, <1>6, <1>7 DEF TypeOK

\* A clock edge keeps the invariant.
LEMMA EdgeStep ==
  ASSUME OneController, IInv, Edge
  PROVE  IInv'
<1>1. PICK done \in Expiries, free \in BOOLEAN, interf \in Interferences,
           expires \in BOOLEAN, timeout \in Timeouts :
        Cycle(done, free, interf, expires, timeout)
  BY DEF Edge
<1>2. done \in BOOLEAN /\ QuietEdge(done, free)
  BY <1>1, CycleIsQuiet
<1> QED
  BY <1>2, TypeStep, SequenceStep, ControlStep, HaltingStep, ClockStep, DataLineStep, SeenStep,
     BitCountStep, ByteCountStep, WordCountStep DEF IInv

\* Out of reset the invariant holds.
LEMMA InitIInv == Init => IInv
<1> SUFFICES ASSUME Init PROVE IInv
  OBVIOUS
<1>1. /\ 2^ByteBits \in Nat /\ 2^ByteBits >= 1 /\ ByteBits - 1 \in 0 .. ByteBits - 1
      /\ 0 \in 0 .. ByteBits
  BY PowerIsNat, ByteAssumption
<1>2. TypeOK
  <2>1. fmt \in Seq(Entries) /\ Len(fmt) <= FmtFifoDepth
    BY DepthAssumption, EmptySeq DEF Init
  <2>2. /\ bit_index \in 0 .. ByteBits - 1 /\ byte_index \in 0 .. 2^ByteBits
        /\ read_byte \in Bytes /\ word \in Bytes /\ pulses \in 0 .. ByteBits
        /\ bytes \in 0 .. 2^ByteBits + 1
    BY <1>1 DEF Init, Bytes
  <2>3. lines \in BOOLEAN \X BOOLEAN \X BOOLEAN \X BOOLEAN \X BOOLEAN
    BY DEF Init, lines
  <2> QED
    BY <2>1, <2>2, <2>3 DEF Init, TypeOK, States
<1>3. Sequence
  BY EmptySeq DEF Init, Sequence
<1>4. Control /\ Halting /\ Clock /\ DataLine /\ Seen
  BY DEF Init, Control, Halting, Clock, DataLine, Seen, WriteBits, WriteAck, ReadBits, ReadAck,
     Starting, Stopping, SclLow, SclFalls, SclRises, Between, Pulses, Driving,
     halt_controller, unhandled_nak
<1>5. BitCount /\ ByteCount /\ WordCount
  BY DEF Init, BitCount, ByteCount, WordCount, WriteBits, WriteAck, ReadBits, ReadAck,
     Starting, Stopping, Between
<1> QED
  BY <1>2, <1>3, <1>4, <1>5 DEF IInv

\* The parts of the invariant that a write to a register leaves alone.
LEMMA FsmLeftAlone ==
  ASSUME IInv, UNCHANGED <<fsm, fmt, lines, observer>>
  PROVE  /\ Clock' /\ DataLine' /\ Seen' /\ BitCount' /\ ByteCount' /\ WordCount'
         /\ Top' = Top
<1>1. /\ fmt' = fmt /\ Clock /\ DataLine /\ Seen /\ BitCount /\ ByteCount /\ WordCount
      /\ UNCHANGED fsm /\ UNCHANGED lines /\ UNCHANGED observer
  BY DEF IInv
<1>2. Top' = Top /\ byte_num' = byte_num
  BY <1>1, TopStays
<1>3. fmt_bit' = fmt_bit /\ host_nack' = host_nack /\ sda_o' = sda_o
  BY <1>1, <1>2 DEF fsm, fmt_bit, host_nack, sda_o
<1>4. Clock' /\ Seen' /\ BitCount'
  BY <1>1 DEF Clock, Seen, BitCount, fsm, lines, observer
<1>5. DataLine'
  BY <1>1, <1>3 DEF DataLine, fsm, lines
<1>6. ByteCount' /\ WordCount'
  BY <1>1, <1>2, <1>3 DEF ByteCount, WordCount, fsm, lines, observer
<1> QED
  BY <1>2, <1>4, <1>5, <1>6

\* A write to FDATA keeps the invariant: the entry on top stays on top.
LEMMA SwWriteStep ==
  ASSUME IInv, SwWrite
  PROVE  IInv'
<1>1. PICK e \in Entries :
        /\ Len(fmt) < FmtFifoDepth
        /\ writer = "start" => e.start
        /\ fmt' = Append(fmt, e)
        /\ writer' = IF e.rcont THEN "read" ELSE IF e.stop \/ e.read THEN "start" ELSE "any"
  BY DEF SwWrite
<1>2. UNCHANGED <<fsm, events, host_enable, lines, observer>>
  BY DEF SwWrite
<1>3. /\ TypeOK /\ Sequence /\ Control /\ Halting /\ Clock /\ DataLine /\ Seen /\ BitCount
      /\ ByteCount /\ WordCount
  BY DEF IInv
<1>4. /\ Len(fmt) \in Nat /\ fmt' \in Seq(Entries) /\ Len(fmt') = Len(fmt) + 1
      /\ fmt'[Len(fmt) + 1] = e /\ \A i \in 1 .. Len(fmt) : fmt'[i] = fmt[i]
      /\ fmt' # <<>> /\ (fmt = <<>> <=> Len(fmt) = 0)
  BY <1>1, <1>3, EmptySeq DEF TypeOK
<1>5. Top' = IF fmt = <<>> THEN e ELSE Top
  <2>1. Top' = fmt'[1]
    BY <1>4, HeadTailProperties DEF Top
  <2>2. fmt # <<>> => Top = fmt[1]
    BY <1>3, HeadTailProperties DEF Top, TypeOK
  <2> QED
    BY <1>4, <2>1, <2>2
<1>6. TypeOK'
  <2>1. Len(fmt') <= FmtFifoDepth /\ writer' \in {"start", "any", "read"}
    BY <1>1, <1>4, DepthAssumption
  <2> QED
    BY <1>2, <1>3, <1>4, <2>1 DEF TypeOK, fsm, lines, observer
<1>7. Sequence'
  <2>1. ASSUME NEW i \in 1 .. Len(fmt') - 1, fmt'[i].stop
        PROVE  fmt'[i + 1].start
    <3>1. CASE i = Len(fmt)
      BY <1>1, <1>3, <1>4, <2>1, <3>1 DEF Sequence
    <3>2. CASE i # Len(fmt)
      <4>1. i \in 1 .. Len(fmt) - 1 /\ i \in 1 .. Len(fmt) /\ i + 1 \in 1 .. Len(fmt)
        BY <1>4, <3>2
      <4> QED
        BY <1>3, <1>4, <2>1, <4>1 DEF Sequence
    <3> QED
      BY <3>1, <3>2
  <2>2. fmt'[Len(fmt')].stop => writer' = "start"
    BY <1>1, <1>4, EntryFacts
  <2> QED
    BY <2>1, <2>2 DEF Sequence
<1>8. CASE fmt = <<>>
  <2>1. st = "Idle" \/ (auto_stop /\ st \in Stopping)
    BY <1>3, <1>8 DEF Control
  <2>2. Control'
    BY <1>1, <1>2, <1>3, <1>4, <1>5, <1>8, <2>1 DEF Control, Resumable, fsm, Stopping, Starting,
       WriteBits, WriteAck, ReadBits, ReadAck, halt_controller
  <2>3. Halting' /\ Clock' /\ Seen' /\ BitCount'
    BY <1>2, <1>3 DEF Halting, Clock, Seen, BitCount, fsm, lines, observer, unhandled_nak
  <2>4. DataLine'
    BY <1>2, <1>3, <2>1 DEF DataLine, Driving, fsm, lines, Between, Stopping
  <2>5. ByteCount' /\ WordCount'
    BY <1>2, <1>3, <2>1 DEF ByteCount, WordCount, fsm, observer, Starting, Stopping, WriteBits,
       WriteAck, ReadBits, ReadAck
  <2> QED
    BY <1>6, <1>7, <2>2, <2>3, <2>4, <2>5 DEF IInv
<1>9. CASE fmt # <<>>
  <2>1. Top' = Top /\ byte_num' = byte_num /\ fmt_bit' = fmt_bit /\ host_nack' = host_nack
    BY <1>2, <1>5, <1>9 DEF byte_num, fmt_bit, host_nack, fsm
  <2>2. Control'
    BY <1>2, <1>3, <1>4, <1>9, <2>1 DEF Control, Resumable, fsm, halt_controller
  <2>3. Halting' /\ Clock' /\ Seen' /\ BitCount'
    BY <1>2, <1>3 DEF Halting, Clock, Seen, BitCount, fsm, lines, observer, unhandled_nak
  <2>4. DataLine'
    <3>1. sda_o' = sda_o
      BY <1>2, <2>1 DEF sda_o, fsm
    <3> QED
      BY <1>2, <1>3, <2>1, <3>1 DEF DataLine, fsm, lines
  <2>5. ByteCount' /\ WordCount'
    BY <1>2, <1>3, <2>1 DEF ByteCount, WordCount, fsm, observer, lines
  <2> QED
    BY <1>6, <1>7, <2>2, <2>3, <2>4, <2>5 DEF IInv
<1> QED
  BY <1>8, <1>9

\* A reset of the FMT FIFO in Idle keeps it.
LEMMA SwResetStep ==
  ASSUME OneController, IInv, SwReset
  PROVE  IInv'
<1>1. /\ st = "Idle" /\ fmt' = <<>> /\ writer' = "start"
      /\ UNCHANGED <<fsm, events, host_enable, lines, observer>>
  BY DEF SwReset, OneController
<1>2. /\ TypeOK /\ Sequence /\ Control /\ Halting /\ Clock /\ DataLine /\ Seen /\ BitCount
      /\ ByteCount /\ WordCount
  BY DEF IInv
<1>3. TypeOK'
  <2>1. fmt' \in Seq(Entries) /\ Len(fmt') <= FmtFifoDepth
    BY <1>1, EmptySeq, DepthAssumption
  <2> QED
    BY <1>1, <1>2, <2>1 DEF TypeOK, fsm, lines, observer
<1>4. Sequence' /\ Control'
  BY <1>1, <1>2, EmptySeq DEF Sequence, Control, Resumable, fsm, halt_controller, Stopping,
     Starting, WriteBits, WriteAck, ReadBits, ReadAck
<1>5. Halting' /\ Clock' /\ Seen' /\ BitCount'
  BY <1>1, <1>2 DEF Halting, Clock, Seen, BitCount, fsm, lines, observer, unhandled_nak
<1>6. DataLine'
  BY <1>1, <1>2 DEF DataLine, Driving, fsm, lines, Between
<1>7. ByteCount' /\ WordCount'
  BY <1>1, <1>2 DEF ByteCount, WordCount, fsm, observer, Starting, Stopping, WriteBits,
     WriteAck, ReadBits, ReadAck
<1> QED
  BY <1>3, <1>4, <1>5, <1>6, <1>7 DEF IInv

\* So do the writes to CONTROLLER_EVENTS and CTRL.
LEMMA SwRegisterStep ==
  ASSUME OneController, IInv, SwClear \/ SwEnable \/ SwDisable
  PROVE  IInv'
<1>1. /\ st = "Idle" /\ events' \subseteq events /\ host_enable' \in BOOLEAN
      /\ UNCHANGED <<fsm, fmt, lines, writer, observer>>
  BY DEF SwClear, SwEnable, SwDisable, OneController, host_idle, IInv, TypeOK
<1>2. TypeOK /\ Sequence /\ Control /\ Halting
  BY DEF IInv
<1>3. TypeOK' /\ Sequence' /\ Halting'
  BY <1>1, <1>2 DEF TypeOK, Sequence, Halting, fsm, lines, observer, unhandled_nak
<1>4. /\ Clock' /\ DataLine' /\ Seen' /\ BitCount' /\ ByteCount' /\ WordCount'
      /\ Top' = Top
  BY <1>1, FsmLeftAlone
<1>5. Resumable' = Resumable
  BY <1>1, <1>4 DEF Resumable, fsm
<1>6. host_enable' /\ events' = {} => Resumable'
  BY <1>2, <1>5 DEF SwClear, SwEnable, SwDisable, Control, halt_controller
<1>7. Control'
  BY <1>1, <1>2, <1>4, <1>6 DEF Control, fsm, halt_controller, Stopping,
     Starting, WriteBits, WriteAck, ReadBits, ReadAck
<1> QED
  BY <1>3, <1>4, <1>7 DEF IInv

\* And so does a step that changes nothing.
LEMMA StutterStep ==
  ASSUME IInv, UNCHANGED vars
  PROVE  IInv'
<1>1. UNCHANGED <<fsm, fmt, events, host_enable, lines, writer, observer>>
  BY DEF vars
<1>2. TypeOK /\ Sequence /\ Control /\ Halting
  BY DEF IInv
<1>3. TypeOK' /\ Sequence' /\ Halting'
  BY <1>1, <1>2 DEF TypeOK, Sequence, Halting, fsm, lines, observer, unhandled_nak
<1>4. /\ Clock' /\ DataLine' /\ Seen' /\ BitCount' /\ ByteCount' /\ WordCount'
      /\ Top' = Top
  BY <1>1, FsmLeftAlone
<1>5. Control'
  BY <1>1, <1>2, <1>4 DEF Control, Resumable, fsm, halt_controller
<1> QED
  BY <1>3, <1>4, <1>5 DEF IInv

\* The invariant holds: each part of it is about the state machine, the lines as
\* they come back a cycle later and the observer together.
THEOREM ControllerInvariance ==
  ASSUME OneController
  PROVE  Spec => []IInv
<1>1. IInv /\ [Next]_vars => IInv'
  <2> SUFFICES ASSUME IInv, [Next]_vars PROVE IInv'
    OBVIOUS
  <2>1. CASE Edge
    BY <2>1, EdgeStep
  <2>2. CASE SwWrite
    BY <2>2, SwWriteStep
  <2>3. CASE SwReset
    BY <2>3, SwResetStep
  <2>4. CASE SwClear \/ SwEnable \/ SwDisable
    BY <2>4, SwRegisterStep
  <2>5. CASE UNCHANGED vars
    BY <2>5, StutterStep
  <2> QED
    BY <2>1, <2>2, <2>3, <2>4, <2>5 DEF Next
<1> QED
  BY InitIInv, <1>1, PTL DEF Spec

------------------------------------------------------------------------------
(* What follows.                                                            *)

\* An entry leaves the FMT FIFO (PopFmtFifo) after exactly its bytes, with the
\* byte and the acknowledge bit it asks for.
THEOREM EntryServedHolds ==
  ASSUME OneController
  PROVE  Spec => []EntryServed
<1>1. IInv => EntryServed
  BY DEF IInv, EntryServed, BitCount, ByteCount, WordCount, Between
<1> QED
  BY <1>1, ControllerInvariance, PTL

\* In Idle, trans_started is whether the transaction is open on the bus, and no
\* automatic Stop is pending.
THEOREM IdleKnowsBusHolds ==
  ASSUME OneController
  PROVE  Spec => []IdleKnowsBus
<1>1. IInv => IdleKnowsBus
  BY DEF IInv, TypeOK, IdleKnowsBus, Seen, Control, Between, Stopping
<1> QED
  BY <1>1, ControllerInvariance, PTL

\* The byte given to the RX FIFO at the end of ReadHoldBit is the one that was on
\* the bus, whole and before its acknowledge bit.
THEOREM RxIsOnBusHolds ==
  ASSUME OneController
  PROVE  Spec => RxIsOnBus
<1>1. IInv /\ [Next]_vars
        => [st = "ReadHoldBit" /\ st' = "HostClockLowAck"
              => pulses' = ByteBits /\ read_byte = word']_vars
  <2> SUFFICES ASSUME IInv, [Next]_vars, st = "ReadHoldBit", st' = "HostClockLowAck"
               PROVE  pulses' = ByteBits /\ read_byte = word'
    OBVIOUS
  <2>1. Edge
    BY DEF Next, SwWrite, SwReset, SwClear, SwEnable, SwDisable, vars, fsm
  <2>2. PICK done \in BOOLEAN, free \in BOOLEAN : QuietEdge(done, free)
    BY <2>1, CycleIsQuiet DEF Edge
  <2>3. done /\ ~scl
    BY <2>2 DEF QuietEdge, Moves, Timed, Goto, IInv, Clock, SclFalls
  <2>4. BitCount' /\ read_byte = word' % 2^pulses' /\ word' \in Bytes
    BY <2>2, <2>3, BitCountStep, ReadBit, WordStep
  <2>5. pulses' = ByteBits
    BY <2>4 DEF BitCount
  <2> QED
    BY <2>4, <2>5, WholeByte
<1> QED
  BY <1>1, ControllerInvariance, PTL DEF Spec, RxIsOnBus

\* After an unexpected NACK (event_nak) no SCL pulse begins another byte until
\* software clears the event.
THEOREM NackHaltsHolds ==
  ASSUME OneController
  PROVE  Spec => NackHalts
<1>1. IInv /\ [Next]_vars => [unhandled_nak /\ pulses = 0 => pulses' = 0]_vars
  <2> SUFFICES ASSUME IInv, [Next]_vars, unhandled_nak, pulses = 0
               PROVE  pulses' = 0
    OBVIOUS
  <2>1. CASE Edge
    <3>1. PICK done \in BOOLEAN, free \in BOOLEAN : QuietEdge(done, free)
      BY <2>1, CycleIsQuiet DEF Edge
    <3>2. pulses' = IF st \in SclFalls \ {"ClockStart"} /\ scl_q /\ ~scl
                    THEN IF pulses = ByteBits THEN 0 ELSE pulses + 1
                    ELSE pulses
      BY <3>1, PulsesStep
    <3>3. ~(st \in SclFalls /\ scl_q)
      BY ByteAssumption DEF IInv, Halting, BitCount, SclFalls, Stopping
    <3> QED
      BY <3>2, <3>3
  <2>2. CASE ~Edge
    BY <2>2 DEF Next, SwWrite, SwReset, SwClear, SwEnable, SwDisable, vars, observer
  <2> QED
    BY <2>1, <2>2
<1> QED
  BY <1>1, ControllerInvariance, PTL DEF Spec, NackHalts

\* What the FSM does on the bus is what BusTransaction allows: whole bytes with
\* their acknowledge bit, START and STOP between bytes only.
THEOREM ControllerIsBus ==
  ASSUME OneController
  PROVE  Spec => ImplementsBus
<1>1. Init => Bus!Init
  BY DEF Init, Bus!Init
<1>2. IInv /\ [Next]_vars => [Bus!Next]_Bus!vars
  <2> SUFFICES ASSUME IInv, [Next]_vars PROVE [Bus!Next]_Bus!vars
    OBVIOUS
  <2>1. CASE Edge
    <3>1. PICK done \in BOOLEAN, free \in BOOLEAN : QuietEdge(done, free)
      BY <2>1, CycleIsQuiet DEF Edge
    <3>2. /\ open' = (StartSeen \/ (open /\ ~StopSeen))
          /\ pulses' = IF StartSeen \/ StopSeen THEN 0
                       ELSE IF PulseSeen THEN (pulses + 1) % (ByteBits + 1) ELSE pulses
      BY <3>1 DEF QuietEdge, Observer
    <3>3. open \in BOOLEAN
      BY DEF IInv, TypeOK
    <3>4. CASE StartSeen
      <4>1. pulses = 0
        BY <3>4, Symbols DEF IInv, BitCount, Starting
      <4> QED
        BY <3>2, <3>4, <4>1 DEF Bus!Next, Bus!Start
    <3>5. CASE StopSeen
      <4>1. pulses = 0 /\ open /\ ~StartSeen
        BY <3>5, Symbols DEF IInv, BitCount, Stopping, Seen, Between
      <4> QED
        BY <3>2, <3>5, <4>1 DEF Bus!Next, Bus!Stop
    <3>6. CASE PulseSeen /\ ~StartSeen /\ ~StopSeen
      <4>1. open
        BY <3>6 DEF PulseSeen
      <4> QED
        BY <3>2, <3>3, <3>6, <4>1 DEF Bus!Next, Bus!Bit
    <3>7. CASE ~StartSeen /\ ~StopSeen /\ ~PulseSeen
      BY <3>2, <3>3, <3>7 DEF Bus!vars
    <3> QED
      BY <3>4, <3>5, <3>6, <3>7
  <2>2. CASE ~Edge
    BY <2>2 DEF Next, SwWrite, SwReset, SwClear, SwEnable, SwDisable, vars, observer, Bus!vars
  <2> QED
    BY <2>1, <2>2
<1> QED
  BY <1>1, <1>2, ControllerInvariance, PTL DEF Spec, ImplementsBus, Bus!Spec

------------------------------------------------------------------------------
(* The type invariant needs no hypothesis: other controllers, a host that is *)
(* disabled and hasty software included.                                     *)

TInv == TypeOK /\ (st \in ReadBits \cup ReadAck => byte_index >= 1)

\* byte_index has room for a whole byte of bytes, and is counted down from there
\* to 1 only.
LEMMA ByteIndexType ==
  ASSUME TInv, NEW done \in BOOLEAN, byte_counter(done)
  PROVE  /\ byte_index' \in 0 .. 2^ByteBits
         /\ byte_index' = byte_index \/ byte_index' >= 1
<1>1. 2^ByteBits \in Nat /\ 2^ByteBits >= 1 /\ 2^(ByteBits + 1) = 2 * 2^ByteBits
  BY PowerIsNat, PowerNext, ByteAssumption
<1>2. Top.read => byte_num \in 1 .. 2^ByteBits
  <2>1. ASSUME fmt # <<>> PROVE Top.fbyte \in Bytes
    <3>1. Head(fmt) \in Entries
      BY <2>1, HeadTailProperties DEF TInv, TypeOK
    <3> QED
      BY <2>1, <3>1, EntryFacts DEF Top
  <2> QED
    BY <1>1, <2>1 DEF byte_num, Top, Bytes
<1>3. byte_index \in 0 .. 2^ByteBits /\ (st = "HostHoldBitAck" => byte_index >= 1)
  BY DEF TInv, TypeOK, ReadAck
<1>4. CASE st = "HostHoldBitAck" /\ done /\ byte_index # 1
  <2> DEFINE d == 2^(ByteBits + 1)
             x == byte_index - 1
  <2>1. d \in Nat /\ d > 0 /\ x \in 1 .. d - 1 /\ x <= 2^ByteBits
    BY <1>1, <1>3, <1>4
  <2>2. (0 * d + x) % d = x /\ 0 * d + x = x
    <3> HIDE DEF d, x
    <3> QED
      BY <2>1, DivUnique
  <2>3. byte_index' = x % d
    BY <1>4 DEF byte_counter
  <2> HIDE DEF d, x
  <2> QED
    BY <1>1, <2>1, <2>2, <2>3
<1>5. CASE ~(st = "HostHoldBitAck" /\ done /\ byte_index # 1)
  BY <1>1, <1>2, <1>3, <1>5 DEF byte_counter
<1> QED
  BY <1>4, <1>5

\* A clock edge keeps the types, whoever else is on the bus.
LEMMA CycleTypes ==
  ASSUME TInv, NEW done \in Expiries, NEW free \in BOOLEAN, NEW interf \in Interferences,
         NEW expires \in BOOLEAN, NEW timeout \in Timeouts,
         Cycle(done, free, interf, expires, timeout)
  PROVE  TInv'
<1>1. TypeOK /\ done \in BOOLEAN
  BY DEF TInv, Expiries
<1>2. /\ st' \in States /\ auto_stop' \in BOOLEAN
      /\ st' \in ReadBits \cup ReadAck => st \in {"Active"} \cup ReadBits \cup ReadAck
      /\ st = "Active" /\ st' \in ReadBits \cup ReadAck => Top.read
  <2>1. CASE trans_started /\ interf
    BY <1>1, <2>1 DEF Cycle, Goto, TypeOK, States, ReadBits, ReadAck
  <2>2. CASE ~(trans_started /\ interf)
    <3>1. StateStep(done, free)
      BY <2>2 DEF Cycle
    <3>2. ASSUME Pulse(done)
          PROVE  /\ st' \in States /\ auto_stop' \in BOOLEAN
                 /\ st' \in ReadBits \cup ReadAck => st \in ReadBits \cup ReadAck
      BY <1>1, <3>2 DEF Pulse, Timed, Goto, TypeOK, States, Pulses, AfterPulse, ReadBits, ReadAck
    <3>3. CASE st \in Pulses
      BY <3>1, <3>2, <3>3 DEF StateStep, Idle, Active, PopFmtFifo, SetupStart, HoldStart, ClockStart,
         ClockLow, ClockLowAck, ReadClockLow, HostClockLowAck, HoldBit, ReadHoldBit, HoldDevAck,
         HostHoldBitAck, ClockStop, SetupStop, HoldStop, Pulses
    <3>4. CASE st \notin Pulses
      <4> USE <1>1 DEF Timed, Goto, Stay, AutoStopNow, EntryDone, TypeOK, States, Pulses, ReadBits, ReadAck
      <4>1. ~Pulse(done)
        BY <3>4 DEF Pulse
      <4>2. CASE Idle(free) \/ Active \/ PopFmtFifo
        BY <4>2 DEF Idle, Active, PopFmtFifo
      <4>3. CASE SetupStart(done) \/ HoldStart(done) \/ ClockStart(done)
        BY <4>3 DEF SetupStart, HoldStart, ClockStart
      <4>4. CASE ClockLow(done) \/ ClockLowAck(done) \/ HoldBit(done) \/ HoldDevAck(done)
        BY <4>4 DEF ClockLow, ClockLowAck, HoldBit, HoldDevAck
      <4>5. CASE ReadClockLow(done) \/ HostClockLowAck(done) \/ ReadHoldBit(done)
        BY <4>5 DEF ReadClockLow, HostClockLowAck, ReadHoldBit
      <4>6. CASE HostHoldBitAck(done)
        BY <4>6 DEF HostHoldBitAck
      <4>7. CASE ClockStop(done) \/ SetupStop(done) \/ HoldStop
        BY <4>7 DEF ClockStop, SetupStop, HoldStop
      <4> QED
        BY <3>1, <4>1, <4>2, <4>3, <4>4, <4>5, <4>6, <4>7, Zenon DEF StateStep
    <3> QED
      BY <3>3, <3>4
  <2> QED
    BY <2>1, <2>2
<1>3. /\ loaded' \in BOOLEAN /\ trans_started' \in BOOLEAN /\ pend_restart' \in BOOLEAN
      /\ nak_expired' \in BOOLEAN /\ events' \subseteq ControllerEvents
      /\ host_enable' \in BOOLEAN /\ writer' \in {"start", "any", "read"}
  BY <1>1 DEF TypeOK, Cycle, Started, Restart, req_restart, log_start, log_stop, sda, lines,
     unhandled_nak_cnt, NewEvents
<1>4. lines' \in BOOLEAN \X BOOLEAN \X BOOLEAN \X BOOLEAN \X BOOLEAN
  <2>1. sda_o \in BOOLEAN
    BY DEF sda_o, fmt_bit, host_nack
  <2> QED
    BY <1>1, <2>1 DEF TypeOK, Cycle, Lines, lines, sda
<1>5. open' \in BOOLEAN /\ symbol' \in BOOLEAN /\ acked' \in BOOLEAN
  BY <1>1 DEF TypeOK, Cycle, Observer, StartSeen, StopSeen, lines
<1>6. bytes' \in 0 .. 2^ByteBits + 1
  BY <1>1, PowerIsNat, ByteAssumption DEF TypeOK, Cycle, Observer
<1>7. fmt' \in Seq(Entries) /\ Len(fmt') <= FmtFifoDepth
  <2>1. fmt # <<>> => Tail(fmt) \in Seq(Entries) /\ Len(Tail(fmt)) <= FmtFifoDepth
    <3>1. ASSUME fmt # <<>> PROVE Tail(fmt) \in Seq(Entries) /\ Len(Tail(fmt)) = Len(fmt) - 1
      BY <1>1, <3>1, HeadTailProperties DEF TypeOK
    <3> QED
      BY <1>1, <3>1, DepthAssumption DEF TypeOK
  <2> QED
    BY <1>1, <2>1 DEF TypeOK, Cycle, Pop
<1>8. bit_index' \in 0 .. ByteBits - 1
  BY <1>1, ByteAssumption DEF TypeOK, Cycle, bit_counter, NextBit
<1>9. pulses' \in 0 .. ByteBits
  <2>1. (pulses + 1) % (ByteBits + 1) \in 0 .. ByteBits
    BY <1>1, NextPulse, ByteAssumption DEF TypeOK
  <2> QED
    BY <1>1, <2>1, ByteAssumption DEF TypeOK, Cycle, Observer
<1>10. word' \in Bytes /\ read_byte' \in Bytes
  <2>1. /\ word \in Bytes /\ read_byte \in Bytes /\ sda \in BOOLEAN /\ sda_q \in BOOLEAN
        /\ 0 \in 0 .. ByteBits - 1 /\ 0 \in Bytes
    BY <1>1, ByteAssumption, PowerIsNat DEF TypeOK, lines, sda, Bytes
  <2>2. Shift(word, sda_q) \in Bytes /\ Shift(read_byte, sda) \in Bytes
    BY <2>1, ShiftBits
  <2> QED
    BY <2>1, <2>2 DEF Cycle, Observer, read_register
<1>11. byte_counter(done)
  BY DEF Cycle
<1>12. /\ byte_index' \in 0 .. 2^ByteBits
       /\ byte_index' = byte_index \/ byte_index' >= 1
  BY <1>1, <1>11, ByteIndexType
<1>13. st' \in ReadBits \cup ReadAck => byte_index' >= 1
  <2>1. CASE st = "Active" /\ Top.read
    <3>1. byte_index' = byte_num
      BY <1>11, <2>1 DEF byte_counter
    <3>2. byte_num # 0
      BY <2>1, PowerIsNat, ByteAssumption DEF byte_num
    <3> QED
      BY <1>12, <3>1, <3>2, PowerIsNat, ByteAssumption
  <2>2. CASE ~(st = "Active" /\ Top.read)
    BY <1>2, <1>12, <2>2 DEF TInv
  <2> QED
    BY <2>1, <2>2
<1> QED
  BY <1>2, <1>3, <1>4, <1>5, <1>6, <1>7, <1>8, <1>9, <1>10, <1>12, <1>13 DEF TInv, TypeOK

\* The steps of software keep the types.
LEMMA SoftwareTypes ==
  ASSUME TInv, SwWrite \/ SwReset \/ SwClear \/ SwEnable \/ SwDisable \/ UNCHANGED vars
  PROVE  TInv'
<1>1. TypeOK
  BY DEF TInv
<1>2. UNCHANGED <<fsm, lines, observer>>
  BY DEF SwWrite, SwReset, SwClear, SwEnable, SwDisable, vars
<1>3. /\ events' \subseteq ControllerEvents /\ host_enable' \in BOOLEAN
      /\ writer' \in {"start", "any", "read"}
  BY <1>1 DEF TypeOK, SwWrite, SwReset, SwClear, SwEnable, SwDisable, vars
<1>4. fmt' \in Seq(Entries) /\ Len(fmt') <= FmtFifoDepth
  <2>1. CASE SwWrite
    <3>1. PICK e \in Entries : Len(fmt) < FmtFifoDepth /\ fmt' = Append(fmt, e)
      BY <2>1 DEF SwWrite
    <3>2. fmt' \in Seq(Entries) /\ Len(fmt') = Len(fmt) + 1 /\ Len(fmt) \in Nat
      BY <1>1, <3>1 DEF TypeOK
    <3> QED
      BY <3>1, <3>2, DepthAssumption
  <2>2. CASE SwReset
    BY <2>2, EmptySeq, DepthAssumption DEF SwReset
  <2>3. CASE SwClear \/ SwEnable \/ SwDisable \/ UNCHANGED vars
    BY <1>1, <2>3 DEF TypeOK, SwClear, SwEnable, SwDisable, vars
  <2> QED
    BY <2>1, <2>2, <2>3
<1>5. (st \in ReadBits \cup ReadAck => byte_index >= 1)'
  BY <1>2 DEF TInv, fsm
<1> QED
  BY <1>1, <1>2, <1>3, <1>4, <1>5 DEF TInv, TypeOK, fsm, lines, observer

\* Type correctness: byte_index never wraps below 1 nor leaves its width, and the
\* FMT FIFO never holds more than its depth.
THEOREM TypeCorrect == Spec => []TypeOK
<1>1. Init => TInv
  BY InitIInv DEF IInv, TInv, Init, ReadBits, ReadAck
<1>2. TInv /\ [Next]_vars => TInv'
  <2> SUFFICES ASSUME TInv, [Next]_vars PROVE TInv'
    OBVIOUS
  <2>1. CASE Edge
    BY <2>1, CycleTypes DEF Edge
  <2>2. CASE ~Edge
    BY <2>2, SoftwareTypes DEF Next
  <2> QED
    BY <2>1, <2>2
<1>3. TInv => TypeOK
  BY DEF TInv
<1> QED
  BY <1>1, <1>2, <1>3, PTL DEF Spec
==============================================================================
