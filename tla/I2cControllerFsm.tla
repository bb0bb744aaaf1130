--------------------------- MODULE I2cControllerFsm ---------------------------
(****************************************************************************)
(* rtl/i2c_controller_fsm.sv: the controller (host) FSM, which turns the    *)
(* entries of the FMT FIFO into transactions on the bus.  Edge is one clock *)
(* edge.  The FMT FIFO is the sequence I2cFifoAdapter implements; events is *)
(* the register CONTROLLER_EVENTS, which halts the FSM (rtl/i2c_core.sv).   *)
(*                                                                          *)
(* The delays are abstracted: a state that waits for tcount_q lasts at      *)
(* least two cycles and then as long as the step's input done says.  The    *)
(* lines come back one cycle after they were driven.                        *)
(****************************************************************************)
EXTENDS Integers, Sequences

CONSTANTS ByteBits,          \* bits of a byte
          FmtFifoDepth,
          Entries,           \* what software may write to FDATA
          OtherControllers,  \* other devices drive the lines as they like
          BusTimeouts,       \* the bus monitor may report its active timeout
          Disables,          \* ENABLEHOST may be cleared while the FSM is busy
          Hasty              \* software answers an event before the FSM is idle

ASSUME ByteAssumption == ByteBits \in Nat /\ ByteBits >= 1
ASSUME DepthAssumption == FmtFifoDepth \in Nat /\ FmtFifoDepth >= 1
ASSUME SwitchesAssumption ==
  {OtherControllers, BusTimeouts, Disables, Hasty} \subseteq BOOLEAN

Bytes == 0 .. 2^ByteBits - 1
\* FDATA: FBYTE and its flags.
FmtEntry == [fbyte : Bytes, start : BOOLEAN, stop : BOOLEAN, read : BOOLEAN,
             rcont : BOOLEAN, nakok : BOOLEAN]
\* What register descriptions allow: a START precedes a byte written, and only a
\* read that does not stop continues.
ASSUME EntriesAssumption ==
  Entries \subseteq {e \in FmtEntry : (e.read => ~e.start) /\ (e.rcont => e.read /\ ~e.stop)}

ControllerEvents == {"nack", "nack_timeout", "bus_timeout", "arbitration_lost"}

VARIABLES
  st,                        \* state_q
  loaded,                    \* tcount_q was loaded at the last edge
  bit_index, byte_index, read_byte,
  trans_started, pend_restart, auto_stop,
  nak_expired,               \* unhandled_nak_cnt_expired
  fmt,                       \* the FMT FIFO
  events,                    \* CONTROLLER_EVENTS
  host_enable,
  scl, scl_q,                \* scl_i and scl_i_q
  sda_fsm_q, others, sda_q,  \* SDA: sda_o one cycle ago, the other devices, sda_i_q
  writer,                    \* software: what it may write next
  open, symbol, pulses,      \* observer of the bus: a transaction is open; START or
                             \* STOP since SCL rose; SCL pulses of this byte
  word, acked,               \* ... the last bits, and the last acknowledge bit
  bytes                      \* ... bytes transferred since the last entry was popped

fsm == <<st, loaded, bit_index, byte_index, read_byte, trans_started, pend_restart,
         auto_stop, nak_expired>>
lines == <<scl, scl_q, sda_fsm_q, others, sda_q>>
observer == <<open, symbol, pulses, word, acked, bytes>>
vars == <<fsm, fmt, events, host_enable, lines, writer, observer>>

Pulses == {"ClockPulse", "ClockPulseAck", "ReadClockPulse", "HostClockPulseAck"}
States ==
  {"Idle", "Active", "PopFmtFifo", "SetupStart", "HoldStart", "ClockStart", "SetupStop",
   "HoldStop", "ClockStop", "ClockLow", "HoldBit", "ClockLowAck", "HoldDevAck",
   "ReadClockLow", "ReadHoldBit", "HostClockLowAck", "HostHoldBitAck"} \cup Pulses

TypeOK ==
  /\ st \in States /\ loaded \in BOOLEAN
  /\ bit_index \in 0 .. ByteBits - 1
  /\ byte_index \in 0 .. 2^ByteBits
  /\ read_byte \in Bytes
  /\ trans_started \in BOOLEAN /\ pend_restart \in BOOLEAN /\ auto_stop \in BOOLEAN
  /\ nak_expired \in BOOLEAN
  /\ fmt \in Seq(Entries) /\ Len(fmt) <= FmtFifoDepth
  /\ events \subseteq ControllerEvents
  /\ host_enable \in BOOLEAN
  /\ lines \in BOOLEAN \X BOOLEAN \X BOOLEAN \X BOOLEAN \X BOOLEAN
  /\ writer \in {"start", "any", "read"}
  /\ open \in BOOLEAN /\ symbol \in BOOLEAN /\ pulses \in 0 .. ByteBits
  /\ word \in Bytes /\ acked \in BOOLEAN /\ bytes \in 0 .. 2^ByteBits + 1
------------------------------------------------------------------------------
(* Inputs and outputs of the FSM.                                           *)

\* An empty FMT FIFO shows all flags and the byte as 0.
Top == IF fmt # <<>> THEN Head(fmt)
       ELSE [fbyte |-> 0, start |-> FALSE, stop |-> FALSE, read |-> FALSE,
             rcont |-> FALSE, nakok |-> FALSE]

byte_num == IF ~Top.read THEN 0 ELSE IF Top.fbyte = 0 THEN 2^ByteBits ELSE Top.fbyte

sda == sda_fsm_q /\ others
halt_controller == events # {}
unhandled_nak == "nack" \in events
host_idle == st = "Idle" /\ ~trans_started
fmt_bit == (Top.fbyte \div 2^bit_index) % 2 = 1

\* Mutant of host_nack: the last byte is the one with index 0.
host_nack_zero == ~Top.rcont /\ byte_index = 0

\* The controller acknowledges the bytes it reads, except the last one.
host_nack == ~Top.rcont /\ byte_index = 1

scl_o ==
  \/ st \in Pulses \cup {"SetupStart", "HoldStart", "SetupStop", "HoldStop"}
  \/ host_idle
  \/ st = "Active" /\ Top.start /\ ~trans_started
  \/ st = "PopFmtFifo" /\ Top.stop

sda_o ==
  CASE st \in {"HoldStart", "ClockStart", "ClockStop", "SetupStop"} -> FALSE
    [] st = "ClockLow" -> pend_restart \/ fmt_bit
    [] st \in {"ClockPulse", "HoldBit"} -> fmt_bit
    [] st \in {"HostClockLowAck", "HostClockPulseAck", "HostHoldBitAck"} -> host_nack
    [] OTHER -> TRUE

transmitting ==
  st \in {"SetupStart", "HoldStart", "ClockStart", "ClockLow", "ClockPulse", "HoldBit",
          "HostClockLowAck", "HostClockPulseAck", "HostHoldBitAck", "ClockStop", "SetupStop"}

stretch_en == st \in Pulses \cup {"SetupStop"} \/ (st = "SetupStart" /\ trans_started)

scl_fell == scl_q /\ ~scl
sda_unstable == st \in Pulses /\ scl_q /\ scl /\ sda_q # sda

ctrl_symbol_failed ==
  \/ st = "SetupStart" /\ trans_started /\ scl_fell
  \/ st = "SetupStop" /\ scl_fell
  \/ st = "HoldStop" /\ ~sda /\ ~scl

log_start(done) == st = "SetupStart" /\ ~(trans_started /\ scl_fell) /\ done
log_stop == st = "HoldStop" /\ sda

event_nak == st = "ClockPulseAck" /\ ~scl_q /\ scl /\ sda /\ ~Top.nakok

\* controller_sda_interference: SDA is low although the controller, transmitting,
\* released it; reported once the bus had the time to settle.
Interferences == IF transmitting /\ scl /\ sda_fsm_q # sda THEN BOOLEAN ELSE {FALSE}
arbitration_lost(interf) == sda_unstable \/ interf \/ ctrl_symbol_failed

\* tcount_q = 1.  While SCL is being stretched the count is reloaded: THIGH,
\* TSU_STA and TSU_STO are at least 4, so that no stretch is missed.
Waits == States \ {"Idle", "Active", "PopFmtFifo", "HoldStop"}
Expiries == IF st \in Waits /\ ~loaded /\ (stretch_en => scl) THEN BOOLEAN ELSE {FALSE}
------------------------------------------------------------------------------
(* The states.                                                              *)

AutoStopNow(s) == st' = s /\ auto_stop' = TRUE
Goto(s) == st' = s /\ auto_stop' = auto_stop
Stay == Goto(st)

\* Leaves the state for the next one when the count is over.
Timed(done, s) == Goto(IF done THEN s ELSE st)

\* Mutant of Idle: the halt is looked at before the host enable.
IdleHaltFirst(free) ==
  /\ st = "Idle"
  /\ IF halt_controller
     THEN IF trans_started /\ nak_expired THEN AutoStopNow("ClockStop") ELSE Stay
     ELSE IF host_enable
          THEN IF fmt # <<>> /\ (trans_started \/ free) THEN Goto("Active") ELSE Stay
          ELSE IF trans_started THEN AutoStopNow("ClockStop") ELSE Stay

Idle(free) ==
  /\ st = "Idle"
  /\ IF host_enable
     THEN IF halt_controller
          THEN IF trans_started /\ nak_expired THEN AutoStopNow("ClockStop") ELSE Stay
          ELSE IF fmt # <<>> /\ (trans_started \/ free) THEN Goto("Active") ELSE Stay
     ELSE IF trans_started THEN AutoStopNow("ClockStop") ELSE Stay

Active ==
  /\ st = "Active"
  /\ Goto(IF Top.read THEN "ReadClockLow"
          ELSE IF Top.start /\ ~trans_started THEN "SetupStart" ELSE "ClockLow")

\* "SetupStart: SDA and SCL are released"
SetupStart(done) ==
  /\ st = "SetupStart"
  /\ IF (~trans_started /\ ~scl) \/ (trans_started /\ scl_fell)
     THEN Goto("Idle") ELSE Timed(done, "HoldStart")

\* An early falling edge of SCL is clock synchronisation with another controller.
HoldStart(done) == st = "HoldStart" /\ Timed(done \/ scl_fell, "ClockStart")
ClockStart(done) == st = "ClockStart" /\ Timed(done, "ClockLow")

ClockLow(done) ==
  st = "ClockLow" /\ Timed(done, IF pend_restart THEN "SetupStart" ELSE "ClockPulse")
ClockLowAck(done) == st = "ClockLowAck" /\ Timed(done, "ClockPulseAck")
ReadClockLow(done) == st = "ReadClockLow" /\ Timed(done, "ReadClockPulse")
HostClockLowAck(done) == st = "HostClockLowAck" /\ Timed(done, "HostClockPulseAck")

AfterPulse == [ClockPulse |-> "HoldBit", ClockPulseAck |-> "HoldDevAck",
               ReadClockPulse |-> "ReadHoldBit", HostClockPulseAck |-> "HostHoldBitAck"]
PulseEnds(done) == st \in Pulses /\ ~sda_unstable /\ (done \/ scl_fell)
Pulse(done) ==
  /\ st \in Pulses
  /\ IF sda_unstable THEN Goto("Idle") ELSE Timed(done \/ scl_fell, AfterPulse[st])

\* Mutant of HoldBit: the byte ends one bit early.
HoldBitShort(done) ==
  st = "HoldBit" /\ Timed(done, IF bit_index <= 1 THEN "ClockLowAck" ELSE "ClockLow")

HoldBit(done) ==
  st = "HoldBit" /\ Timed(done, IF bit_index = 0 THEN "ClockLowAck" ELSE "ClockLow")
ReadHoldBit(done) ==
  st = "ReadHoldBit" /\ Timed(done, IF bit_index = 0 THEN "HostClockLowAck" ELSE "ReadClockLow")

\* The entry is done: the Stop it asks for, or the next entry.
EntryDone == IF Top.stop THEN "ClockStop" ELSE "PopFmtFifo"
HoldDevAck(done) == st = "HoldDevAck" /\ Timed(done, EntryDone)
HostHoldBitAck(done) ==
  st = "HostHoldBitAck" /\ Timed(done, IF byte_index = 1 THEN EntryDone ELSE "ReadClockLow")

ClockStop(done) == st = "ClockStop" /\ Timed(done, "SetupStop")

SetupStop(done) ==
  /\ st = "SetupStop"
  /\ IF scl_fell THEN Goto("Idle") ELSE Timed(done, "HoldStop")

\* HoldStop lasts until SDA is seen high, or SCL low with it.
HoldStop ==
  /\ st = "HoldStop"
  /\ IF sda \/ ~scl
     THEN /\ auto_stop' = FALSE
          /\ st' = IF ~sda \/ auto_stop THEN "Idle" ELSE "PopFmtFifo"
     ELSE Stay

\* Mutant of PopFmtFifo: a NACK does not stop the next entry.
PopFmtFifoGoesOn ==
  /\ st = "PopFmtFifo"
  /\ IF ~host_enable /\ trans_started THEN AutoStopNow("ClockStop")
     ELSE Goto(IF ~host_enable \/ Len(fmt) = 1 \/ ~trans_started THEN "Idle" ELSE "Active")

PopFmtFifo ==
  /\ st = "PopFmtFifo"
  /\ IF ~host_enable /\ trans_started THEN AutoStopNow("ClockStop")
     ELSE Goto(IF ~host_enable \/ Len(fmt) = 1 \/ unhandled_nak \/ ~trans_started
               THEN "Idle" ELSE "Active")

\* state_d, before arbitration is looked at.
StateStep(done, free) ==
  \/ Idle(free) \/ Active \/ PopFmtFifo
  \/ SetupStart(done) \/ HoldStart(done) \/ ClockStart(done)
  \/ ClockLow(done) \/ ClockLowAck(done) \/ ReadClockLow(done) \/ HostClockLowAck(done)
  \/ Pulse(done) \/ HoldBit(done) \/ ReadHoldBit(done)
  \/ HoldDevAck(done) \/ HostHoldBitAck(done)
  \/ ClockStop(done) \/ SetupStop(done) \/ HoldStop
------------------------------------------------------------------------------
(* The registers beside the state.                                          *)

\* Mutant of NextBit: the index does not wrap.
NextBitNoWrap == bit_index - 1

NextBit == IF bit_index = 0 THEN ByteBits - 1 ELSE bit_index - 1
bit_counter(done) ==
  bit_index' = IF st \in {"HoldBit", "ReadHoldBit"} /\ done THEN NextBit ELSE bit_index

\* byte_index has one bit more than a byte.
byte_counter(done) ==
  byte_index' = IF st = "Active" /\ Top.read THEN byte_num
                ELSE IF st = "HostHoldBitAck" /\ done /\ byte_index # 1
                THEN (byte_index - 1) % 2^(ByteBits + 1)
                ELSE byte_index

Bit(b) == IF b THEN 1 ELSE 0
Shift(w, b) == (2 * w + Bit(b)) % 2^ByteBits

\* Mutant of read_register: SDA is taken at the start of the pulse.
read_register_early(done) ==
  read_byte' = IF st = "ReadHoldBit" /\ done /\ bit_index = 0 THEN 0
               ELSE IF st = "ReadClockPulse" /\ loaded THEN Shift(read_byte, sda)
               ELSE read_byte

read_register(done) ==
  read_byte' = IF st = "ReadHoldBit" /\ done /\ bit_index = 0 THEN 0
               ELSE IF st = "ReadClockPulse" /\ PulseEnds(done) THEN Shift(read_byte, sda)
               ELSE read_byte

\* Mutant of Started: a STOP does not end the transaction.
StartedNoStop(done, interf) ==
  trans_started' =
    IF trans_started /\ (~host_enable \/ arbitration_lost(interf)) THEN FALSE
    ELSE trans_started \/ log_start(done)

\* Whether a transaction of this controller is on the bus.
Started(done, interf) ==
  trans_started' =
    IF trans_started /\ (~host_enable \/ arbitration_lost(interf)) THEN FALSE
    ELSE log_start(done) \/ (trans_started /\ ~log_stop)

req_restart == st = "Active" /\ ~Top.read /\ Top.start /\ trans_started
Restart(done) ==
  pend_restart' =
    IF pend_restart /\ ~host_enable THEN FALSE
    ELSE req_restart \/ (pend_restart /\ ~log_start(done))

\* Mutant of incr_nak_cnt: the time is counted when the FSM is not halted.
incr_nak_cnt_running ==
  unhandled_nak /\ host_enable /\ st # "Idle" /\ "nack_timeout" \notin events

\* HOST_NACK_HANDLER_TIMEOUT.EN is set, or expires is never true.
incr_nak_cnt ==
  unhandled_nak /\ host_enable /\ st = "Idle" /\ "nack_timeout" \notin events
unhandled_nak_cnt(expires) == nak_expired' = (incr_nak_cnt /\ (nak_expired \/ expires))

\* The bits of CONTROLLER_EVENTS set in this cycle.
NewEvents(interf, timeout) ==
  {e \in ControllerEvents :
     \/ e = "nack" /\ event_nak
     \/ e = "nack_timeout" /\ nak_expired
     \/ e = "bus_timeout" /\ timeout
     \/ e = "arbitration_lost" /\ arbitration_lost(interf)}
Timeouts == IF BusTimeouts /\ ~host_idle THEN BOOLEAN ELSE {FALSE}

\* fmt_fifo_rready_o
Pop == fmt' = IF st = "PopFmtFifo" /\ fmt # <<>> THEN Tail(fmt) ELSE fmt
------------------------------------------------------------------------------
(* The bus and its observer.                                                *)

\* Targets stretch SCL while it is low, keep SDA while it stays high, and release
\* SDA for what the controller transmits before it releases SCL.
TargetsOnly ==
  /\ scl /\ scl_o => scl'
  /\ others' # others => ~(scl /\ scl')
  /\ transmitting' /\ scl_o' => others'

Lines ==
  /\ scl' \in BOOLEAN /\ others' \in BOOLEAN
  /\ scl' => scl_o
  /\ ~OtherControllers => TargetsOnly
  /\ scl_q' = scl /\ sda_q' = sda /\ sda_fsm_q' = sda_o

StartSeen == scl_q /\ scl /\ sda_q /\ ~sda
StopSeen == scl_q /\ scl /\ ~sda_q /\ sda
PulseSeen == scl_fell /\ open /\ ~symbol

Observer ==
  /\ open' = (StartSeen \/ (open /\ ~StopSeen))
  /\ symbol' = (StartSeen \/ StopSeen \/ (symbol /\ scl))
  /\ pulses' = IF StartSeen \/ StopSeen THEN 0
               ELSE IF PulseSeen THEN (pulses + 1) % (ByteBits + 1) ELSE pulses
  /\ word' = IF PulseSeen /\ pulses < ByteBits THEN Shift(word, sda_q) ELSE word
  /\ acked' = IF PulseSeen /\ pulses = ByteBits THEN ~sda_q ELSE acked
  /\ bytes' = IF st = "Active" THEN 0
              ELSE IF PulseSeen /\ pulses = ByteBits /\ bytes <= 2^ByteBits THEN bytes + 1
              ELSE bytes

\* One clock edge.  A symbol that could not be issued ends in Idle by itself.
Cycle(done, free, interf, expires, timeout) ==
  /\ IF trans_started /\ interf THEN Goto("Idle") ELSE StateStep(done, free)
  /\ loaded' = (st' # st \/ (stretch_en /\ ~scl))
  /\ bit_counter(done) /\ byte_counter(done) /\ read_register(done)
  /\ Started(done, interf) /\ Restart(done) /\ unhandled_nak_cnt(expires)
  /\ events' = events \cup NewEvents(interf, timeout)
  /\ Pop /\ Lines /\ Observer
  /\ UNCHANGED <<host_enable, writer>>

Edge ==
  \E done \in Expiries, free \in BOOLEAN, interf \in Interferences,
     expires \in BOOLEAN, timeout \in Timeouts :
    Cycle(done, free, interf, expires, timeout)
------------------------------------------------------------------------------
(* Software.                                                                *)

\* Writes FDATA: a transaction begins with a START and ends with a STOP, or the
\* next one begins with a repeated START; a continued read goes on with a read.
SwWrite ==
  /\ Len(fmt) < FmtFifoDepth
  /\ \E e \in Entries :
       /\ writer = "start" => e.start
       /\ writer = "read" => e.read
       /\ fmt' = Append(fmt, e)
       /\ writer' = IF e.rcont THEN "read" ELSE IF e.stop \/ e.read THEN "start" ELSE "any"
  /\ UNCHANGED <<fsm, events, host_enable, lines, observer>>

\* FIFO_CTRL.FMTRST; the next transaction begins with a START.
SwReset ==
  /\ st = "Idle" \/ (Hasty /\ halt_controller)
  /\ fmt' = <<>> /\ writer' = "start"
  /\ UNCHANGED <<fsm, events, host_enable, lines, observer>>

\* No entry would be sent outside a transaction.
Resumable == trans_started \/ (IF fmt = <<>> THEN writer = "start" ELSE Top.start)

\* Clears bits of CONTROLLER_EVENTS, with the FMT FIFO in order.
SwClear ==
  /\ halt_controller
  /\ Resumable /\ (st = "Idle" \/ Hasty)
  /\ events' \in SUBSET events
  /\ UNCHANGED <<fsm, fmt, host_enable, lines, writer, observer>>

SwEnable ==
  /\ ~host_enable /\ host_idle /\ Resumable
  /\ host_enable' = TRUE
  /\ UNCHANGED <<fsm, fmt, events, lines, writer, observer>>

SwDisable ==
  /\ host_enable /\ (st = "Idle" \/ Disables)
  /\ host_enable' = FALSE
  /\ UNCHANGED <<fsm, fmt, events, lines, writer, observer>>

\* Out of reset, on a free bus.
Init ==
  /\ st = "Idle" /\ loaded = FALSE
  /\ bit_index = ByteBits - 1 /\ byte_index = 0 /\ read_byte = 0
  /\ trans_started = FALSE /\ pend_restart = FALSE /\ auto_stop = FALSE
  /\ nak_expired = FALSE
  /\ fmt = <<>> /\ events = {} /\ host_enable = FALSE
  /\ scl = TRUE /\ scl_q = TRUE /\ sda_fsm_q = TRUE /\ others = TRUE /\ sda_q = TRUE
  /\ writer = "start"
  /\ open = FALSE /\ symbol = FALSE /\ pulses = 0 /\ word = 0 /\ acked = FALSE /\ bytes = 0

Next == Edge \/ SwWrite \/ SwReset \/ SwClear \/ SwEnable \/ SwDisable
Spec == Init /\ [][Next]_vars

\* The clock runs, a free bus is seen as free, counts end and so do stretches.
PromptEdge ==
  /\ \E interf \in Interferences, timeout \in Timeouts :
       Cycle(TRUE \in Expiries, TRUE, interf, TRUE, timeout)
  /\ scl' = scl_o
FairSpec == Spec /\ WF_vars(PromptEdge)
------------------------------------------------------------------------------
(* Correctness.                                                             *)

\* What is on the bus: START, whole bytes with their acknowledge bit, and STOP
\* or another START between bytes only.
Bus == INSTANCE BusTransaction
ImplementsBus == Bus!Spec

\* An entry leaves the FMT FIFO when exactly its bytes were transferred, the byte
\* of a write being the one on the bus; a read ends with a NACK unless it continues.
EntryServed ==
  st = "PopFmtFifo" =>
    /\ pulses = 0
    /\ IF Top.read THEN bytes = byte_num /\ acked = Top.rcont
                   ELSE bytes = 1 /\ word = Top.fbyte

\* A byte is given to the RX FIFO after all its bits, and before its acknowledge
\* bit, with the value they had on the bus.
RxIsOnBus ==
  [][st = "ReadHoldBit" /\ st' = "HostClockLowAck"
       => pulses' = ByteBits /\ read_byte = word']_vars

\* In Idle the FSM knows whether its transaction is open: it releases the bus
\* after its STOP only, holds SCL only after its START, and an automatic Stop that
\* is done or was lost to another device is forgotten.
IdleKnowsBus == st = "Idle" => (trans_started <=> open) /\ ~auto_stop

\* After an unexpected NACK no further byte is transferred until software clears
\* the event.
NackHalts == [][unhandled_nak /\ pulses = 0 => pulses' = 0]_vars

\* An unhandled NACK does not keep the bus: the timeout issues a STOP, unless
\* software acts first, or has left an earlier timeout unanswered.
NackTimeoutStops ==
  (unhandled_nak /\ "nack_timeout" \notin events /\ host_enable) ~> (~open \/ ~unhandled_nak)

\* A controller that is disabled while halted gives the bus back.
DisabledReleases == ~host_enable ~> (host_enable \/ (host_idle /\ ~open))
------------------------------------------------------------------------------
(* What comments say and the code does not do.                              *)

\* "If we disable Host-Mode mid-txn, keep counting until the end of byte, at
\* which point we create a STOP condition then return to Idle."
DisabledStops == host_idle /\ ~host_enable => ~open

\* "This was the start of a transaction, but another device beat us to access.
\* Go back to Idle, and wait for the next turn": no transaction was started.
StartedIsStarted == [][~trans_started /\ trans_started' => st' = "HoldStart"]_vars

\* bit_clr: "indicates bit_index must be reset to 7": an entry begins with the
\* first bit of its byte.
StartsAtFirstBit == st = "Active" => bit_index = ByteBits - 1
==============================================================================
