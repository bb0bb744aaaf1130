----------------------------- MODULE I2cBusMonitor -----------------------------
(****************************************************************************)
(* rtl/i2c_bus_monitor.sv: detection of START and STOP, of the bus timeouts *)
(* and of the bus being free.  Edge is one clock edge; scl and sda are the  *)
(* synchronised lines during the cycle before it.  The delays are those     *)
(* software programmed, small enough that no counter overflows.             *)
(****************************************************************************)
EXTENDS Integers

CONSTANTS ThdDat,            \* thd_dat_i
          TBuf,              \* t_buf_i
          ActiveTimeout,     \* bus_active_timeout_i
          ActiveTimeoutEn,   \* bus_active_timeout_en_i
          InactiveTimeout,   \* bus_inactive_timeout_i
          LegalBus,          \* the devices on the bus keep the I2C timing
          None               \* no control symbol

ASSUME DelayAssumption ==
  ThdDat \in Nat /\ TBuf \in Nat /\ ActiveTimeout \in Nat /\ InactiveTimeout \in Nat
ASSUME SwitchAssumption == ActiveTimeoutEn \in BOOLEAN /\ LegalBus \in BOOLEAN
ASSUME NoSymbolAssumption == None \notin {"start", "stop"}

VARIABLES
  scl, sda, scl_q, sda_q,
  side,                      \* controller_enable_i or target_enable_i
  multi,                     \* multi_controller_enable_i
  monitor_enable_q,
  start_pending, stop_pending, det_count,
  release_cnt,               \* bus_release_cnt
  active_det,                \* bus_active_timeout_det_q
  st,                        \* state_q
  symbol, held,              \* history: the last symbol on the bus, and how long SCL stayed high since
  watched,                   \* history: the monitor was enabled since that symbol
  low,                       \* history: for how many cycles SCL was low
  still                      \* history: for how many cycles SCL was high and SDA unchanged

lines == <<scl, sda, scl_q, sda_q>>
switches == <<side, multi>>
monitor == <<monitor_enable_q, start_pending, stop_pending, det_count, release_cnt,
             active_det, st>>
hist == <<symbol, held, watched, low, still>>
vars == <<lines, switches, monitor, hist>>

Larger(a, b) == IF a > b THEN a ELSE b
Lesser(a, b) == IF a < b THEN a ELSE b

\* The cycle, after the trigger, in which a symbol is detected.
Hold == Larger(1, ThdDat)
Longest == Larger(TBuf, InactiveTimeout)     \* bound of still

------------------------------------------------------------------------------
monitor_enable == side \/ multi
EnableEdge == monitor_enable /\ ~monitor_enable_q

start_det_trigger == monitor_enable /\ scl_q /\ scl /\ sda_q /\ ~sda
stop_det_trigger == monitor_enable /\ scl_q /\ scl /\ ~sda_q /\ sda
start_det == monitor_enable /\ start_pending /\ det_count >= ThdDat
stop_det == monitor_enable /\ stop_pending /\ det_count >= ThdDat

bus_idling == scl /\ sda = sda_q
bus_inactive_timeout_en == InactiveTimeout > 0

\* Mutant of Detection: a detection stays pending after it was reported.
DetectionSticky ==
  /\ det_count' = IF start_det_trigger \/ stop_det_trigger THEN 1
                  ELSE IF start_pending \/ stop_pending THEN det_count + 1
                  ELSE det_count
  /\ start_pending' =
       (start_det_trigger \/ (start_pending /\ monitor_enable /\ scl /\ ~stop_det_trigger))
  /\ stop_pending' =
       (stop_det_trigger \/ (stop_pending /\ monitor_enable /\ scl /\ ~start_det_trigger))

\* Mutant of Detection: a new START does not cancel a pending STOP.
DetectionBoth ==
  /\ det_count' = IF start_det_trigger \/ stop_det_trigger THEN 1
                  ELSE IF start_pending \/ stop_pending THEN det_count + 1
                  ELSE det_count
  /\ start_pending' =
       (start_det_trigger
          \/ (start_pending /\ monitor_enable /\ scl /\ ~start_det /\ ~stop_det_trigger))
  /\ stop_pending' =
       (stop_det_trigger \/ (stop_pending /\ monitor_enable /\ scl /\ ~stop_det))

\* Pending detections, and their common counter.
Detection ==
  /\ det_count' = IF start_det_trigger \/ stop_det_trigger THEN 1
                  ELSE IF start_pending \/ stop_pending THEN det_count + 1
                  ELSE det_count
  /\ start_pending' =
       (start_det_trigger
          \/ (start_pending /\ monitor_enable /\ scl /\ ~start_det /\ ~stop_det_trigger))
  /\ stop_pending' =
       (stop_det_trigger
          \/ (stop_pending /\ monitor_enable /\ scl /\ ~stop_det /\ ~start_det_trigger))
------------------------------------------------------------------------------
(* The states of the bus.  Each says where it goes and what it does to the  *)
(* release counter; the other registers follow.                             *)

Load(value) == release_cnt' = value
\* The next state: free whenever the monitor is disabled.
To(s) == st' = IF monitor_enable THEN s ELSE "BusFree"
Keep == release_cnt' = release_cnt
Down == release_cnt' = IF release_cnt > 0 THEN release_cnt - 1 ELSE 0

\* The active timeout expires in this cycle.
ActiveExpires == st = "BusBusyLow" /\ ~stop_det /\ ~scl /\ release_cnt = 1

\* The inactive timeout expires in this cycle.
InactiveExpires ==
  st = "BusBusyHigh" /\ ~stop_det /\ bus_idling /\ release_cnt = 1
bus_inactive_timeout_det == InactiveExpires /\ bus_inactive_timeout_en

active_det_d == IF st = "BusFree" THEN FALSE
                ELSE IF ActiveExpires THEN ActiveTimeoutEn ELSE active_det

BusFree ==
  /\ st = "BusFree"
  /\ IF scl /\ sda THEN To(st) /\ Keep
                   ELSE To("BusBusyLow") /\ Load(ActiveTimeout)

\* A Stop was detected while the bus was busy.
StopDetected ==
  /\ st \in {"BusBusyLow", "BusBusyHigh"} /\ stop_det
  /\ To("BusBusyStop") /\ Load(TBuf)

BusBusyLow ==
  /\ st = "BusBusyLow" /\ ~stop_det
  /\ \/ /\ bus_idling /\ bus_inactive_timeout_en
        /\ To("BusBusyHigh") /\ Load(InactiveTimeout)
     \/ /\ scl /\ ~(bus_idling /\ bus_inactive_timeout_en)
        /\ To(IF active_det THEN "BusFree" ELSE st)
        /\ Load(ActiveTimeout)
     \/ ~scl /\ To(st) /\ Down

\* Mutant of BusBusyHigh: activity does not end the wait for the inactive timeout.
BusBusyHighDeaf ==
  /\ st = "BusBusyHigh" /\ ~stop_det
  /\ To(IF release_cnt = 1 /\ sda THEN "BusFree" ELSE st)
  /\ Down

\* Mutant of BusBusyHigh: the low time is counted from what is left.
BusBusyHighKeep ==
  /\ st = "BusBusyHigh" /\ ~stop_det
  /\ \/ ~bus_idling /\ To("BusBusyLow") /\ Keep
     \/ /\ bus_idling
        /\ To(IF InactiveExpires /\ sda THEN "BusFree" ELSE st)
        /\ Down

BusBusyHigh ==
  /\ st = "BusBusyHigh" /\ ~stop_det
  /\ \/ ~bus_idling /\ To("BusBusyLow") /\ Load(ActiveTimeout)
     \/ /\ bus_idling
        /\ To(IF InactiveExpires /\ sda THEN "BusFree" ELSE st)
        /\ Down

\* Mutant of BusBusyStop: a new Start does not end the wait for t_buf.
BusBusyStopDeaf ==
  /\ st = "BusBusyStop" /\ Down
  /\ To(IF release_cnt = 1 THEN "BusFree" ELSE st)

BusBusyStop ==
  /\ st = "BusBusyStop" /\ Down
  /\ To(IF ~scl \/ ~sda THEN "BusBusyLow"
        ELSE IF release_cnt = 1 THEN "BusFree" ELSE st)

StateStep == BusFree \/ StopDetected \/ BusBusyLow \/ BusBusyHigh \/ BusBusyStop

\* Mutant of Enabled: the time to wait for an idle bus is not loaded.
EnabledNoLoad ==
  EnableEdge /\ Keep /\ st' = IF multi THEN "BusBusyHigh" ELSE "BusFree"

\* The rising edge of monitor_enable starts with a busy bus in multi-controller
\* mode, until it is seen idle, and with a free one otherwise.
Enabled ==
  /\ EnableEdge
  /\ IF multi THEN st' = "BusBusyHigh" /\ Load(InactiveTimeout)
              ELSE st' = "BusFree" /\ Keep

bus_free == IF multi THEN st = "BusFree" ELSE st # "BusBusyStop"
event_bus_active_timeout == active_det_d /\ ~active_det

\* event_host_timeout_o is bus_inactive_timeout_det while the target is not idle.

History ==
  /\ symbol' = IF scl_q /\ scl /\ sda # sda_q THEN (IF sda THEN "stop" ELSE "start")
               ELSE IF scl THEN symbol ELSE None
  /\ held' = IF scl_q /\ scl /\ sda # sda_q THEN 1
             ELSE IF scl THEN Lesser(held + 1, Hold + 2) ELSE 0
  /\ watched' = (monitor_enable /\ ((scl_q /\ scl /\ sda # sda_q) \/ watched))
  /\ low' = IF scl THEN 0 ELSE Lesser(low + 1, ActiveTimeout)
  /\ still' = IF ~scl THEN 0
              ELSE IF sda = sda_q THEN Lesser(still + 1, Longest) ELSE Lesser(1, Longest)

\* On a bus of devices that keep the I2C timing SDA does not change together
\* with SCL, and SCL falls neither between a STOP and the next START nor before
\* the hold time of a START (thd_dat + 1 < thd_sta).
Timing ==
  /\ scl # scl' => sda' = sda
  /\ scl /\ ~scl' => symbol' # "stop" /\ (symbol' = "start" => held' >= ThdDat + 2)

Edge ==
  /\ scl' \in BOOLEAN /\ sda' \in BOOLEAN
  /\ scl_q' = scl /\ sda_q' = sda
  /\ monitor_enable_q' = monitor_enable
  /\ Detection
  /\ Enabled \/ (~EnableEdge /\ StateStep)
  /\ active_det' = active_det_d
  /\ History
  /\ LegalBus => Timing
  /\ UNCHANGED switches

\* Software writes CTRL, whose bits ENABLEHOST, ENABLETARGET and
\* MULTI_CONTROLLER_MONITOR_EN take their new values together.
SwCtrl ==
  /\ side' \in BOOLEAN /\ multi' \in BOOLEAN
  /\ UNCHANGED <<lines, monitor, hist>>

\* Out of reset, with the bus released.
Init ==
  /\ scl = TRUE /\ sda = TRUE /\ scl_q = TRUE /\ sda_q = TRUE
  /\ side = FALSE /\ multi = FALSE /\ monitor_enable_q = FALSE
  /\ start_pending = FALSE /\ stop_pending = FALSE /\ det_count = 0
  /\ release_cnt = 0 /\ active_det = FALSE /\ st = "BusFree"
  /\ symbol = "stop" /\ held = Hold + 2 /\ watched = FALSE
  /\ low = 0 /\ still = 0

Next == Edge \/ SwCtrl
Spec == Init /\ [][Next]_vars

\* The clock runs, while the lines may stand still for ever.
QuietEdge == Edge /\ UNCHANGED <<scl, sda>>
FairSpec == Spec /\ WF_vars(QuietEdge)
------------------------------------------------------------------------------
(* Correctness.                                                             *)

\* How long, this cycle included, SCL has been high with SDA unchanged.
StillFor == IF ~scl THEN 0 ELSE IF sda = sda_q THEN still + 1 ELSE 1

\* A START or STOP is reported when, and only when, SDA changed under a high
\* SCL and SCL then stayed high for the hold time, with the monitor enabled.
DetectsExactly ==
  /\ start_det <=> (symbol = "start" /\ held = Hold /\ watched /\ monitor_enable)
  /\ stop_det <=> (symbol = "stop" /\ held = Hold /\ watched /\ monitor_enable)

\* While the monitor is enabled the bus becomes free only t_buf after a STOP,
\* after the inactive timeout, or with SCL high while an active timeout is latched.
FreeIsEarned ==
  [][st # "BusFree" /\ st' = "BusFree" /\ monitor_enable /\ ~EnableEdge
       => \/ symbol = "stop" /\ sda /\ StillFor >= TBuf
          \/ InactiveTimeout > 0 /\ sda /\ StillFor >= InactiveTimeout
          \/ active_det /\ scl]_vars

\* The host timeout is reported only when SCL stood high, and "the active timeout
\* occurs when SCL has been held continuously low for too long", for the whole of
\* the programmed time, though one counter serves both.
TimeoutsEarned ==
  /\ bus_inactive_timeout_det => StillFor >= InactiveTimeout
  /\ event_bus_active_timeout => ~scl /\ low + 1 >= ActiveTimeout

\* SCL begins to be low for the monitor: it falls, or is low when the monitor starts.
SclGoesLow == monitor_enable /\ ~scl /\ (scl_q \/ EnableEdge)

\* SCL held low for ever is reported in that low time, if the timeout is enabled and
\* no report of an earlier low time is latched, whatever the counter that serves all
\* the timeouts was counting before.
FirstStuckLowIsReported ==
  (SclGoesLow /\ ActiveTimeoutEn /\ ActiveTimeout > 0 /\ ~active_det)
    ~> (scl \/ ~monitor_enable \/ event_bus_active_timeout)

\* A bus left alone, with both lines high, becomes free in the end.
IdleBusIsFree ==
  (scl /\ sda /\ monitor_enable) ~> (bus_free \/ ~scl \/ ~sda \/ ~monitor_enable)
------------------------------------------------------------------------------
(* What comments and register descriptions say and the code does not do.    *)

\* CTRL.MULTI_CONTROLLER_MONITOR_EN: "the bus monitor will enable and begin in
\* the bus busy state": it does not offer a bus it has not yet looked at.
BeginsBusy == EnableEdge /\ multi => ~bus_free

\* The active timeout "is used to detect whether the clock has been held low for too
\* long": every time.  After the first, when "SCL was released due to the bus timeout,
\* so go to BusFree", the latch is to be cleared there.
StuckLowIsReported ==
  (SclGoesLow /\ ActiveTimeoutEn /\ ActiveTimeout > 0)
    ~> (scl \/ ~monitor_enable \/ event_bus_active_timeout)
==============================================================================
