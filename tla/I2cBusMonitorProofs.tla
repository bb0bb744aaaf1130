-------------------------- MODULE I2cBusMonitorProofs --------------------------
(****************************************************************************)
(* Proofs about I2cBusMonitor for every hold time, every bus-free time and  *)
(* every timeout.                                                           *)
(****************************************************************************)
EXTENDS I2cBusMonitor, TLAPS

BusStates == {"BusFree", "BusBusyLow", "BusBusyHigh", "BusBusyStop"}

TypeOK ==
  /\ scl \in BOOLEAN /\ sda \in BOOLEAN /\ scl_q \in BOOLEAN /\ sda_q \in BOOLEAN
  /\ side \in BOOLEAN /\ multi \in BOOLEAN /\ monitor_enable_q \in BOOLEAN
  /\ start_pending \in BOOLEAN /\ stop_pending \in BOOLEAN /\ watched \in BOOLEAN
  /\ det_count \in Nat /\ release_cnt \in Nat
  /\ active_det \in BOOLEAN /\ st \in BusStates
  /\ symbol \in {"start", "stop", None}
  /\ held \in Nat /\ low \in Nat /\ still \in Nat

\* A detection is pending from its trigger until the hold time is over, with the
\* counter they share telling how long SCL stayed high since.
Pending ==
  /\ start_pending <=> (symbol = "start" /\ watched /\ held <= Hold)
  /\ stop_pending <=> (symbol = "stop" /\ watched /\ held <= Hold)
  /\ start_pending \/ stop_pending => det_count = held

\* What the last symbol says of the lines of the previous cycle.
SymbolLines ==
  /\ symbol # None => scl_q /\ held >= 1
  /\ symbol = "start" => ~sda_q
  /\ symbol = "stop" => sda_q

\* The release counter and the time that has passed add up to what was
\* programmed for the state.
HighCounts ==
  st = "BusBusyHigh" /\ release_cnt > 0 =>
    still + release_cnt >= InactiveTimeout /\ release_cnt <= InactiveTimeout

\* On a legal bus SCL is high after a STOP and for the hold time of a START.
LegalLines ==
  ~scl => symbol # "stop" /\ (symbol = "start" => held >= ThdDat + 2)

\* While t_buf is waited for, the last symbol is the STOP, unless SDA fell again
\* in the very cycle in which the STOP was detected.
AfterStop ==
  st = "BusBusyStop" =>
    \/ symbol = "stop" /\ (release_cnt > 0 => still + release_cnt >= TBuf)
    \/ symbol = "start" /\ held = 1 /\ release_cnt = TBuf

\* The counter that BusBusyStop leaves behind is reloaded before SCL falls.
LowCounts ==
  st = "BusBusyLow" /\ ~scl /\ release_cnt > 0 => low + release_cnt >= ActiveTimeout

\* The detections depend on nothing else in the monitor.
DetInv == TypeOK /\ Pending /\ SymbolLines

\* What holds on a bus of devices that keep the timing.
LegalInv == DetInv /\ HighCounts /\ LegalLines /\ AfterStop
------------------------------------------------------------------------------
(* Detection of START and STOP.                                             *)

\* Software only changes which side is enabled.
LEMMA SwCtrlKeeps ==
  ASSUME TypeOK, SwCtrl
  PROVE  TypeOK' /\ UNCHANGED <<lines, monitor, hist>>
BY DEF TypeOK, SwCtrl, lines, monitor, hist

\* The state machine stays among its states, its counter among the naturals.
LEMMA StateStepTypes ==
  ASSUME TypeOK, Enabled \/ StateStep
  PROVE  st' \in BusStates /\ release_cnt' \in Nat
<1> USE DelayAssumption DEF TypeOK, BusStates, To, Keep, Load, Down
<1>1. CASE Enabled
  BY <1>1 DEF Enabled
<1>2. CASE BusFree
  BY <1>2 DEF BusFree
<1>3. CASE StopDetected
  BY <1>3 DEF StopDetected
<1>4. CASE BusBusyLow
  BY <1>4 DEF BusBusyLow
<1>5. CASE BusBusyHigh
  BY <1>5 DEF BusBusyHigh
<1>6. CASE BusBusyStop
  BY <1>6 DEF BusBusyStop
<1> QED BY <1>1, <1>2, <1>3, <1>4, <1>5, <1>6 DEF StateStep

\* The hold time is thd_dat, but at least one cycle.
LEMMA HoldNat == Hold \in Nat /\ Hold >= 1 /\ Hold >= ThdDat /\ (Hold = 1 \/ Hold = ThdDat)
BY DelayAssumption DEF Hold, Larger

\* The history's cap exceeds every delay it is compared with.
LEMMA LongestNat ==
  Longest \in Nat /\ Longest >= TBuf /\ Longest >= InactiveTimeout
BY DelayAssumption DEF Longest, Larger

\* A clock edge keeps every register and history variable in its type.
LEMMA EdgeTypes ==
  ASSUME TypeOK, Edge
  PROVE  TypeOK'
<1> USE DEF TypeOK
<1>1. st' \in BusStates /\ release_cnt' \in Nat
  BY StateStepTypes DEF Edge
<1>2. /\ det_count' \in Nat /\ start_pending' \in BOOLEAN /\ stop_pending' \in BOOLEAN
  BY DEF Edge, Detection, start_det_trigger, stop_det_trigger
<1>3. active_det' \in BOOLEAN
  BY SwitchAssumption DEF Edge, active_det_d
<1>4. /\ held' \in Nat /\ low' \in Nat /\ still' \in Nat
      /\ symbol' \in {"start", "stop", None} /\ watched' \in BOOLEAN
  BY HoldNat, LongestNat, DelayAssumption DEF Edge, History, Lesser, monitor_enable
<1>5. /\ scl' \in BOOLEAN /\ sda' \in BOOLEAN /\ scl_q' \in BOOLEAN /\ sda_q' \in BOOLEAN
      /\ side' \in BOOLEAN /\ multi' \in BOOLEAN /\ monitor_enable_q' \in BOOLEAN
  BY DEF Edge, switches, monitor_enable
<1> QED BY <1>1, <1>2, <1>3, <1>4, <1>5

\* The last symbol still says what the lines were one cycle ago.
LEMMA EdgeSymbolLines ==
  ASSUME DetInv, Edge
  PROVE  SymbolLines'
BY HoldNat, NoSymbolAssumption
   DEF DetInv, TypeOK, SymbolLines, Edge, History, Lesser

\* A symbol whose hold time is running is the one that is pending, and is detected
\* when the counter reaches the hold time.
LEMMA DetectedAtHold ==
  ASSUME DetInv
  PROVE  DetectsExactly
<1> USE HoldNat, DelayAssumption DEF DetInv, TypeOK, Pending, SymbolLines
<1>1. ASSUME start_pending \/ stop_pending PROVE det_count >= ThdDat <=> held = Hold
  BY <1>1, NoSymbolAssumption
<1>2. held = Hold => held <= Hold
  OBVIOUS
<1>3. start_det <=> (symbol = "start" /\ held = Hold /\ watched /\ monitor_enable)
  BY <1>1, <1>2 DEF start_det
<1>4. stop_det <=> (symbol = "stop" /\ held = Hold /\ watched /\ monitor_enable)
  BY <1>1, <1>2 DEF stop_det
<1> QED BY <1>3, <1>4 DEF DetectsExactly

\* A detection stays pending exactly while its hold time runs.
LEMMA EdgePending ==
  ASSUME DetInv, Edge
  PROVE  Pending'
<1> USE HoldNat, DelayAssumption, NoSymbolAssumption
<1> USE DEF DetInv, TypeOK, Pending, SymbolLines, Edge, Detection, History, Lesser,
            start_det_trigger, stop_det_trigger
<1>1. DetectsExactly
  BY DetectedAtHold
<1>2. CASE ~scl \/ ~monitor_enable
  BY <1>2
<1>3. CASE scl /\ monitor_enable /\ scl_q /\ sda # sda_q
  BY <1>3
<1>4. CASE scl /\ monitor_enable /\ ~(scl_q /\ sda # sda_q)
  BY <1>1, <1>4 DEF DetectsExactly
<1> QED BY <1>2, <1>3, <1>4

\* What the detections know of the lines holds on every bus, whatever is programmed.
THEOREM DetInvariance == Spec => []DetInv
<1>1. Init => DetInv
  <2> SUFFICES ASSUME Init PROVE DetInv
    OBVIOUS
  <2>1. TypeOK
    <3>1. held \in Nat /\ low \in Nat /\ still \in Nat /\ det_count \in Nat /\ release_cnt \in Nat
      BY HoldNat DEF Init
    <3> QED BY <3>1 DEF Init, TypeOK, BusStates
  <2>2. Pending
    BY HoldNat DEF Init, Pending
  <2>3. SymbolLines
    BY HoldNat DEF Init, SymbolLines
  <2> QED BY <2>1, <2>2, <2>3 DEF DetInv
<1>2. DetInv /\ [Next]_vars => DetInv'
  <2> SUFFICES ASSUME DetInv, [Next]_vars PROVE DetInv'
    OBVIOUS
  <2>1. CASE Edge
    BY <2>1, EdgeTypes, EdgeSymbolLines, EdgePending DEF DetInv
  <2>2. CASE SwCtrl
    BY <2>2, SwCtrlKeeps
       DEF DetInv, Pending, SymbolLines, lines, monitor, hist
  <2>3. CASE UNCHANGED vars
    BY <2>3 DEF DetInv, TypeOK, Pending, SymbolLines, vars, lines, switches, monitor, hist
  <2> QED BY <2>1, <2>2, <2>3 DEF Next
<1> QED BY <1>1, <1>2, PTL DEF Spec

\* A START or STOP is reported when, and only when, it was held for the hold time
\* with the monitor enabled: on every bus and for every thd_dat, 0 included.
THEOREM DetectsExactlyHolds == Spec => []DetectsExactly
<1>1. DetInv => DetectsExactly
  BY DetectedAtHold
<1> QED BY <1>1, DetInvariance, PTL
------------------------------------------------------------------------------
(* The timeouts and the free bus.                                           *)

\* A counter just loaded accounts for the whole time.
LEMMA AddUp ==
  ASSUME NEW n \in Nat, NEW a \in Nat, NEW b \in Nat, b = n
  PROVE  a + b >= n /\ b <= n
OBVIOUS

\* Counting down while the lines rest keeps the sum; a reload starts it anew.
LEMMA EdgeHighCounts ==
  ASSUME DetInv, HighCounts, Edge
  PROVE  HighCounts'
<1> USE LongestNat, DelayAssumption DEF DetInv, TypeOK, HighCounts, To, Keep, Load, Down
<1>1. SUFFICES ASSUME st' = "BusBusyHigh"
               PROVE  release_cnt' > 0 =>
                        /\ still' + release_cnt' >= InactiveTimeout
                        /\ release_cnt' <= InactiveTimeout
  OBVIOUS
<1>2. still' \in Nat /\ release_cnt' \in Nat
  BY EdgeTypes
<1>3. CASE Enabled
  BY <1>1, <1>2, <1>3, AddUp DEF Enabled
<1>4. CASE BusFree
  BY <1>1, <1>4 DEF BusFree
<1>5. CASE StopDetected
  BY <1>1, <1>5 DEF StopDetected
<1>6. CASE BusBusyLow
  <2>1. release_cnt' = InactiveTimeout
    BY <1>1, <1>6 DEF BusBusyLow
  <2> QED BY <1>2, <2>1, AddUp
<1>7. CASE BusBusyHigh
  <2>1. bus_idling /\ st = "BusBusyHigh" /\ Down
    BY <1>1, <1>7 DEF BusBusyHigh
  <2>2. still' = IF still + 1 > Longest THEN Longest ELSE still + 1
    BY <2>1 DEF bus_idling, Edge, History, Lesser
  <2> QED BY <2>1, <2>2
<1>8. CASE BusBusyStop
  BY <1>1, <1>8 DEF BusBusyStop
<1> QED BY <1>3, <1>4, <1>5, <1>6, <1>7, <1>8 DEF Edge, StateStep

\* The sum holds on every bus.
LEMMA HighCountsInvariance == Spec => []HighCounts
<1>1. Init => HighCounts
  BY DEF Init, HighCounts
<1>2. DetInv /\ HighCounts /\ [Next]_vars => HighCounts'
  <2> SUFFICES ASSUME DetInv, HighCounts, [Next]_vars PROVE HighCounts'
    OBVIOUS
  <2>1. CASE Edge
    BY <2>1, EdgeHighCounts
  <2>2. CASE SwCtrl
    BY <2>2 DEF SwCtrl, HighCounts, monitor, hist
  <2>3. CASE UNCHANGED vars
    BY <2>3 DEF HighCounts, vars, monitor, hist
  <2> QED BY <2>1, <2>2, <2>3 DEF Next
<1> QED BY <1>1, <1>2, DetInvariance, PTL DEF Spec

\* The host timeout is reported only when SCL stood high and SDA still for the whole
\* of the programmed time, on every bus and whatever else is programmed.
THEOREM HostTimeoutEarned ==
  Spec => [](bus_inactive_timeout_det => StillFor >= InactiveTimeout)
<1>1. DetInv /\ HighCounts => (bus_inactive_timeout_det => StillFor >= InactiveTimeout)
  BY DelayAssumption
     DEF DetInv, TypeOK, HighCounts, bus_inactive_timeout_det, InactiveExpires, bus_idling,
         StillFor
<1> QED BY <1>1, DetInvariance, HighCountsInvariance, PTL

\* A bus that keeps the timing holds SCL high around its symbols.
LEMMA EdgeLegalLines ==
  ASSUME LegalBus, DetInv, LegalLines, Edge
  PROVE  LegalLines'
BY NoSymbolAssumption, EdgeTypes DEF DetInv, TypeOK, LegalLines, Edge, Timing, History

\* The cycle after the load, in which SDA moved.
LEMMA LoadedDown ==
  ASSUME NEW n \in Nat, NEW l \in Nat, l >= n,
         NEW a \in Nat, a = (IF 1 > l THEN l ELSE 1),
         NEW b \in Nat, b = (IF n > 0 THEN n - 1 ELSE 0)
  PROVE  b > 0 => a + b >= n
OBVIOUS

\* Where BusBusyStop finds the lines, and what it leaves.
LEMMA EdgeAfterStop ==
  ASSUME LegalBus, DetInv, LegalLines, AfterStop, Edge
  PROVE  AfterStop'
<1> USE HoldNat, LongestNat, DelayAssumption, NoSymbolAssumption
        DEF DetInv, TypeOK, SymbolLines, LegalLines, AfterStop, To, Keep, Load, Down
<1>1. SUFFICES ASSUME st' = "BusBusyStop"
               PROVE  \/ /\ symbol' = "stop"
                         /\ release_cnt' > 0 => still' + release_cnt' >= TBuf
                      \/ symbol' = "start" /\ held' = 1 /\ release_cnt' = TBuf
  OBVIOUS
<1>2. still' \in Nat /\ held' \in Nat /\ release_cnt' \in Nat
  BY EdgeTypes
<1>3. CASE Enabled
  BY <1>1, <1>3 DEF Enabled
<1>4. CASE BusFree
  BY <1>1, <1>4 DEF BusFree
<1>5. CASE BusBusyLow
  BY <1>1, <1>5 DEF BusBusyLow
<1>6. CASE BusBusyHigh
  BY <1>1, <1>6 DEF BusBusyHigh
<1>7. CASE StopDetected
  <2>1. symbol = "stop" /\ release_cnt' = TBuf
    BY <1>7, DetectedAtHold DEF StopDetected, DetectsExactly
  <2>2. scl /\ scl_q
    BY <2>1
  <2>3. symbol' = "stop" \/ (symbol' = "start" /\ held' = 1)
    BY <2>1, <2>2 DEF Edge, History
  <2> QED BY <1>2, <2>1, <2>3, AddUp
<1>8. CASE BusBusyStop
  <2>1. st = "BusBusyStop" /\ Down /\ scl /\ sda
    BY <1>1, <1>8 DEF BusBusyStop
  <2>2. CASE symbol = "stop"
    <3>1. symbol' = "stop" /\ still' = IF still + 1 > Longest THEN Longest ELSE still + 1
      BY <2>1, <2>2 DEF Edge, History, Lesser
    <3> QED BY <2>1, <2>2, <3>1
  <2>3. CASE symbol = "start" /\ release_cnt = TBuf
    <3>1. scl_q /\ sda # sda_q
      BY <2>1, <2>3
    <3>2. symbol' = "stop" /\ still' = IF 1 > Longest THEN Longest ELSE 1
      BY <2>1, <3>1 DEF Edge, History, Lesser
    <3>3. release_cnt' = IF TBuf > 0 THEN TBuf - 1 ELSE 0
      BY <2>1, <2>3
    <3> QED BY <1>2, <3>2, <3>3, LoadedDown
  <2> QED BY <2>1, <2>2, <2>3
<1> QED BY <1>3, <1>4, <1>5, <1>6, <1>7, <1>8 DEF Edge, StateStep

\* On a bus that keeps the timing, the wait for t_buf begins with the STOP.
THEOREM LegalInvariance == ASSUME LegalBus PROVE Spec => []LegalInv
<1>1. Init => LegalLines /\ AfterStop
  BY DEF Init, LegalLines, AfterStop
<1>2. DetInv /\ LegalLines /\ AfterStop /\ [Next]_vars => LegalLines' /\ AfterStop'
  <2> SUFFICES ASSUME DetInv, LegalLines, AfterStop, [Next]_vars
               PROVE  LegalLines' /\ AfterStop'
    OBVIOUS
  <2>1. CASE Edge
    BY <2>1, EdgeLegalLines, EdgeAfterStop
  <2>2. CASE SwCtrl
    BY <2>2 DEF SwCtrl, LegalLines, AfterStop, lines, monitor, hist
  <2>3. CASE UNCHANGED vars
    BY <2>3 DEF LegalLines, AfterStop, vars, lines, monitor, hist
  <2> QED BY <2>1, <2>2, <2>3 DEF Next
<1> QED BY <1>1, <1>2, DetInvariance, HighCountsInvariance, PTL DEF Spec, LegalInv

\* The time for which SCL was low is known to the counter, which BusBusyStop leaves
\* where it stands: with a hold time of at least one cycle, SCL is still high then.
LEMMA EdgeLowCounts ==
  ASSUME LegalBus, ThdDat >= 1, LegalInv, LowCounts, Edge
  PROVE  LowCounts'
<1> USE HoldNat, DelayAssumption, NoSymbolAssumption
        DEF LegalInv, DetInv, TypeOK, LowCounts, To, Keep, Load, Down
<1>1. SUFFICES ASSUME st' = "BusBusyLow", ~scl'
               PROVE  release_cnt' > 0 => low' + release_cnt' >= ActiveTimeout
  OBVIOUS
<1>2. low' \in Nat /\ release_cnt' \in Nat
  BY EdgeTypes
<1>3. CASE Enabled
  BY <1>1, <1>3 DEF Enabled
<1>4. CASE BusFree
  BY <1>1, <1>2, <1>4, AddUp DEF BusFree
<1>5. CASE StopDetected
  BY <1>1, <1>5 DEF StopDetected
<1>6. CASE BusBusyHigh
  <2>1. release_cnt' = ActiveTimeout
    BY <1>1, <1>6 DEF BusBusyHigh
  <2> QED BY <1>2, <2>1, AddUp
<1>7. CASE BusBusyLow
  <2>1. CASE scl
    <3>1. release_cnt' = ActiveTimeout
      BY <1>1, <1>7, <2>1 DEF BusBusyLow
    <3> QED BY <1>2, <3>1, AddUp
  <2>2. CASE ~scl
    <3>1. st = "BusBusyLow" /\ Down
      BY <1>7, <2>2 DEF BusBusyLow, bus_idling
    <3>2. low' = IF low + 1 > ActiveTimeout THEN ActiveTimeout ELSE low + 1
      BY <2>2 DEF Edge, History, Lesser
    <3> QED BY <2>2, <3>1, <3>2
  <2> QED BY <2>1, <2>2
<1>8. CASE BusBusyStop
  <2>1. st = "BusBusyStop" /\ (~scl \/ ~sda)
    BY <1>1, <1>8 DEF BusBusyStop
  <2>2. CASE symbol = "stop"
    <3>1. scl /\ scl_q /\ sda_q /\ ~sda
      BY <2>1, <2>2 DEF LegalLines, SymbolLines
    <3>2. symbol' = "start" /\ held' = 1
      BY <3>1 DEF Edge, History
    <3> QED BY <1>1, <3>1, <3>2 DEF Edge, Timing
  <2>3. CASE symbol = "start" /\ held = 1
    <3>1. scl /\ scl_q /\ ~sda_q /\ ~sda
      BY <2>1, <2>3 DEF LegalLines, SymbolLines
    <3>2. symbol' = "start" /\ held' = 2
      BY <2>3, <3>1 DEF Edge, History, Lesser
    <3> QED BY <1>1, <3>1, <3>2 DEF Edge, Timing
  <2> QED BY <2>1, <2>2, <2>3 DEF AfterStop
<1> QED BY <1>3, <1>4, <1>5, <1>6, <1>7, <1>8 DEF Edge, StateStep

\* With a hold time of at least 1 the counter is reloaded before SCL falls.
LEMMA LowCountsInvariance == ASSUME LegalBus, ThdDat >= 1 PROVE Spec => []LowCounts
<1>1. Init => LowCounts
  BY DEF Init, LowCounts
<1>2. LegalInv /\ LowCounts /\ [Next]_vars => LowCounts'
  <2> SUFFICES ASSUME LegalInv, LowCounts, [Next]_vars PROVE LowCounts'
    OBVIOUS
  <2>1. CASE Edge
    BY <2>1, EdgeLowCounts
  <2>2. CASE SwCtrl
    BY <2>2 DEF SwCtrl, LowCounts, lines, monitor, hist
  <2>3. CASE UNCHANGED vars
    BY <2>3 DEF LowCounts, vars, lines, monitor, hist
  <2> QED BY <2>1, <2>2, <2>3 DEF Next
<1> QED BY <1>1, <1>2, LegalInvariance, PTL DEF Spec

\* Both timeouts are reported only after the whole of the programmed time, though one
\* counter serves both and is left as it is when the wait for t_buf ends.  A hold time
\* of 0 is excluded: the STOP's own detection cycle then reaches the next SCL low.
THEOREM TimeoutsEarnedHolds ==
  ASSUME LegalBus, ThdDat >= 1
  PROVE  Spec => []TimeoutsEarned
<1>1. LegalInv /\ LowCounts => TimeoutsEarned
  <2> SUFFICES ASSUME LegalInv, LowCounts PROVE TimeoutsEarned
    OBVIOUS
  <2> USE DelayAssumption DEF LegalInv, DetInv, TypeOK
  <2>1. bus_inactive_timeout_det => StillFor >= InactiveTimeout
    BY DEF HighCounts, bus_inactive_timeout_det, InactiveExpires, bus_idling, StillFor
  <2>2. event_bus_active_timeout => ~scl /\ low + 1 >= ActiveTimeout
    BY DEF LowCounts, event_bus_active_timeout, active_det_d, ActiveExpires
  <2> QED BY <2>1, <2>2 DEF TimeoutsEarned
<1> QED BY <1>1, LegalInvariance, LowCountsInvariance, PTL

\* While the monitor is enabled the bus becomes free only t_buf after a STOP, after
\* the inactive timeout, or on the release of a clock that was held low for too long.
\* With t_buf of one cycle a glitch of SDA in the cycle that detects the STOP is free
\* at once: TLC refutes the property for TBuf = 1 only.
THEOREM FreeIsEarnedHolds ==
  ASSUME LegalBus, TBuf # 1
  PROVE  Spec => FreeIsEarned
<1> DEFINE Earned ==
      st # "BusFree" /\ st' = "BusFree" /\ monitor_enable /\ ~EnableEdge
        => \/ symbol = "stop" /\ sda /\ StillFor >= TBuf
           \/ InactiveTimeout > 0 /\ sda /\ StillFor >= InactiveTimeout
           \/ active_det /\ scl
<1>1. LegalInv /\ [Next]_vars => [Earned]_vars
  <2> SUFFICES ASSUME LegalInv, Edge,
                      st # "BusFree", st' = "BusFree", monitor_enable, ~EnableEdge
               PROVE  \/ symbol = "stop" /\ sda /\ StillFor >= TBuf
                      \/ InactiveTimeout > 0 /\ sda /\ StillFor >= InactiveTimeout
                      \/ active_det /\ scl
    BY DEF Next, SwCtrl, monitor
  <2> USE DelayAssumption DEF LegalInv, DetInv, TypeOK, To
  <2>1. CASE BusFree
    BY <2>1 DEF BusFree
  <2>2. CASE StopDetected
    BY <2>2 DEF StopDetected
  <2>3. CASE BusBusyLow
    BY <2>3 DEF BusBusyLow
  <2>4. CASE BusBusyHigh
    <3>1. st = "BusBusyHigh" /\ bus_idling /\ release_cnt = 1 /\ sda
      BY <2>4 DEF BusBusyHigh, InactiveExpires
    <3>2. still + 1 >= InactiveTimeout /\ InactiveTimeout > 0
      BY <3>1 DEF HighCounts
    <3>3. StillFor = still + 1
      BY <3>1 DEF bus_idling, StillFor
    <3> QED BY <3>1, <3>2, <3>3
  <2>5. CASE BusBusyStop
    <3>1. st = "BusBusyStop" /\ scl /\ sda /\ release_cnt = 1
      BY <2>5 DEF BusBusyStop
    <3>2. symbol = "stop" /\ still + release_cnt >= TBuf
      BY <3>1 DEF AfterStop
    <3>3. StillFor = still + release_cnt
      BY <3>1, <3>2 DEF SymbolLines, StillFor
    <3> QED BY <3>1, <3>2, <3>3
  <2> QED BY <2>1, <2>2, <2>3, <2>4, <2>5 DEF Edge, Enabled, StateStep
<1> QED BY <1>1, LegalInvariance, PTL DEF Spec, FreeIsEarned
==============================================================================
