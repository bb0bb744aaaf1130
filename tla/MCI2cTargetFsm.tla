---------------------------- MODULE MCI2cTargetFsm ----------------------------
(* Instances of I2cTargetFsm.  The settings of software are constants of a   *)
(* run unless SwOps lets it change them.                                     *)
EXTENDS I2cTargetFsm

Setting(timeout, nackaddr, txgate, ackctrl) ==
  [nack_timeout_en |-> timeout, nack_addr_after_timeout |-> nackaddr,
   tx_stretch_ctrl_en |-> txgate, ack_ctrl |-> ackctrl]

\* Both ways to answer an address there is no room for, with a stretch timeout.
FullFifo == {Setting(TRUE, b, FALSE, FALSE) : b \in BOOLEAN}
\* Software decides on every byte, with and without a stretch timeout.
AckControl == {Setting(b, FALSE, FALSE, TRUE) : b \in BOOLEAN}
\* Reads wait for software's confirmation.
TxGate == {Setting(FALSE, b, TRUE, FALSE) : b \in BOOLEAN}
GateAndAckControl == TxGate \cup AckControl

AllBusEvents == {"start", "stop", "timeout", "arbitration"}
StartStop == {"start", "stop"}
===============================================================================
