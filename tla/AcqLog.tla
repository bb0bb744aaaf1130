-------------------------------- MODULE AcqLog --------------------------------
(****************************************************************************)
(* What software reading ACQDATA may rely on (data/i2c.hjson, ACQDATA): the *)
(* grammar of the entries the target records, one transaction after the     *)
(* other.  last is the entry recorded last in the current transaction, None *)
(* between transactions.                                                    *)
(****************************************************************************)
CONSTANTS None

VARIABLE last

Closed == {None, "Stop", "NackStop"}          \* no transaction is open
Write == {"StartW", "RestartW", "Data"}       \* inside a write transfer
Read == {"StartR", "RestartR"}                \* inside a read transfer
Nacked == {"Nack", "NackStart"}               \* the rest is NACK'd
Recorded == {"Stop", "NackStop"} \cup Write \cup Read \cup Nacked

\* START opens a transaction.
Start == last \in Closed /\ last' \in {"StartW", "StartR"}

\* RESTART extends one; the part before may have addressed another target.
Restart == last \notin Nacked /\ last' \in {"RestartW", "RestartR"}

\* A byte of a write transfer, ACK'd or NACK'd.
Byte == last \in Write /\ last' \in {"Data", "Nack"}

\* An address that timed out while its Start could not be recorded.
NackStart == last \notin Nacked /\ last' = "NackStart"

\* "No transfers addressing this Target in that transaction were NACK'd."
Stop == last \notin Nacked /\ last' = "Stop"

NackStop == last' = "NackStop"

\* The target is disabled, or the end of the transaction finds no space.
Abandon == last' = None

LogInit == last = None
LogNext == Start \/ Restart \/ Byte \/ NackStart \/ Stop \/ NackStop \/ Abandon
LogSpec == LogInit /\ [][LogNext]_last
==============================================================================
