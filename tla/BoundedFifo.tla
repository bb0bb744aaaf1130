----------------------------- MODULE BoundedFifo -----------------------------
(****************************************************************************)
(* What every synchronous FIFO of the I2C block promises, one step per      *)
(* clock edge.  In a cycle at most one entry is accepted and at most one is *)
(* delivered, entries leave in the order they entered, nothing is lost or   *)
(* invented except by a synchronous clear or by reset, and never more than  *)
(* Capacity entries are inside.                                             *)
(*                                                                          *)
(* wr and rd are the handshakes of the last cycle: the sequence of the      *)
(* entries that went in and out, each of length 0 or 1.                     *)
(****************************************************************************)
EXTENDS Integers, Sequences

CONSTANTS Data,       \* the entries
          Capacity    \* the most entries that are ever inside

VARIABLES queue, wr, rd

bfVars == <<queue, wr, rd>>

AtMostOne == {<<>>} \cup {<<d>> : d \in Data}

BFInit == queue = <<>> /\ wr = <<>> /\ rd = <<>>

\* A cycle without clear: what goes out is the front of what was there or is
\* just coming in (the FIFOs let an entry pass through in the same cycle).
BFCycle ==
  /\ wr' \in AtMostOne
  /\ rd' \in AtMostOne
  /\ queue \o wr' = rd' \o queue'
  /\ Len(queue') <= Capacity

\* A cycle with clear: one entry may still go out, the rest is forgotten.
BFClear ==
  /\ wr' \in AtMostOne
  /\ rd' \in AtMostOne
  /\ \/ rd' = <<>>
     \/ queue \o wr' # <<>> /\ rd' = <<Head(queue \o wr')>>
  /\ queue' = <<>>

BFReset == queue' = <<>> /\ wr' = <<>> /\ rd' = <<>>

BFNext == BFCycle \/ BFClear \/ BFReset

BFSpec == BFInit /\ [][BFNext]_bfVars
==============================================================================
