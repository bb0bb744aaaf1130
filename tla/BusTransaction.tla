---------------------------- MODULE BusTransaction ----------------------------
(* What one controller may put on an I2C bus, as an observer of SCL and SDA   *)
(* counts it: transactions of whole bytes, each of ByteBits bits and an       *)
(* acknowledge bit, between a START and a STOP.                               *)
EXTENDS Integers

CONSTANT ByteBits
VARIABLES open,     \* between START and STOP
          pulses    \* SCL pulses since the last acknowledge bit

vars == <<open, pulses>>

Init == open = FALSE /\ pulses = 0

\* A first or a repeated START, never inside a byte.
Start == pulses = 0 /\ open' = TRUE /\ pulses' = 0

\* A bit of a byte, or its acknowledge bit.
Bit == open /\ open' = TRUE /\ pulses' = (pulses + 1) % (ByteBits + 1)

\* A STOP, never inside a byte.
Stop == open /\ pulses = 0 /\ open' = FALSE /\ pulses' = 0

Next == Start \/ Bit \/ Stop
Spec == Init /\ [][Next]_vars
===============================================================================
