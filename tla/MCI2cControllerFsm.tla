-------------------------- MODULE MCI2cControllerFsm --------------------------
(* Instances of I2cControllerFsm: what software writes to FDATA.              *)
EXTENDS I2cControllerFsm

Write(byte, start, stop, nakok) ==
  [fbyte |-> byte, start |-> start, stop |-> stop, read |-> FALSE, rcont |-> FALSE,
   nakok |-> nakok]
Read(byte, stop, rcont) ==
  [fbyte |-> byte, start |-> FALSE, stop |-> stop, read |-> TRUE, rcont |-> rcont,
   nakok |-> FALSE]

\* An address, a last byte, a quick command, a byte that may be NACK'd; reads
\* that stop, continue, or are followed by a repeated START.
Mixed == {Write(1, TRUE, FALSE, FALSE), Write(2, FALSE, TRUE, FALSE),
          Write(0, TRUE, TRUE, FALSE), Write(3, FALSE, FALSE, TRUE),
          Read(0, TRUE, FALSE), Read(1, FALSE, TRUE), Read(2, FALSE, FALSE)}
===============================================================================
