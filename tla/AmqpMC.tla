------------------------------- MODULE AmqpMC -------------------------------
(* Instances of Amqp for TLC. *)
EXTENDS Amqp
CONSTANTS write, garbled, stop, none

\* A write and a request that does not decode. One write is enough for duplicates: delivered
\* again, it meets its own row.
Pair == {write, garbled}
Garbled == {garbled}
PairOperation == [r \in Pair |-> IF r = write THEN stop ELSE none]
=============================================================================
