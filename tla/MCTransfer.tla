----------------------------- MODULE MCTransfer -----------------------------
(* Small instances of MTPTransfer and MTPReuse: two sockets bound to each  *)
(* other.                                                                  *)
EXTENDS MTPReuse

CONSTANTS a, b

MCSocks == {a, b}
MCPeer == [s \in MCSocks |-> IF s = a THEN b ELSE a]

\* What the programs send: more messages than there are sequence numbers,
\* fewer, and some in both directions at once.
Seven == [s \in MCSocks |-> IF s = a THEN 7 ELSE 0]
Five == [s \in MCSocks |-> IF s = a THEN 5 ELSE 0]
Three == [s \in MCSocks |-> IF s = a THEN 3 ELSE 0]
BothWays == [s \in MCSocks |-> 2]

\* The two sockets play the same part when both send.
EitherWay == Permutations(MCSocks)
=============================================================================
