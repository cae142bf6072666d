----------------------------- MODULE MCSockets -----------------------------
(* Instances of MTPSockets for TLC.                                        *)
EXTENDS MTPSockets, TLC

CONSTANTS user1, user2, user3

MCFds == 3..4
\* The addresses of two programs that talk to each other, one of which is
\* bound to any address (0).
MCRequests == {[IP |-> 0, port |-> 1, dest |-> 2],
               [IP |-> 1, port |-> 2, dest |-> 1]}
OneRequest == {[IP |-> 1, port |-> 2, dest |-> 1]}
\* An address that leaves the choice of the port to the system.
AnyPort == {[IP |-> 1, port |-> 0, dest |-> 1]}
AllCalls == {"m_socket", "m_bind", "m_close"}
Symmetry == Permutations(Procs)
=============================================================================
