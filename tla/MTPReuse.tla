------------------------------ MODULE MTPReuse ------------------------------
(***************************************************************************)
(* Two programs that close their sockets and open new ones, which get the  *)
(* same entries of the table: m_socket gives an entry new windows, but the *)
(* persistence timers are variables of the daemon, which it cannot reach.  *)
(***************************************************************************)
EXTENDS MTPTransfer

\* m_close leaves the UDP sockets open, and so the new sockets have new ones
\* with nothing in their buffers.
Reopen ==
  /\ send_window' = [s \in Socks |-> NewSendWindow]
  /\ recv_window' = [s \in Socks |-> NewRecvWindow]
  /\ udp' = [s \in Socks |-> << >>]
  /\ accepted' = [s \in Socks |-> 0]
  /\ delivered' = [s \in Socks |-> << >>]
  /\ UNCHANGED persistence_timer

ReuseSpec == Init /\ [][Next \/ Reopen]_vars
=============================================================================
