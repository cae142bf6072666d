-------------------------- MODULE ReliableChannel --------------------------
(***************************************************************************)
(* What an MTP connection promises the two programs that use it: in each   *)
(* direction a reliable FIFO channel of bounded capacity.  A message is    *)
(* known by its ordinal: the n-th one accepted from socket s is n.         *)
(***************************************************************************)
EXTENDS Naturals, Sequences

CONSTANTS Socks,     \* the sockets
          Peer,      \* Peer[s] is the socket s is bound to
          Capacity   \* how many messages may be accepted and not yet delivered

VARIABLES accepted,  \* accepted[s]: how many messages s has taken from its program
          delivered  \* delivered[s]: the messages s has handed to its program

chan == <<accepted, delivered>>

Init == /\ accepted = [s \in Socks |-> 0]
        /\ delivered = [s \in Socks |-> << >>]

\* A send succeeds only while the channel has room.
Send(s) == /\ accepted[s] - Len(delivered[Peer[s]]) < Capacity
           /\ accepted' = [accepted EXCEPT ![s] = @ + 1]
           /\ UNCHANGED delivered

\* A receive hands over the next message of the peer, in order and once.
Receive(s) == /\ Len(delivered[s]) < accepted[Peer[s]]
              /\ delivered' = [delivered EXCEPT ![s] = Append(@, Len(@) + 1)]
              /\ UNCHANGED accepted

Next == \E s \in Socks : Send(s) \/ Receive(s)

\* What is accepted is eventually delivered.
Spec == Init /\ [][Next]_chan /\ \A s \in Socks : WF_chan(Receive(s))
=============================================================================
