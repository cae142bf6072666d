---------------------------- MODULE SocketTable ----------------------------
(***************************************************************************)
(* What m_socket, m_bind, m_close and the garbage collector of MTP promise *)
(* the programs: a table of slots, each of which has no owner or one, with *)
(* every call taking effect at one moment.                                 *)
(***************************************************************************)
CONSTANTS Procs,      \* the processes
          Slots,      \* the slots of the table
          Addresses,  \* local address and peer of a bound socket
          Nobody,     \* the owner of a free slot
          NoAddress   \* the address of a socket that is not bound

VARIABLES owner, address, live

vars == <<owner, address, live>>

Init == /\ owner = [i \in Slots |-> Nobody]
        /\ address = [i \in Slots |-> NoAddress]
        /\ live = Procs

Dead == {i \in Slots : owner[i] \in Procs \ live}

Open(p, i) == /\ p \in live
              /\ owner[i] = Nobody
              /\ owner' = [owner EXCEPT ![i] = p]
              /\ UNCHANGED <<address, live>>

Bind(p, i, a) == /\ p \in live
                 /\ owner[i] = p
                 /\ address[i] = NoAddress
                 /\ address' = [address EXCEPT ![i] = a]
                 /\ UNCHANGED <<owner, live>>

Free(S) == /\ owner' = [i \in Slots |-> IF i \in S THEN Nobody ELSE owner[i]]
           /\ address' = [i \in Slots |-> IF i \in S THEN NoAddress ELSE address[i]]

Close(p, i) == /\ p \in live
               /\ owner[i] = p
               /\ Free({i})
               /\ UNCHANGED live

Die(p) == /\ p \in live
          /\ live' = live \ {p}
          /\ UNCHANGED <<owner, address>>

Reclaim == /\ Dead # {}
           /\ Free(Dead)
           /\ UNCHANGED live

Next == \/ \E p \in Procs, i \in Slots :
             \/ Open(p, i)
             \/ \E a \in Addresses : Bind(p, i, a)
             \/ Close(p, i)
        \/ \E p \in Procs : Die(p)
        \/ Reclaim

\* The slots of dead processes do not stay taken.
Spec == Init /\ [][Next]_vars /\ WF_vars(Reclaim)
=============================================================================
