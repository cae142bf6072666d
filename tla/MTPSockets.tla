----------------------------- MODULE MTPSockets -----------------------------
(***************************************************************************)
(* The socket table of MTP: m_socket, m_bind and m_close, called by        *)
(* processes, the loop of the daemon that creates and binds the UDP        *)
(* sockets for them, and the garbage collector, thread G.                  *)
(*                                                                         *)
(* m_socket and m_bind leave their request in sock_info, which is shared   *)
(* by all processes, post Sem1, and wait on Sem2 for the daemon's answer.  *)
(* Only the parts under SM_mutex are steps by themselves; nothing guards   *)
(* the rest of a call.  A sem_wait is one step with what follows it, which *)
(* is the same because nobody else sees the count go down.  The loop body  *)
(* of the daemon and a memset of sock_info are taken to be one step.       *)
(***************************************************************************)
EXTENDS Integers

CONSTANTS
  Procs,            \* bound: the processes that are ever started
  MAX_MTP_SOCKETS,  \* slots of the table (25)
  Fds,              \* bound: the descriptors the daemon can have for UDP sockets
  Requests,         \* addresses that m_bind is asked for: IP, port and peer
  Calls,            \* the library calls the programs use
  OneAtATime,       \* m_socket and m_bind never overlap, as runner.sh arranges
  KilledInCalls,    \* a process may be killed in the middle of a call
  NOBODY            \* the process_id of a slot that was never used (-1)

Slots == 0..(MAX_MTP_SOCKETS - 1)
Request == [IP : Nat, port : Nat, dest : Nat]

ASSUME TableAssumption == /\ MAX_MTP_SOCKETS \in Nat \ {0}
                          /\ Fds \subseteq Nat \ 0..2
                          /\ NOBODY \notin Procs
ASSUME CallAssumption == /\ Requests \subseteq Request
                         /\ \A r \in Requests : r.dest # 0
                         /\ Calls \subseteq {"m_socket", "m_bind", "m_close"}
                         /\ OneAtATime \in BOOLEAN
                         /\ KilledInCalls \in BOOLEAN

VARIABLES
  SM,          \* the shared table, without the windows
  sock_info,   \* the request to the daemon and its answer, without errno
  Sem1, Sem2,  \* requests posted and answers posted
  udp,         \* the daemon's descriptors, with the address each is bound to
  call,        \* call[p]: where p is in which call, its arguments and locals
  opened       \* opened[p]: descriptors m_socket returned to p, not closed by p

vars == <<SM, sock_info, Sem1, Sem2, udp, call, opened>>

-----------------------------------------------------------------------------
(* The UDP sockets of the daemon.                                          *)

CLOSED == [open |-> FALSE, IP |-> 0, port |-> 0]
UNBOUND == [open |-> TRUE, IP |-> 0, port |-> 0]
FreeFds == {fd \in Fds : ~udp[fd].open}

\* bind() refuses a socket that is bound, and an address in use.
CanBind(fd, r) ==
  /\ fd \in Fds
  /\ udp[fd] = UNBOUND
  /\ \A g \in Fds : udp[g].port = r.port => 0 \notin {udp[g].IP, r.IP} /\ udp[g].IP # r.IP

EMPTY == [sock_id |-> 0, IP |-> 0, port |-> 0]
READY == [at |-> "ready", sockfd |-> 0, request |-> [IP |-> 0, port |-> 0, dest |-> 0]]
DEAD == [READY EXCEPT !.at = "dead"]

\* The least of a set of slots or descriptors.
IsFirst(i, S) == i \in S /\ \A j \in S : i <= j

InCall(p) == call[p].at \notin {"ready", "dead"}
Goto(p, l) == call' = [call EXCEPT ![p].at = l]

\* p can start a call that needs the daemon.  OneAtATime is not a test that
\* the library makes: it says that the environment keeps calls apart, as
\* runner.sh does, which starts one program every two seconds.
MayCall(p, c) == /\ c \in Calls
                 /\ call[p].at = "ready"
                 /\ OneAtATime => \A q \in Procs : ~InCall(q)

Init ==
  /\ SM = [i \in Slots |-> [socket_alloted |-> 0, process_id |-> NOBODY,
                            udp_socket_id |-> -1, destination_addr |-> 0]]
  /\ sock_info = EMPTY
  /\ Sem1 = 0
  /\ Sem2 = 0
  /\ udp = [fd \in Fds |-> CLOSED]
  /\ call = [p \in Procs |-> READY]
  /\ opened = [p \in Procs |-> {}]

-----------------------------------------------------------------------------
(* m_socket.                                                               *)

FreeSlots == {i \in Slots : SM[i].socket_alloted = 0}

\* Mutant of FindFreeEntry: it does not look whether there was a free entry.
FindFreeEntryUnchecked(p) ==
  /\ MayCall(p, "m_socket")
  /\ \E i \in Slots \union {-1} :
       /\ IsFirst(i, FreeSlots) \/ (FreeSlots = {} /\ i = -1)
       /\ call' = [call EXCEPT ![p].at = "post_socket", ![p].sockfd = i]
  /\ UNCHANGED <<SM, sock_info, Sem1, Sem2, udp, opened>>

\* The first free entry; with none the call fails with ENOBUFS.
FindFreeEntry(p) ==
  /\ MayCall(p, "m_socket")
  /\ \E i \in Slots :
       /\ IsFirst(i, FreeSlots)
       /\ call' = [call EXCEPT ![p].at = "post_socket", ![p].sockfd = i]
  /\ UNCHANGED <<SM, sock_info, Sem1, Sem2, udp, opened>>

\* Both calls signal the daemon ...
PostRequest(p) ==
  /\ call[p].at \in {"post_socket", "post_bind"}
  /\ Sem1' = Sem1 + 1
  /\ Goto(p, IF call[p].at = "post_socket" THEN "wait_socket" ELSE "wait_bind")
  /\ UNCHANGED <<SM, sock_info, Sem2, udp, opened>>

\* ... and wait for its answer, which may be that it failed.
TakeAnswer(p) ==
  /\ call[p].at \in {"wait_socket", "wait_bind"}
  /\ Sem2 > 0
  /\ Sem2' = Sem2 - 1
  /\ Goto(p, CASE sock_info.sock_id = -1 -> "reset"
               [] sock_info.sock_id # -1 /\ call[p].at = "wait_socket" -> "fill_socket"
               [] sock_info.sock_id # -1 /\ call[p].at = "wait_bind" -> "fill_bind")
  /\ UNCHANGED <<SM, sock_info, Sem1, udp, opened>>

\* Mutant of NewEntry: the peer of the entry's previous user is not cleared.
NewEntryWithPeer(p) == [SM[call[p].sockfd] EXCEPT !.socket_alloted = 1, !.process_id = p,
                                                  !.udp_socket_id = sock_info.sock_id]
\* The entry as m_socket leaves it.
NewEntry(p) == [socket_alloted |-> 1, process_id |-> p,
                udp_socket_id |-> sock_info.sock_id, destination_addr |-> 0]

FillEntry(p) ==
  /\ call[p].at = "fill_socket"
  /\ SM' = [SM EXCEPT ![call[p].sockfd] = NewEntry(p)]
  /\ Goto(p, "reset_socket")
  /\ UNCHANGED <<sock_info, Sem1, Sem2, udp, opened>>

\* Mutant of Return: a call that failed returns without clearing sock_info.
ReturnUncleared(p) ==
  /\ call[p].at \in {"reset_socket", "reset"}
  /\ sock_info' = IF sock_info.sock_id = -1 THEN sock_info ELSE EMPTY
  /\ opened' = IF call[p].at = "reset_socket"
                 THEN [opened EXCEPT ![p] = @ \union {call[p].sockfd}] ELSE opened
  /\ call' = [call EXCEPT ![p] = READY]
  /\ UNCHANGED <<SM, Sem1, Sem2, udp>>

\* Both calls clear sock_info and return.
Return(p) ==
  /\ call[p].at \in {"reset_socket", "reset"}
  /\ sock_info' = EMPTY
  /\ opened' = IF call[p].at = "reset_socket"
                 THEN [opened EXCEPT ![p] = @ \union {call[p].sockfd}] ELSE opened
  /\ call' = [call EXCEPT ![p] = READY]
  /\ UNCHANGED <<SM, Sem1, Sem2, udp>>

-----------------------------------------------------------------------------
(* m_bind.  The owner is checked, not that the entry is allotted; with     *)
(* another owner the call fails with EBADF.                                *)

CheckOwner(p) ==
  /\ MayCall(p, "m_bind")
  /\ \E i \in Slots, r \in Requests :
       /\ SM[i].process_id = p
       /\ call' = [call EXCEPT ![p] = [at |-> "write_sock_id", sockfd |-> i, request |-> r]]
  /\ UNCHANGED <<SM, sock_info, Sem1, Sem2, udp, opened>>

\* The request is written field by field, without a lock.
WriteRequest(p) ==
  /\ \/ /\ call[p].at = "write_sock_id"
        /\ sock_info' = [sock_info EXCEPT !.sock_id = SM[call[p].sockfd].udp_socket_id]
        /\ Goto(p, "write_IP")
     \/ /\ call[p].at = "write_IP"
        /\ sock_info' = [sock_info EXCEPT !.IP = call[p].request.IP]
        /\ Goto(p, "write_port")
     \/ /\ call[p].at = "write_port"
        /\ sock_info' = [sock_info EXCEPT !.port = call[p].request.port]
        /\ Goto(p, "post_bind")
  /\ UNCHANGED <<SM, Sem1, Sem2, udp, opened>>

SetDestination(p) ==
  /\ call[p].at = "fill_bind"
  /\ SM' = [SM EXCEPT ![call[p].sockfd].destination_addr = call[p].request.dest]
  /\ Goto(p, "reset")
  /\ UNCHANGED <<sock_info, Sem1, Sem2, udp, opened>>

-----------------------------------------------------------------------------
(* m_close: the entry is free; its UDP socket, owner and address stay.     *)

\* Mutant of m_close: the caller need not be the owner.
m_closeOfAnyone(p) ==
  /\ "m_close" \in Calls
  /\ call[p].at = "ready"
  /\ \E i \in Slots :
       /\ SM[i].socket_alloted # 0
       /\ SM' = [SM EXCEPT ![i].socket_alloted = 0]
       /\ opened' = [opened EXCEPT ![p] = @ \ {i}]
  /\ UNCHANGED <<sock_info, Sem1, Sem2, udp, call>>

m_close(p) ==
  /\ "m_close" \in Calls
  /\ call[p].at = "ready"
  /\ \E i \in Slots :
       /\ SM[i].socket_alloted # 0
       /\ SM[i].process_id = p
       /\ SM' = [SM EXCEPT ![i].socket_alloted = 0]
       /\ opened' = [opened EXCEPT ![p] = @ \ {i}]
  /\ UNCHANGED <<sock_info, Sem1, Sem2, udp, call>>

-----------------------------------------------------------------------------
(* The loop of the daemon: the kind of request is told by what is zero.    *)

Answer(fd, u) ==
  /\ Sem2' = Sem2 + 1
  /\ sock_info' = [sock_info EXCEPT !.sock_id = fd]
  /\ udp' = u

\* Mutant of ServeSocket: when socket() fails, the caller is not told.
ServeSocketSilent ==
  /\ sock_info = EMPTY
  /\ \/ \E fd \in Fds : IsFirst(fd, FreeFds) /\ Answer(fd, [udp EXCEPT ![fd] = UNBOUND])
     \/ FreeFds = {} /\ UNCHANGED <<sock_info, Sem2, udp>>
ServeSocket ==
  /\ sock_info = EMPTY
  /\ \/ \E fd \in Fds : IsFirst(fd, FreeFds) /\ Answer(fd, [udp EXCEPT ![fd] = UNBOUND])
     \/ FreeFds = {} /\ Answer(-1, udp)

\* Mutant of ServeBind: when bind() fails, sock_id is left as it is.
ServeBindUnreported ==
  /\ sock_info.sock_id # 0
  /\ sock_info.port # 0
  /\ Answer(sock_info.sock_id,
            IF CanBind(sock_info.sock_id, sock_info)
              THEN [udp EXCEPT ![sock_info.sock_id].IP = sock_info.IP,
                               ![sock_info.sock_id].port = sock_info.port]
              ELSE udp)
ServeBind ==
  /\ sock_info.sock_id # 0
  /\ sock_info.port # 0
  /\ IF CanBind(sock_info.sock_id, sock_info)
       THEN Answer(sock_info.sock_id,
                   [udp EXCEPT ![sock_info.sock_id].IP = sock_info.IP,
                               ![sock_info.sock_id].port = sock_info.port])
       ELSE Answer(-1, udp)

ServeClose ==
  /\ sock_info.sock_id # 0
  /\ sock_info.IP = 0
  /\ sock_info.port = 0
  /\ IF sock_info.sock_id \in Fds \ FreeFds
       THEN Answer(sock_info.sock_id, [udp EXCEPT ![sock_info.sock_id] = CLOSED])
       ELSE Answer(-1, udp)

\* A request that is neither is dropped, and nobody is answered.
ServeNothing ==
  /\ \/ sock_info.sock_id = 0 /\ sock_info # EMPTY
     \/ sock_info.sock_id # 0 /\ sock_info.IP # 0 /\ sock_info.port = 0
  /\ UNCHANGED <<sock_info, Sem2, udp>>

Serve ==
  /\ Sem1 > 0
  /\ Sem1' = Sem1 - 1
  /\ ServeSocket \/ ServeBind \/ ServeClose \/ ServeNothing
  /\ UNCHANGED <<SM, call, opened>>

-----------------------------------------------------------------------------
(* Processes die; thread G frees what they had.                            *)

Kill(p) ==
  /\ call[p].at # "dead"
  /\ InCall(p) => KilledInCalls
  /\ call' = [call EXCEPT ![p] = DEAD]
  /\ opened' = [opened EXCEPT ![p] = {}]
  /\ UNCHANGED <<SM, sock_info, Sem1, Sem2, udp>>

\* Mutant of Orphans: entries that are free already are collected again.
OrphansAnyEntry == {i \in Slots : /\ SM[i].process_id \in Procs
                                  /\ call[SM[i].process_id].at = "dead"}
Orphans == {i \in Slots : /\ SM[i].socket_alloted > 0
                          /\ SM[i].process_id \in Procs
                          /\ call[SM[i].process_id].at = "dead"}

\* Mutant of thread_G: the entries are freed, and their UDP sockets are not closed.
thread_GLeavesOpen ==
  /\ Orphans # {}
  /\ SM' = [i \in Slots |-> IF i \in Orphans THEN [SM[i] EXCEPT !.socket_alloted = 0] ELSE SM[i]]
  /\ UNCHANGED <<sock_info, Sem1, Sem2, udp, call, opened>>
thread_G ==
  /\ Orphans # {}
  /\ udp' = [fd \in Fds |-> IF \E i \in Orphans : SM[i].udp_socket_id = fd
                              THEN CLOSED ELSE udp[fd]]
  /\ SM' = [i \in Slots |-> IF i \in Orphans THEN [SM[i] EXCEPT !.socket_alloted = 0] ELSE SM[i]]
  /\ UNCHANGED <<sock_info, Sem1, Sem2, call, opened>>

\* The steps inside a call.
Step(p) == PostRequest(p) \/ TakeAnswer(p) \/ FillEntry(p) \/ WriteRequest(p)
             \/ SetDestination(p) \/ Return(p)

Next == \/ \E p \in Procs : \/ FindFreeEntry(p) \/ CheckOwner(p) \/ m_close(p)
                            \/ Step(p)
                            \/ Kill(p)
        \/ Serve
        \/ thread_G

Spec == Init /\ [][Next]_vars

\* Processes in a call, the loop of the daemon and thread G keep running.
FairSpec == /\ Spec
            /\ \A p \in Procs : WF_vars(Step(p))
            /\ WF_vars(Serve)
            /\ WF_vars(thread_G)
-----------------------------------------------------------------------------
(* Properties.                                                             *)

Places == {"ready", "dead",
           "post_socket", "wait_socket", "fill_socket", "reset_socket",
           "write_sock_id", "write_IP", "write_port", "post_bind", "wait_bind", "fill_bind",
           "reset"}

Entry == [socket_alloted : {0, 1}, process_id : Procs \union {NOBODY},
          udp_socket_id : Fds \union {-1, 0}, destination_addr : Nat]
Call == [at : Places, sockfd : Slots, request : Request]
Descriptor == [open : BOOLEAN, IP : Nat, port : Nat]

\* Types; the entries of sock_info and of the table hold what the daemon may
\* have answered, 0 and -1 included.
TypeOK ==
  /\ SM \in [Slots -> Entry]
  /\ sock_info \in [sock_id : Fds \union {-1, 0}, IP : Nat, port : Nat]
  /\ Sem1 \in Nat
  /\ Sem2 \in Nat
  /\ udp \in [Fds -> Descriptor]
  /\ call \in [Procs -> Call]
  /\ opened \in [Procs -> SUBSET Slots]

Allotted == {i \in Slots : SM[i].socket_alloted = 1}

\* Every allotted entry has an open UDP socket that no other allotted entry
\* has: whatever m_socket, m_close, the daemon and thread G do to slots and
\* descriptors, two MTP sockets do not read each other's datagrams.
SocketIsOwn ==
  \A i \in Allotted :
    /\ SM[i].udp_socket_id \in Fds \ FreeFds
    /\ \A j \in Allotted : SM[j].udp_socket_id = SM[i].udp_socket_id => j = i

\* A descriptor that m_socket returned, until it is closed, is that process's
\* entry: no other call takes it over, and thread G does not free it.
DescriptorsAreOwn ==
  \A p \in Procs : \A i \in opened[p] : i \in Allotted /\ SM[i].process_id = p

\* When m_bind is about to succeed, the UDP socket of the entry is bound to
\* the address the caller asked for.
BoundAsAsked ==
  \A p \in Procs : call[p].at = "fill_bind" =>
    LET fd == SM[call[p].sockfd].udp_socket_id
        r == call[p].request
    IN  fd \in Fds /\ udp[fd] = [open |-> TRUE, IP |-> r.IP, port |-> r.port]

\* Between calls the handshake is at rest: no request or answer is left over
\* in the semaphores or in sock_info, to be taken for one of the next call.
HandshakeAtRest ==
  (\A p \in Procs : ~InCall(p)) => Sem1 = 0 /\ Sem2 = 0 /\ sock_info = EMPTY

\* UDP sockets that are open although no allotted entry has them and no
\* m_socket is about to note them: the daemon can neither use nor close them.
Noted == {SM[i].udp_socket_id : i \in Allotted}
OnTheWay == {fd \in Fds : /\ sock_info.sock_id = fd
                          /\ \E p \in Procs : call[p].at \in {"wait_socket", "fill_socket"}}
Leaked == (Fds \ FreeFds) \ (Noted \union OnTheWay)

\* m_close is the only step that leaks a UDP socket, that of the entry it
\* frees: none gets lost between the daemon and the entry of the caller, in a
\* call that fails, in an m_bind of a closed entry, or when thread G reclaims
\* the entries of the dead.
OnlyCloseLeaks ==
  [][\A fd \in Leaked' \ Leaked :
       /\ \E p \in Procs : m_close(p)
       /\ \E i \in Allotted \ Allotted' : SM[i].udp_socket_id = fd]_vars

\* A call of a process that is not killed returns.
CallsReturn == \A p \in Procs : InCall(p) ~> ~InCall(p)

\* The table as SocketTable sees it: m_socket takes effect when the entry is
\* filled, m_bind when the peer is set.
owner == [i \in Slots |-> IF i \in Allotted THEN SM[i].process_id ELSE NOBODY]
address == [i \in Slots |-> IF i \in Allotted /\ SM[i].destination_addr # 0
                             THEN [IP |-> udp[SM[i].udp_socket_id].IP,
                                   port |-> udp[SM[i].udp_socket_id].port,
                                   dest |-> SM[i].destination_addr]
                             ELSE READY.request]
live == {p \in Procs : call[p].at # "dead"}

Table == INSTANCE SocketTable WITH Addresses <- Requests, Nobody <- NOBODY,
                                   NoAddress <- READY.request

\* Callers that take turns see a table on which every call takes effect at
\* once: a slot has one owner, a new socket inherits no address, an address
\* does not change, and the slots of the dead are reclaimed.
ImplementsTable == Table!Spec
=============================================================================
