-------------------------- MODULE MTPSocketsProofs --------------------------
(***************************************************************************)
(* Proofs about MTPSockets.  The types hold for all callers.  The rest is  *)
(* for callers that take turns and are not killed inside a call: then the  *)
(* handshake through sock_info is a sequence of requests and answers, and  *)
(* every entry in use has an open UDP socket of its own.                   *)
(***************************************************************************)
EXTENDS MTPSockets, TLAPS

-----------------------------------------------------------------------------
(* The inductive invariant.                                                *)

\* The callers the invariant is about.
Orderly == OneAtATime /\ ~KilledInCalls /\ \A r \in Requests : r.port # 0

OneCaller == \A p, q \in Procs : InCall(p) /\ InCall(q) => p = q

DeadHaveNone == \A p \in Procs : call[p].at = "dead" => opened[p] = {}

\* Entries whose UDP socket may still be used: the allotted ones, and those
\* closed by a process that is alive, which may still bind them.
Held == {i \in Slots : \/ SM[i].socket_alloted = 1
                       \/ /\ SM[i].process_id \in Procs
                          /\ call[SM[i].process_id].at # "dead"}

SocketsHeld ==
  /\ \A i \in Held : /\ SM[i].process_id \in Procs
                     /\ SM[i].udp_socket_id \in Fds
                     /\ udp[SM[i].udp_socket_id].open
  /\ \A i, j \in Held : SM[i].udp_socket_id = SM[j].udp_socket_id => i = j

\* An open descriptor that no entry holds.
Spare(fd) == /\ fd \in Fds
             /\ udp[fd].open
             /\ \A i \in Held : SM[i].udp_socket_id # fd

AtRest == Sem1 = 0 /\ Sem2 = 0
Asked == Sem1 = 1 /\ Sem2 = 0
Answered == Sem1 = 0 /\ Sem2 = 1

\* The handshake of a caller of m_socket.
SocketCall(p) ==
  LET c == call[p]
  IN  /\ c.at \in {"post_socket", "wait_socket", "fill_socket"} =>
           SM[c.sockfd].socket_alloted = 0
      /\ c.at = "post_socket" => AtRest /\ sock_info = EMPTY
      /\ c.at = "wait_socket" =>
           \/ Asked /\ sock_info = EMPTY
           \/ Answered /\ (sock_info.sock_id = -1 \/ Spare(sock_info.sock_id))
      /\ c.at = "fill_socket" => AtRest /\ Spare(sock_info.sock_id)
      /\ c.at = "reset_socket" =>
           /\ AtRest
           /\ SM[c.sockfd].socket_alloted = 1
           /\ SM[c.sockfd].process_id = p

\* The request of a caller of m_bind, in full, and the socket bound as asked.
Requested(c) == sock_info = [sock_id |-> SM[c.sockfd].udp_socket_id,
                             IP |-> c.request.IP, port |-> c.request.port]
Bound(c) == udp[SM[c.sockfd].udp_socket_id] =
              [open |-> TRUE, IP |-> c.request.IP, port |-> c.request.port]

\* The handshake of a caller of m_bind.
BindCall(p) ==
  LET c == call[p]
  IN  /\ c.at \in {"write_sock_id", "write_IP", "write_port", "post_bind",
                   "wait_bind", "fill_bind"} =>
           SM[c.sockfd].process_id = p /\ c.request.port # 0
      /\ c.at = "write_sock_id" => AtRest /\ sock_info = EMPTY
      /\ c.at = "write_IP" =>
           AtRest /\ sock_info = [EMPTY EXCEPT !.sock_id = SM[c.sockfd].udp_socket_id]
      /\ c.at = "write_port" =>
           AtRest /\ sock_info = [EMPTY EXCEPT !.sock_id = SM[c.sockfd].udp_socket_id,
                                               !.IP = c.request.IP]
      /\ c.at = "post_bind" => AtRest /\ Requested(c)
      /\ c.at = "wait_bind" =>
           \/ Asked /\ Requested(c)
           \/ Answered /\ (sock_info.sock_id = -1 \/ Bound(c))
      /\ c.at = "fill_bind" => AtRest /\ Bound(c)
      /\ c.at = "reset" => AtRest

IInv == /\ OneCaller
        /\ SocketsHeld
        /\ DescriptorsAreOwn
        /\ DeadHaveNone
        /\ HandshakeAtRest
        /\ \A p \in Procs : SocketCall(p) /\ BindCall(p)
-----------------------------------------------------------------------------
(* Types.                                                                  *)

LEMMA TypeInit == Init => TypeOK
<1> SUFFICES ASSUME Init PROVE TypeOK
  OBVIOUS
<1>1. 0 \in Slots
  BY TableAssumption, SMT DEF Slots
<1>2. READY \in Call
  BY <1>1 DEF READY, Call, Places, Request
<1> QED
  BY <1>2, SMT DEF Init, TypeOK, Entry, Descriptor, EMPTY, CLOSED

\* A caller that moves on.
LEMMA GotoType ==
  ASSUME TypeOK, NEW p \in Procs, NEW l \in Places, Goto(p, l)
  PROVE  call' \in [Procs -> Call]
<1>1. [call[p] EXCEPT !.at = l] \in Call
  BY Zenon DEF TypeOK, Call
<1> QED
  BY <1>1, Zenon DEF Goto, TypeOK

LEMMA TypeStep == TypeOK /\ [Next]_vars => TypeOK'
<1> SUFFICES ASSUME TypeOK, [Next]_vars PROVE TypeOK'
  OBVIOUS
<1> USE DEF Places
<1>1. ASSUME NEW p \in Procs, FindFreeEntry(p) PROVE TypeOK'
  <2>1. PICK i \in Slots : call' = [call EXCEPT ![p].at = "post_socket", ![p].sockfd = i]
    BY <1>1 DEF FindFreeEntry
  <2>2. [at |-> "post_socket", sockfd |-> i, request |-> call[p].request] \in Call
    BY DEF TypeOK, Call
  <2>3. call' \in [Procs -> Call]
    BY <2>1, <2>2 DEF TypeOK, Call
  <2> QED
    BY <1>1, <2>3 DEF FindFreeEntry, TypeOK
<1>2. ASSUME NEW p \in Procs, CheckOwner(p) PROVE TypeOK'
  <2>1. PICK i \in Slots, r \in Requests :
          call' = [call EXCEPT ![p] = [at |-> "write_sock_id", sockfd |-> i, request |-> r]]
    BY <1>2 DEF CheckOwner
  <2>2. [at |-> "write_sock_id", sockfd |-> i, request |-> r] \in Call
    BY CallAssumption DEF Call
  <2>3. call' \in [Procs -> Call]
    BY <2>1, <2>2, Zenon DEF TypeOK
  <2> QED
    BY <1>2, <2>3 DEF CheckOwner, TypeOK
<1>3. ASSUME NEW p \in Procs, m_close(p) PROVE TypeOK'
  <2>1. PICK i \in Slots : /\ SM' = [SM EXCEPT ![i].socket_alloted = 0]
                           /\ opened' = [opened EXCEPT ![p] = @ \ {i}]
    BY <1>3 DEF m_close
  <2>2. SM' \in [Slots -> Entry]
    BY <2>1 DEF TypeOK, Entry
  <2>3. opened' \in [Procs -> SUBSET Slots]
    BY <2>1 DEF TypeOK
  <2> QED
    BY <1>3, <2>2, <2>3 DEF m_close, TypeOK
<1>4. ASSUME NEW p \in Procs, PostRequest(p) PROVE TypeOK'
  <2>1. \E l \in Places : Goto(p, l)
    BY <1>4 DEF PostRequest
  <2>2. call' \in [Procs -> Call]
    BY <2>1, GotoType
  <2> QED
    BY <1>4, <2>2 DEF PostRequest, TypeOK
<1>5. ASSUME NEW p \in Procs, TakeAnswer(p) PROVE TypeOK'
  <2>1. Sem2' \in Nat
    BY <1>5 DEF TakeAnswer, TypeOK
  <2>2. \E l \in Places : Goto(p, l)
    BY <1>5 DEF TakeAnswer
  <2>3. call' \in [Procs -> Call]
    BY <2>2, GotoType
  <2> QED
    BY <1>5, <2>1, <2>3 DEF TakeAnswer, TypeOK
<1>6. ASSUME NEW p \in Procs, FillEntry(p) PROVE TypeOK'
  <2>1. NewEntry(p) \in Entry
    BY DEF NewEntry, TypeOK, Entry
  <2>2. SM' \in [Slots -> Entry]
    BY <1>6, <2>1, Zenon DEF FillEntry, TypeOK
  <2>3. call' \in [Procs -> Call]
    BY <1>6, GotoType DEF FillEntry
  <2> QED
    BY <1>6, <2>2, <2>3 DEF FillEntry, TypeOK
<1>7. ASSUME NEW p \in Procs, WriteRequest(p) PROVE TypeOK'
  <2>1. call[p].sockfd \in Slots /\ call[p].request.IP \in Nat /\ call[p].request.port \in Nat
    BY DEF TypeOK, Call, Request
  <2>2. SM[call[p].sockfd].udp_socket_id \in Fds \union {-1, 0}
    BY <2>1 DEF TypeOK, Entry
  <2>3. sock_info' \in [sock_id : Fds \union {-1, 0}, IP : Nat, port : Nat]
    BY <1>7, <2>1, <2>2 DEF WriteRequest, TypeOK
  <2>4. call' \in [Procs -> Call]
    BY <1>7, GotoType DEF WriteRequest
  <2> QED
    BY <1>7, <2>3, <2>4 DEF WriteRequest, TypeOK
<1>8. ASSUME NEW p \in Procs, SetDestination(p) PROVE TypeOK'
  <2>1. call[p].sockfd \in Slots /\ call[p].request.dest \in Nat
    BY DEF TypeOK, Call, Request
  <2>2. SM' \in [Slots -> Entry]
    BY <1>8, <2>1 DEF SetDestination, TypeOK, Entry
  <2>3. call' \in [Procs -> Call]
    BY <1>8, GotoType DEF SetDestination
  <2> QED
    BY <1>8, <2>2, <2>3 DEF SetDestination, TypeOK
<1>9. READY \in Call /\ DEAD \in Call
  BY TableAssumption, SMT DEF READY, DEAD, Call, Request, Slots
<1>10. ASSUME NEW p \in Procs, Return(p) PROVE TypeOK'
  <2>1. call' \in [Procs -> Call]
    BY <1>9, <1>10, Zenon DEF Return, TypeOK
  <2>2. opened' \in [Procs -> SUBSET Slots]
    BY <1>10 DEF Return, TypeOK, Call
  <2> QED
    BY <1>10, <2>1, <2>2 DEF Return, EMPTY, TypeOK
<1>11. ASSUME NEW p \in Procs, Kill(p) PROVE TypeOK'
  <2>1. call' \in [Procs -> Call]
    BY <1>9, <1>11, Zenon DEF Kill, TypeOK
  <2> QED
    BY <1>11, <2>1 DEF Kill, TypeOK
<1>12. ASSUME Serve PROVE TypeOK'
  <2>1. Sem1' \in Nat
    BY <1>12 DEF Serve, TypeOK
  <2>2. ASSUME NEW fd \in Fds \union {-1, 0}, NEW u \in [Fds -> Descriptor], Answer(fd, u)
        PROVE TypeOK'
    BY <1>12, <2>1, <2>2 DEF Serve, Answer, TypeOK
  <2>3. CASE ServeSocket
    <3>1. ASSUME NEW fd \in Fds PROVE [udp EXCEPT ![fd] = UNBOUND] \in [Fds -> Descriptor]
      BY DEF UNBOUND, TypeOK, Descriptor
    <3> QED
      BY <2>2, <2>3, <3>1 DEF ServeSocket, TypeOK
  <2>4. CASE ServeBind
    <3>1. CASE CanBind(sock_info.sock_id, sock_info)
      <4>1. [udp EXCEPT ![sock_info.sock_id].IP = sock_info.IP,
                        ![sock_info.sock_id].port = sock_info.port] \in [Fds -> Descriptor]
        BY <3>1 DEF CanBind, TypeOK, Descriptor
      <4> QED
        BY <2>2, <2>4, <3>1, <4>1 DEF ServeBind, CanBind
    <3>2. CASE ~CanBind(sock_info.sock_id, sock_info)
      BY <2>2, <2>4, <3>2 DEF ServeBind, TypeOK
    <3> QED
      BY <3>1, <3>2
  <2>5. CASE ServeClose
    <3>1. ASSUME NEW fd \in Fds PROVE [udp EXCEPT ![fd] = CLOSED] \in [Fds -> Descriptor]
      BY DEF CLOSED, TypeOK, Descriptor
    <3> QED
      BY <2>2, <2>5, <3>1 DEF ServeClose, TypeOK
  <2>6. CASE ServeNothing
    BY <1>12, <2>1, <2>6 DEF Serve, ServeNothing, TypeOK
  <2> QED
    BY <1>12, <2>3, <2>4, <2>5, <2>6 DEF Serve
<1>13. ASSUME thread_G PROVE TypeOK'
  <2>1. udp' \in [Fds -> Descriptor]
    BY <1>13 DEF thread_G, CLOSED, TypeOK, Descriptor
  <2>2. SM' \in [Slots -> Entry]
    BY <1>13 DEF thread_G, TypeOK, Entry
  <2> QED
    BY <1>13, <2>1, <2>2 DEF thread_G, TypeOK
<1>14. CASE UNCHANGED vars
  BY <1>14 DEF vars, TypeOK
<1> QED
  BY <1>1, <1>2, <1>3, <1>4, <1>5, <1>6, <1>7, <1>8, <1>10, <1>11, <1>12, <1>13, <1>14
  DEF Next, Step

\* The types of the table, of sock_info and of the semaphores, whoever calls
\* and dies, and whenever.
THEOREM SocketsTypeCorrect == Spec => []TypeOK
  BY TypeInit, TypeStep, PTL DEF Spec

-----------------------------------------------------------------------------
(* The handshake, for callers that take turns.                             *)

\* No descriptor of a UDP socket looks like an empty or a failed request.
LEMMA FdIsNeither == \A fd \in Fds : fd # 0 /\ fd # -1
  BY TableAssumption, SMT

LEMMA InvInit == Init => IInv
<1> SUFFICES ASSUME Init PROVE IInv
  OBVIOUS
<1>1. \A p \in Procs : call[p].at = "ready" /\ opened[p] = {}
  BY DEF Init, READY
<1>2. Held = {}
  BY TableAssumption DEF Init, Held
<1> QED
  BY <1>1, <1>2
  DEF Init, IInv, OneCaller, InCall, SocketsHeld, DescriptorsAreOwn, DeadHaveNone,
      HandshakeAtRest, SocketCall, BindCall

\* While p is in a call the others are not, and while p moves they stay.
LEMMA Alone ==
  ASSUME TypeOK, OneCaller, NEW p \in Procs, NEW c \in Call,
         InCall(p) \/ \A q \in Procs : ~InCall(q),
         call' = [call EXCEPT ![p] = c]
  PROVE  /\ OneCaller'
         /\ call'[p] = c
         /\ \A q \in Procs \ {p} : /\ call'[q] = call[q]
                                   /\ call'[q].at \in {"ready", "dead"}
                                   /\ SocketCall(q)' /\ BindCall(q)'
<1>1. /\ call'[p] = c
      /\ \A q \in Procs \ {p} : call'[q] = call[q]
  BY DEF TypeOK
<1>2. ASSUME NEW q \in Procs \ {p} PROVE call'[q].at \in {"ready", "dead"}
  BY <1>1, <1>2 DEF OneCaller, InCall
<1>3. OneCaller'
  BY <1>1, <1>2 DEF OneCaller, InCall
<1>4. ASSUME NEW q \in Procs \ {p} PROVE SocketCall(q)' /\ BindCall(q)'
  BY <1>2 DEF SocketCall, BindCall
<1> QED
  BY <1>1, <1>2, <1>3, <1>4

\* A step of a caller that leaves the table and the UDP sockets alone.
LEMMA TableStays ==
  ASSUME TypeOK, IInv, NEW p \in Procs, NEW c \in Call,
         call[p].at # "dead", c.at # "dead",
         call' = [call EXCEPT ![p] = c], SM' = SM, udp' = udp
  PROVE  Held' = Held /\ SocketsHeld'
<1>1. \A q \in Procs : call'[q].at = "dead" <=> call[q].at = "dead"
  BY DEF TypeOK
<1>2. Held' = Held
  BY <1>1 DEF Held
<1> QED
  BY <1>2 DEF IInv, SocketsHeld

\* A caller that moves on within its call.
LEMMA Move ==
  ASSUME TypeOK, IInv, NEW p \in Procs, NEW l \in Places \ {"dead"}, InCall(p), Goto(p, l)
  PROVE  /\ OneCaller'
         /\ call'[p].at = l
         /\ call'[p].sockfd = call[p].sockfd
         /\ call'[p].request = call[p].request
         /\ \A q \in Procs \ {p} : /\ call'[q] = call[q]
                                   /\ SocketCall(q)' /\ BindCall(q)'
         /\ SM' = SM /\ udp' = udp => Held' = Held /\ SocketsHeld'
<1> DEFINE c == [call[p] EXCEPT !.at = l]
<1>1. c \in Call /\ c.at = l /\ c.sockfd = call[p].sockfd /\ c.request = call[p].request
  BY DEF TypeOK, Call
<1>2. call' = [call EXCEPT ![p] = c]
  BY DEF Goto
<1>3. call[p].at # "dead" /\ c.at # "dead"
  BY <1>1 DEF InCall
<1> HIDE DEF c
<1> QED
  BY <1>1, <1>2, <1>3, Alone, TableStays DEF IInv

LEMMA PostRequestInv ==
  ASSUME TypeOK, IInv, NEW p \in Procs, PostRequest(p)
  PROVE  IInv'
<1>1. SocketCall(p) /\ BindCall(p)
  BY DEF IInv
<1>2. Asked' /\ sock_info' = sock_info /\ SM' = SM /\ udp' = udp /\ opened' = opened
  BY <1>1, SMT DEF PostRequest, SocketCall, BindCall, AtRest, Asked
<1> DEFINE l == IF call[p].at = "post_socket" THEN "wait_socket" ELSE "wait_bind"
<1>3. InCall(p) /\ Goto(p, l) /\ l \in Places \ {"dead"}
  BY DEF PostRequest, InCall, Places
<1> HIDE DEF l
<1>4. /\ OneCaller'
      /\ call'[p].at = l
      /\ call'[p].sockfd = call[p].sockfd
      /\ call'[p].request = call[p].request
      /\ \A q \in Procs \ {p} : call'[q] = call[q] /\ SocketCall(q)' /\ BindCall(q)'
      /\ Held' = Held /\ SocketsHeld'
  BY <1>2, <1>3, Move
<1>5. SocketCall(p)' /\ BindCall(p)'
  <2>1. CASE call[p].at = "post_socket"
    <3>1. l = "wait_socket"
      BY <2>1 DEF l
    <3> QED
      BY <1>1, <1>2, <1>4, <2>1, <3>1 DEF SocketCall, BindCall
  <2>2. CASE call[p].at = "post_bind"
    <3>1. l = "wait_bind"
      BY <2>2 DEF l
    <3> QED
      BY <1>1, <1>2, <1>4, <2>2, <3>1 DEF SocketCall, BindCall, Requested
  <2> QED
    BY <2>1, <2>2 DEF PostRequest
<1>6. DescriptorsAreOwn' /\ DeadHaveNone'
  BY <1>2, <1>3, <1>4 DEF IInv, DescriptorsAreOwn, DeadHaveNone, Allotted
<1>7. HandshakeAtRest'
  BY <1>3, <1>4 DEF HandshakeAtRest, InCall, l
<1> QED
  BY <1>4, <1>5, <1>6, <1>7 DEF IInv

LEMMA TakeAnswerInv ==
  ASSUME TypeOK, IInv, NEW p \in Procs, TakeAnswer(p)
  PROVE  IInv'
<1>1. SocketCall(p) /\ BindCall(p)
  BY DEF IInv
<1>2. Answered
  BY <1>1 DEF TakeAnswer, SocketCall, BindCall, Asked
<1>3. AtRest' /\ sock_info' = sock_info /\ SM' = SM /\ udp' = udp /\ opened' = opened
  BY <1>2 DEF TakeAnswer, Answered, AtRest
<1> DEFINE l == CASE sock_info.sock_id = -1 -> "reset"
                  [] sock_info.sock_id # -1 /\ call[p].at = "wait_socket" -> "fill_socket"
                  [] sock_info.sock_id # -1 /\ call[p].at = "wait_bind" -> "fill_bind"
<1>4. InCall(p) /\ Goto(p, l) /\ l \in Places \ {"dead"}
  BY DEF TakeAnswer, InCall, Places
<1>5. /\ sock_info.sock_id = -1 => l = "reset"
      /\ sock_info.sock_id # -1 /\ call[p].at = "wait_socket" => l = "fill_socket"
      /\ sock_info.sock_id # -1 /\ call[p].at = "wait_bind" => l = "fill_bind"
  OBVIOUS
<1> HIDE DEF l
<1>6. /\ OneCaller'
      /\ call'[p].at = l
      /\ call'[p].sockfd = call[p].sockfd
      /\ call'[p].request = call[p].request
      /\ \A q \in Procs \ {p} : call'[q] = call[q] /\ SocketCall(q)' /\ BindCall(q)'
      /\ Held' = Held /\ SocketsHeld'
  BY <1>3, <1>4, Move
<1>7. SocketCall(p)' /\ BindCall(p)'
  <2>1. CASE sock_info.sock_id = -1
    BY <1>3, <1>5, <1>6, <2>1 DEF SocketCall, BindCall
  <2>2. CASE sock_info.sock_id # -1 /\ call[p].at = "wait_socket"
    <3>1. Spare(sock_info.sock_id) /\ SM[call[p].sockfd].socket_alloted = 0
      BY <1>1, <1>2, <2>2 DEF SocketCall, Answered, Asked
    <3> QED
      BY <1>3, <1>5, <1>6, <2>2, <3>1 DEF SocketCall, BindCall, Spare
  <2>3. CASE sock_info.sock_id # -1 /\ call[p].at = "wait_bind"
    <3>1. /\ Bound(call[p])
          /\ SM[call[p].sockfd].process_id = p /\ call[p].request.port # 0
      BY <1>1, <1>2, <2>3 DEF BindCall, Answered, Asked
    <3> QED
      BY <1>3, <1>5, <1>6, <2>3, <3>1 DEF SocketCall, BindCall, Bound
  <2> QED
    BY <2>1, <2>2, <2>3 DEF TakeAnswer
<1>8. DescriptorsAreOwn' /\ DeadHaveNone'
  BY <1>3, <1>4, <1>6 DEF IInv, DescriptorsAreOwn, DeadHaveNone, Allotted
<1>9. HandshakeAtRest'
  BY <1>4, <1>5, <1>6 DEF TakeAnswer, HandshakeAtRest, InCall
<1> QED
  BY <1>6, <1>7, <1>8, <1>9 DEF IInv

LEMMA WriteRequestInv ==
  ASSUME TypeOK, IInv, NEW p \in Procs, WriteRequest(p)
  PROVE  IInv'
<1>1. BindCall(p)
  BY DEF IInv
<1>2. AtRest' /\ SM' = SM /\ udp' = udp /\ opened' = opened
  BY <1>1 DEF WriteRequest, BindCall, AtRest
<1>3. PICK l \in {"write_IP", "write_port", "post_bind"} : Goto(p, l)
  BY DEF WriteRequest
<1>4. InCall(p) /\ l \in Places \ {"dead"}
  BY DEF WriteRequest, InCall, Places
<1>5. /\ OneCaller'
      /\ call'[p].at = l
      /\ call'[p].sockfd = call[p].sockfd
      /\ call'[p].request = call[p].request
      /\ \A q \in Procs \ {p} : call'[q] = call[q] /\ SocketCall(q)' /\ BindCall(q)'
      /\ Held' = Held /\ SocketsHeld'
  BY <1>2, <1>3, <1>4, Move
<1>6. SocketCall(p)' /\ BindCall(p)'
  <2>1. /\ SM[call[p].sockfd].process_id = p
        /\ call[p].request.port # 0
    BY <1>1 DEF WriteRequest, BindCall
  <2>2. CASE call[p].at = "write_sock_id"
    <3>1. Goto(p, "write_IP") /\ sock_info = EMPTY
      BY <1>1, <2>2 DEF WriteRequest, BindCall
    <3>2. sock_info' = [EMPTY EXCEPT !.sock_id = SM[call[p].sockfd].udp_socket_id]
      BY <2>2, <3>1 DEF WriteRequest
    <3>3. call'[p].at = "write_IP"
      BY <3>1 DEF Goto, TypeOK, Call
    <3> QED
      BY <1>2, <1>5, <2>1, <3>2, <3>3 DEF SocketCall, BindCall
  <2>3. CASE call[p].at = "write_IP"
    <3>1. /\ Goto(p, "write_port")
          /\ sock_info = [EMPTY EXCEPT !.sock_id = SM[call[p].sockfd].udp_socket_id]
          /\ sock_info' = [sock_info EXCEPT !.IP = call[p].request.IP]
      BY <1>1, <2>3 DEF WriteRequest, BindCall
    <3>2. sock_info' = [EMPTY EXCEPT !.sock_id = SM[call[p].sockfd].udp_socket_id,
                                     !.IP = call[p].request.IP]
      BY <3>1 DEF EMPTY
    <3>3. call'[p].at = "write_port"
      BY <3>1 DEF Goto, TypeOK, Call
    <3> QED
      BY <1>2, <1>5, <2>1, <3>2, <3>3 DEF SocketCall, BindCall
  <2>4. CASE call[p].at = "write_port"
    <3>1. /\ Goto(p, "post_bind")
          /\ sock_info = [EMPTY EXCEPT !.sock_id = SM[call[p].sockfd].udp_socket_id,
                                       !.IP = call[p].request.IP]
          /\ sock_info' = [sock_info EXCEPT !.port = call[p].request.port]
      BY <1>1, <2>4 DEF WriteRequest, BindCall
    <3>2. sock_info' = [sock_id |-> SM[call[p].sockfd].udp_socket_id,
                        IP |-> call[p].request.IP, port |-> call[p].request.port]
      BY <3>1 DEF EMPTY
    <3>3. call'[p].at = "post_bind"
      BY <3>1 DEF Goto, TypeOK, Call
    <3> QED
      BY <1>2, <1>5, <2>1, <3>2, <3>3 DEF SocketCall, BindCall, Requested
  <2> QED
    BY <2>2, <2>3, <2>4 DEF WriteRequest
<1>7. DescriptorsAreOwn' /\ DeadHaveNone'
  BY <1>2, <1>4, <1>5 DEF IInv, DescriptorsAreOwn, DeadHaveNone, Allotted
<1>8. HandshakeAtRest'
  BY <1>4, <1>5 DEF HandshakeAtRest, InCall
<1> QED
  BY <1>5, <1>6, <1>7, <1>8 DEF IInv

LEMMA FillEntryInv ==
  ASSUME TypeOK, IInv, NEW p \in Procs, FillEntry(p)
  PROVE  IInv'
<1> DEFINE i == call[p].sockfd
<1> DEFINE fd == sock_info.sock_id
<1>1. /\ AtRest /\ AtRest'
      /\ fd \in Fds /\ udp[fd].open
      /\ \A j \in Held : SM[j].udp_socket_id # fd
      /\ i \in Slots /\ SM[i].socket_alloted = 0
  BY DEF IInv, SocketCall, FillEntry, Spare, AtRest, TypeOK, Call
<1>2. InCall(p) /\ Goto(p, "reset_socket") /\ "reset_socket" \in Places \ {"dead"}
  BY DEF FillEntry, InCall, Places
<1>3. /\ OneCaller'
      /\ call'[p].at = "reset_socket"
      /\ call'[p].sockfd = i
      /\ \A q \in Procs \ {p} : call'[q] = call[q] /\ SocketCall(q)' /\ BindCall(q)'
  BY <1>2, Move
<1>4. /\ SM'[i].socket_alloted = 1
      /\ SM'[i].process_id = p
      /\ SM'[i].udp_socket_id = fd
      /\ \A j \in Slots \ {i} : SM'[j] = SM[j]
      /\ udp' = udp /\ opened' = opened
  BY <1>1 DEF FillEntry, NewEntry, TypeOK
<1> HIDE DEF i, fd
<1>5. Held' \subseteq Held \union {i} /\ Held \subseteq Slots
  BY <1>2, <1>3, <1>4 DEF Held, InCall
<1>6. SocketsHeld'
  <2>1. ASSUME NEW j \in Held'
        PROVE  \/ j = i
               \/ j \in Held /\ j # i /\ SM'[j] = SM[j]
    BY <1>4, <1>5
  <2> QED
    BY <1>1, <1>4, <2>1 DEF IInv, SocketsHeld
<1>7. DescriptorsAreOwn'
  BY <1>1, <1>4 DEF IInv, DescriptorsAreOwn, Allotted, TypeOK
<1>8. DeadHaveNone' /\ HandshakeAtRest'
  BY <1>2, <1>3, <1>4 DEF IInv, DeadHaveNone, HandshakeAtRest, InCall
<1>9. SocketCall(p)' /\ BindCall(p)'
  BY <1>1, <1>3, <1>4 DEF SocketCall, BindCall
<1> QED
  BY <1>3, <1>6, <1>7, <1>8, <1>9 DEF IInv

LEMMA SetDestinationInv ==
  ASSUME TypeOK, IInv, NEW p \in Procs, SetDestination(p)
  PROVE  IInv'
<1>1. AtRest /\ AtRest' /\ udp' = udp /\ opened' = opened
  BY DEF IInv, BindCall, SetDestination, AtRest
<1>2. InCall(p) /\ Goto(p, "reset") /\ "reset" \in Places \ {"dead"}
  BY DEF SetDestination, InCall, Places
<1>3. /\ OneCaller'
      /\ call'[p].at = "reset"
      /\ \A q \in Procs \ {p} : call'[q] = call[q] /\ SocketCall(q)' /\ BindCall(q)'
  BY <1>2, Move
<1>4. \A j \in Slots : /\ SM'[j].socket_alloted = SM[j].socket_alloted
                       /\ SM'[j].process_id = SM[j].process_id
                       /\ SM'[j].udp_socket_id = SM[j].udp_socket_id
  BY DEF SetDestination, TypeOK, Entry
<1>5. Held' = Held
  BY <1>2, <1>3, <1>4 DEF Held, InCall
<1>6. SocketsHeld'
  BY <1>1, <1>4, <1>5 DEF IInv, SocketsHeld, Held
<1>7. DescriptorsAreOwn'
  BY <1>1, <1>4 DEF IInv, DescriptorsAreOwn, Allotted
<1>8. DeadHaveNone' /\ HandshakeAtRest'
  BY <1>1, <1>2, <1>3 DEF IInv, DeadHaveNone, HandshakeAtRest, InCall
<1>9. SocketCall(p)' /\ BindCall(p)'
  BY <1>1, <1>3 DEF SocketCall, BindCall
<1> QED
  BY <1>3, <1>6, <1>7, <1>8, <1>9 DEF IInv

LEMMA ReturnInv ==
  ASSUME TypeOK, IInv, NEW p \in Procs, Return(p)
  PROVE  IInv'
<1>1. /\ AtRest /\ AtRest' /\ sock_info' = EMPTY
      /\ SM' = SM /\ udp' = udp
      /\ call' = [call EXCEPT ![p] = READY]
  BY DEF IInv, SocketCall, BindCall, Return, AtRest
<1>2. InCall(p)
  BY DEF Return, InCall
<1>3. READY \in Call /\ READY.at = "ready"
  BY TableAssumption, SMT DEF READY, Call, Places, Request, Slots
<1> HIDE DEF READY
<1>4. /\ OneCaller'
      /\ call'[p] = READY
      /\ \A q \in Procs \ {p} : /\ call'[q] = call[q] /\ call'[q].at \in {"ready", "dead"}
                                /\ SocketCall(q)' /\ BindCall(q)'
  BY <1>1, <1>2, <1>3, Alone DEF IInv
<1>5. Held' = Held /\ SocketsHeld'
  BY <1>1, <1>2, <1>3, TableStays DEF InCall
<1>6. DescriptorsAreOwn'
  <2>1. ASSUME NEW q \in Procs, NEW j \in opened'[q]
        PROVE  SM[j].process_id = q /\ j \in Allotted
    <3>1. CASE j \in opened[q]
      BY <3>1 DEF IInv, DescriptorsAreOwn
    <3>2. CASE j \notin opened[q]
      <4>1. q = p /\ j = call[p].sockfd /\ call[p].at = "reset_socket"
        BY <2>1, <3>2 DEF Return, TypeOK
      <4> QED
        BY <4>1 DEF IInv, SocketCall, Allotted, TypeOK, Call
    <3> QED
      BY <3>1, <3>2
  <2> QED
    BY <1>1, <2>1 DEF DescriptorsAreOwn, Allotted
<1>7. DeadHaveNone'
  BY <1>2, <1>3, <1>4 DEF IInv, DeadHaveNone, Return, InCall, TypeOK
<1>8. HandshakeAtRest'
  BY <1>1 DEF HandshakeAtRest, AtRest
<1>9. SocketCall(p)' /\ BindCall(p)'
  BY <1>3, <1>4 DEF SocketCall, BindCall
<1> QED
  BY <1>4, <1>5, <1>6, <1>7, <1>8, <1>9 DEF IInv

LEMMA FindFreeEntryInv ==
  ASSUME TypeOK, IInv, Orderly, NEW p \in Procs, FindFreeEntry(p)
  PROVE  IInv'
<1>1. PICK i \in Slots : /\ SM[i].socket_alloted = 0
                         /\ call' = [call EXCEPT ![p].at = "post_socket", ![p].sockfd = i]
  BY DEF FindFreeEntry, IsFirst, FreeSlots
<1> DEFINE c == [call[p] EXCEPT !.at = "post_socket", !.sockfd = i]
<1>2. /\ c \in Call /\ c.at = "post_socket" /\ c.sockfd = i
      /\ call' = [call EXCEPT ![p] = c]
  BY <1>1 DEF TypeOK, Call, Places
<1>3. call[p].at = "ready" /\ \A q \in Procs : ~InCall(q)
  BY DEF FindFreeEntry, MayCall, Orderly
<1>4. AtRest /\ sock_info = EMPTY
  BY <1>3 DEF IInv, HandshakeAtRest, AtRest
<1>5. AtRest' /\ sock_info' = EMPTY /\ SM' = SM /\ udp' = udp /\ opened' = opened
  BY <1>4 DEF FindFreeEntry, AtRest
<1> HIDE DEF c
<1>6. /\ OneCaller'
      /\ call'[p] = c
      /\ \A q \in Procs \ {p} : call'[q] = call[q] /\ SocketCall(q)' /\ BindCall(q)'
  BY <1>2, <1>3, Alone DEF IInv
<1>7. Held' = Held /\ SocketsHeld'
  BY <1>2, <1>3, <1>5, TableStays
<1>8. DescriptorsAreOwn' /\ DeadHaveNone' /\ HandshakeAtRest'
  BY <1>2, <1>5, <1>6
  DEF IInv, DescriptorsAreOwn, DeadHaveNone, HandshakeAtRest, Allotted, AtRest
<1>9. SocketCall(p)' /\ BindCall(p)'
  BY <1>1, <1>2, <1>5, <1>6 DEF SocketCall, BindCall
<1> QED
  BY <1>6, <1>7, <1>8, <1>9 DEF IInv

LEMMA CheckOwnerInv ==
  ASSUME TypeOK, IInv, Orderly, NEW p \in Procs, CheckOwner(p)
  PROVE  IInv'
<1>1. PICK i \in Slots, r \in Requests :
        /\ SM[i].process_id = p
        /\ call' = [call EXCEPT ![p] = [at |-> "write_sock_id", sockfd |-> i, request |-> r]]
  BY DEF CheckOwner
<1> DEFINE c == [at |-> "write_sock_id", sockfd |-> i, request |-> r]
<1>2. /\ c \in Call /\ c.at = "write_sock_id" /\ c.sockfd = i /\ c.request.port # 0
      /\ call' = [call EXCEPT ![p] = c]
  <2>1. r \in Request /\ r.port # 0
    BY CallAssumption DEF Orderly
  <2> QED
    BY <1>1, <2>1 DEF Call, Places
<1>3. call[p].at = "ready" /\ \A q \in Procs : ~InCall(q)
  BY DEF CheckOwner, MayCall, Orderly
<1>4. AtRest /\ sock_info = EMPTY
  BY <1>3 DEF IInv, HandshakeAtRest, AtRest
<1>5. AtRest' /\ sock_info' = EMPTY /\ SM' = SM /\ udp' = udp /\ opened' = opened
  BY <1>4 DEF CheckOwner, AtRest
<1> HIDE DEF c
<1>6. /\ OneCaller'
      /\ call'[p] = c
      /\ \A q \in Procs \ {p} : call'[q] = call[q] /\ SocketCall(q)' /\ BindCall(q)'
  BY <1>2, <1>3, Alone DEF IInv
<1>7. Held' = Held /\ SocketsHeld'
  BY <1>2, <1>3, <1>5, TableStays
<1>8. DescriptorsAreOwn' /\ DeadHaveNone' /\ HandshakeAtRest'
  BY <1>2, <1>5, <1>6
  DEF IInv, DescriptorsAreOwn, DeadHaveNone, HandshakeAtRest, Allotted, AtRest
<1>9. SocketCall(p)' /\ BindCall(p)'
  BY <1>1, <1>2, <1>5, <1>6 DEF SocketCall, BindCall
<1> QED
  BY <1>6, <1>7, <1>8, <1>9 DEF IInv

LEMMA CloseInv ==
  ASSUME TypeOK, IInv, NEW p \in Procs, m_close(p)
  PROVE  IInv'
<1>1. PICK i \in Slots : /\ SM[i].socket_alloted # 0
                         /\ SM[i].process_id = p
                         /\ SM' = [SM EXCEPT ![i].socket_alloted = 0]
                         /\ opened' = [opened EXCEPT ![p] = @ \ {i}]
  BY DEF m_close
<1>2. /\ SM'[i].socket_alloted = 0
      /\ \A j \in Slots : /\ SM'[j].process_id = SM[j].process_id
                          /\ SM'[j].udp_socket_id = SM[j].udp_socket_id
                          /\ j # i => SM'[j] = SM[j]
  BY <1>1 DEF TypeOK, Entry
<1>3. /\ call[p].at = "ready" /\ call' = call /\ udp' = udp
      /\ sock_info' = sock_info /\ Sem1' = Sem1 /\ Sem2' = Sem2
  BY DEF m_close
<1>4. Held' = Held /\ Held \subseteq Slots
  BY <1>1, <1>2, <1>3 DEF Held, TypeOK, Entry
<1>5. OneCaller' /\ HandshakeAtRest'
  BY <1>3 DEF IInv, OneCaller, HandshakeAtRest, InCall
<1>6. SocketsHeld'
  BY <1>2, <1>3, <1>4 DEF IInv, SocketsHeld
<1>7. DescriptorsAreOwn' /\ DeadHaveNone'
  BY <1>1, <1>2, <1>3 DEF IInv, DescriptorsAreOwn, DeadHaveNone, Allotted, TypeOK
<1>8. ASSUME NEW q \in Procs PROVE SocketCall(q)' /\ BindCall(q)'
  <2>1. SocketCall(q) /\ BindCall(q) /\ call[q].sockfd \in Slots
    BY DEF IInv, TypeOK, Call
  <2>2. SocketCall(q)'
    BY <1>1, <1>2, <1>3, <1>4, <2>1 DEF SocketCall, Spare, AtRest, Asked, Answered
  <2>3. BindCall(q)'
    BY <1>2, <1>3, <2>1 DEF BindCall, AtRest, Asked, Answered, Requested, Bound
  <2> QED
    BY <2>2, <2>3
<1> QED
  BY <1>5, <1>6, <1>7, <1>8 DEF IInv

LEMMA KillInv ==
  ASSUME TypeOK, IInv, Orderly, NEW p \in Procs, Kill(p)
  PROVE  IInv'
<1>1. ~InCall(p)
  BY DEF Kill, Orderly
<1>2. /\ call'[p].at = "dead" /\ opened'[p] = {}
      /\ \A q \in Procs \ {p} : call'[q] = call[q] /\ opened'[q] = opened[q]
      /\ SM' = SM /\ udp' = udp /\ sock_info' = sock_info /\ Sem1' = Sem1 /\ Sem2' = Sem2
  BY DEF Kill, DEAD, TypeOK
<1>3. Held' \subseteq Held
  BY <1>1, <1>2 DEF Kill, Held
<1>4. OneCaller' /\ HandshakeAtRest'
  BY <1>1, <1>2 DEF IInv, OneCaller, HandshakeAtRest, InCall
<1>5. SocketsHeld'
  BY <1>2, <1>3 DEF IInv, SocketsHeld
<1>6. DescriptorsAreOwn' /\ DeadHaveNone'
  <2>1. ASSUME NEW q \in Procs PROVE opened'[q] \subseteq opened[q]
    BY <1>2
  <2> QED
    BY <1>2, <2>1 DEF IInv, DescriptorsAreOwn, DeadHaveNone, Allotted
<1>7. ASSUME NEW q \in Procs PROVE SocketCall(q)' /\ BindCall(q)'
  <2>1. CASE q = p
    BY <1>2, <2>1 DEF SocketCall, BindCall
  <2>2. CASE q # p
    <3>1. SocketCall(q) /\ BindCall(q) /\ call'[q] = call[q]
      BY <1>2, <2>2 DEF IInv
    <3>2. SocketCall(q)'
      BY <1>2, <1>3, <3>1 DEF SocketCall, Spare, AtRest, Asked, Answered
    <3>3. BindCall(q)'
      BY <1>2, <3>1 DEF BindCall, AtRest, Asked, Answered, Requested, Bound
    <3> QED
      BY <3>2, <3>3
  <2> QED
    BY <2>1, <2>2
<1> QED
  BY <1>4, <1>5, <1>6, <1>7 DEF IInv

LEMMA CollectInv ==
  ASSUME TypeOK, IInv, thread_G
  PROVE  IInv'
<1>1. /\ \A i \in Orphans : SM'[i] = [SM[i] EXCEPT !.socket_alloted = 0]
      /\ \A i \in Slots \ Orphans : SM'[i] = SM[i]
      /\ call' = call /\ opened' = opened
      /\ sock_info' = sock_info /\ Sem1' = Sem1 /\ Sem2' = Sem2
  BY DEF thread_G, Orphans
<1>2. /\ \A i \in Orphans : SM'[i].socket_alloted = 0
      /\ \A i \in Slots : /\ SM'[i].process_id = SM[i].process_id
                          /\ SM'[i].udp_socket_id = SM[i].udp_socket_id
  <2>1. ASSUME NEW i \in Orphans
        PROVE  /\ SM'[i].socket_alloted = 0
               /\ SM'[i].process_id = SM[i].process_id
               /\ SM'[i].udp_socket_id = SM[i].udp_socket_id
    <3>1. SM[i] \in Entry
      BY DEF Orphans, TypeOK
    <3> QED
      BY <1>1, <3>1 DEF Entry
  <2> QED
    BY <1>1, <2>1
<1>3. Held' \subseteq Held \ Orphans /\ Held \subseteq Slots /\ Orphans \subseteq Held
  BY <1>1, <1>2 DEF Held, Orphans, TypeOK, Entry
<1>4. \A fd \in Fds : (\A i \in Orphans : SM[i].udp_socket_id # fd) => udp'[fd] = udp[fd]
  BY DEF thread_G
<1>5. ASSUME NEW i \in Held \ Orphans
      PROVE  /\ SM[i].udp_socket_id \in Fds
             /\ udp'[SM[i].udp_socket_id] = udp[SM[i].udp_socket_id]
  BY <1>3, <1>4 DEF IInv, SocketsHeld
<1>6. SocketsHeld'
  BY <1>2, <1>3, <1>5 DEF IInv, SocketsHeld
<1>7. DescriptorsAreOwn'
  <2>1. ASSUME NEW q \in Procs, NEW i \in opened[q]
        PROVE  SM'[i].socket_alloted = 1 /\ SM'[i].process_id = q /\ i \in Slots
    <3>1. i \in Slots /\ SM[i].socket_alloted = 1 /\ SM[i].process_id = q /\ call[q].at # "dead"
      BY DEF IInv, DescriptorsAreOwn, DeadHaveNone, Allotted
    <3> QED
      BY <1>1, <3>1 DEF Orphans
  <2> QED
    BY <1>1, <2>1 DEF DescriptorsAreOwn, Allotted
<1>8. OneCaller' /\ DeadHaveNone' /\ HandshakeAtRest'
  BY <1>1 DEF IInv, OneCaller, DeadHaveNone, HandshakeAtRest, InCall
<1>9. ASSUME NEW q \in Procs PROVE SocketCall(q)' /\ BindCall(q)'
  <2>1. SocketCall(q) /\ BindCall(q) /\ call[q].sockfd \in Slots
    BY DEF IInv, TypeOK, Call
  <2>2. \A fd : Spare(fd) => Spare(fd)'
    BY <1>2, <1>3, <1>4 DEF Spare
  <2>3. SM[call[q].sockfd].socket_alloted = 0 => SM'[call[q].sockfd].socket_alloted = 0
    BY <1>1, <1>2, <2>1
  <2>4. call[q].at = "reset_socket" => SM'[call[q].sockfd] = SM[call[q].sockfd]
    BY <1>1, <2>1 DEF SocketCall, Orphans
  <2>5. SocketCall(q)'
    BY <1>1, <2>1, <2>2, <2>3, <2>4 DEF SocketCall, AtRest, Asked, Answered
  <2>6. Bound(call[q]) /\ SM[call[q].sockfd].process_id = q /\ InCall(q) => Bound(call[q])'
    <3>1. SM[call[q].sockfd].process_id = q /\ InCall(q) => call[q].sockfd \in Held \ Orphans
      BY <2>1 DEF Held, Orphans, InCall
    <3> QED
      BY <1>1, <1>2, <1>5, <2>1, <3>1 DEF Bound
  <2>7. BindCall(q)'
    BY <1>1, <1>2, <2>1, <2>6 DEF BindCall, AtRest, Asked, Answered, Requested, InCall
  <2> QED
    BY <2>5, <2>7
<1> QED
  BY <1>6, <1>7, <1>8, <1>9 DEF IInv

\* The daemon wakes up for one request only: it is m_socket's or m_bind's,
\* complete, and recognised for what it is.
LEMMA ServeCases ==
  ASSUME TypeOK, IInv, Serve
  PROVE  \E p \in Procs :
           /\ \A q \in Procs \ {p} : call[q].at \in {"ready", "dead"}
           /\ Asked /\ Answered'
           /\ \/ /\ call[p].at = "wait_socket"
                 /\ sock_info = EMPTY
                 /\ ServeSocket
              \/ /\ call[p].at = "wait_bind"
                 /\ Requested(call[p])
                 /\ call[p].sockfd \in Held
                 /\ ServeBind
<1>1. PICK p \in Procs : InCall(p)
  BY DEF IInv, HandshakeAtRest, Serve
<1>2. \A q \in Procs \ {p} : call[q].at \in {"ready", "dead"}
  BY <1>1 DEF IInv, OneCaller, InCall
<1>3. SocketCall(p) /\ BindCall(p) /\ call[p].at \in Places /\ call[p].sockfd \in Slots
  BY DEF IInv, TypeOK, Call
<1>4. Asked /\ call[p].at \in {"wait_socket", "wait_bind"}
  BY <1>1, <1>3 DEF Serve, SocketCall, BindCall, AtRest, Asked, Answered, InCall, Places
<1>5. CASE call[p].at = "wait_socket"
  <2>1. sock_info = EMPTY
    BY <1>3, <1>4, <1>5 DEF SocketCall, Asked, Answered
  <2>2. ServeSocket
    BY <2>1, SMT DEF Serve, ServeBind, ServeClose, ServeNothing, EMPTY
  <2>3. Answered'
    BY <1>4, <2>2 DEF Serve, ServeSocket, Answer, Asked, Answered
  <2> QED
    BY <1>2, <1>4, <1>5, <2>1, <2>2, <2>3
<1>6. CASE call[p].at = "wait_bind"
  <2> DEFINE fd == SM[call[p].sockfd].udp_socket_id
  <2>1. /\ SM[call[p].sockfd].process_id = p /\ call[p].request.port # 0
        /\ Requested(call[p])
    BY <1>3, <1>4, <1>6 DEF BindCall, Asked, Answered
  <2>2. call[p].sockfd \in Held
    BY <1>3, <1>6, <2>1 DEF Held
  <2>3. fd # 0 /\ sock_info.sock_id = fd /\ sock_info.port # 0
    BY <2>1, <2>2, FdIsNeither DEF IInv, SocketsHeld, Requested
  <2> HIDE DEF fd
  <2>4. ServeBind
    BY <2>3, SMT DEF Serve, ServeSocket, ServeClose, ServeNothing, EMPTY
  <2>5. Answered'
    BY <1>4, <2>4 DEF Serve, ServeBind, Answer, Asked, Answered
  <2> QED
    BY <1>2, <1>4, <1>6, <2>1, <2>2, <2>4, <2>5
<1> QED
  BY <1>4, <1>5, <1>6

\* An answer to m_socket is a descriptor that nobody had, or a failure.
LEMMA SocketAnswer ==
  ASSUME TypeOK, ServeSocket, sock_info = EMPTY
  PROVE  /\ \A g \in Fds : udp[g].open => udp'[g] = udp[g]
         /\ \/ udp' = udp /\ sock_info'.sock_id = -1
            \/ /\ sock_info'.sock_id \in Fds
               /\ ~udp[sock_info'.sock_id].open
               /\ udp'[sock_info'.sock_id].open
<1>1. CASE FreeFds = {}
  BY <1>1 DEF ServeSocket, IsFirst, Answer, EMPTY
<1>2. CASE FreeFds # {}
  <2>1. PICK fd \in Fds : /\ ~udp[fd].open
                          /\ udp' = [udp EXCEPT ![fd] = UNBOUND]
                          /\ sock_info' = [sock_info EXCEPT !.sock_id = fd]
    BY <1>2 DEF ServeSocket, IsFirst, FreeFds, Answer
  <2>2. sock_info'.sock_id = fd
    BY <2>1 DEF EMPTY
  <2> QED
    BY <2>1, <2>2 DEF UNBOUND, TypeOK
<1> QED
  BY <1>1, <1>2

\* An answer to m_bind is its descriptor, which was not bound and now has the
\* address, or a failure.
LEMMA BindAnswer ==
  ASSUME TypeOK, ServeBind, NEW p \in Procs, Requested(call[p]),
         SM[call[p].sockfd].udp_socket_id \in Fds
  PROVE  \/ udp' = udp /\ sock_info'.sock_id = -1
         \/ /\ udp'[SM[call[p].sockfd].udp_socket_id] =
                 [open |-> TRUE, IP |-> call[p].request.IP, port |-> call[p].request.port]
            /\ udp[SM[call[p].sockfd].udp_socket_id] = UNBOUND
            /\ \A g \in Fds \ {SM[call[p].sockfd].udp_socket_id} : udp'[g] = udp[g]
<1> DEFINE fd == SM[call[p].sockfd].udp_socket_id
<1>1. sock_info = [sock_id |-> fd, IP |-> call[p].request.IP, port |-> call[p].request.port]
  BY DEF Requested
<1>2. fd \in Fds
  OBVIOUS
<1> HIDE DEF fd
<1>3. CASE ~CanBind(sock_info.sock_id, sock_info)
  BY <1>1, <1>3 DEF ServeBind, Answer
<1>4. CASE CanBind(sock_info.sock_id, sock_info)
  <2>1. udp' = [udp EXCEPT ![fd].IP = call[p].request.IP, ![fd].port = call[p].request.port]
    BY <1>1, <1>4 DEF ServeBind, Answer
  <2>2. udp[fd] = UNBOUND
    BY <1>1, <1>4 DEF CanBind
  <2>3. udp'[fd] = [open |-> TRUE, IP |-> call[p].request.IP, port |-> call[p].request.port]
    <3>1. udp'[fd] = [udp[fd] EXCEPT !.IP = call[p].request.IP, !.port = call[p].request.port]
      BY <1>2, <2>1 DEF TypeOK
    <3>2. udp[fd] \in Descriptor /\ call[p].request.IP \in Nat /\ call[p].request.port \in Nat
      BY <1>2 DEF TypeOK, Call, Request
    <3>3. udp'[fd] \in Descriptor
      BY <3>1, <3>2 DEF Descriptor
    <3>4. udp'[fd].open = TRUE
      BY <2>2, <3>1, <3>2 DEF UNBOUND, Descriptor
    <3>5. udp'[fd].IP = call[p].request.IP /\ udp'[fd].port = call[p].request.port
      BY <3>1, <3>2 DEF Descriptor
    <3> QED
      BY <3>3, <3>4, <3>5 DEF Descriptor
  <2>4. \A g \in Fds \ {fd} : udp'[g] = udp[g]
    BY <1>2, <2>1 DEF TypeOK
  <2> QED
    BY <2>2, <2>3, <2>4 DEF fd
<1> QED
  BY <1>3, <1>4

LEMMA ServeInv ==
  ASSUME TypeOK, IInv, Serve
  PROVE  IInv'
<1>1. PICK p \in Procs :
        /\ \A q \in Procs \ {p} : call[q].at \in {"ready", "dead"}
        /\ Asked /\ Answered'
        /\ \/ call[p].at = "wait_socket" /\ sock_info = EMPTY /\ ServeSocket
           \/ /\ call[p].at = "wait_bind" /\ Requested(call[p])
              /\ call[p].sockfd \in Held /\ ServeBind
  BY ServeCases
<1>2. SM' = SM /\ call' = call /\ opened' = opened
  BY DEF Serve
<1>3. Held' = Held
  BY <1>2 DEF Held
<1>4. OneCaller' /\ DescriptorsAreOwn' /\ DeadHaveNone' /\ HandshakeAtRest'
  BY <1>1, <1>2
  DEF IInv, OneCaller, DescriptorsAreOwn, DeadHaveNone, HandshakeAtRest, InCall, Allotted
<1>5. \A q \in Procs \ {p} : SocketCall(q)' /\ BindCall(q)'
  BY <1>1, <1>2 DEF SocketCall, BindCall
<1>6. SocketCall(p) /\ BindCall(p)
  BY DEF IInv
<1>7. CASE call[p].at = "wait_socket"
  <2>1. sock_info = EMPTY /\ ServeSocket /\ SM[call[p].sockfd].socket_alloted = 0
    BY <1>1, <1>6, <1>7 DEF SocketCall
  <2>2. SocketsHeld'
    BY <1>2, <1>3, <2>1, SocketAnswer DEF IInv, SocketsHeld
  <2>3. sock_info'.sock_id = -1 \/ Spare(sock_info.sock_id)'
    BY <1>2, <1>3, <2>1, SocketAnswer DEF IInv, SocketsHeld, Spare
  <2> QED
    BY <1>1, <1>2, <1>4, <1>5, <1>7, <2>1, <2>2, <2>3 DEF IInv, SocketCall, BindCall
<1>8. CASE call[p].at = "wait_bind"
  <2>1. /\ SM[call[p].sockfd].process_id = p /\ call[p].request.port # 0
        /\ SM[call[p].sockfd].udp_socket_id \in Fds
        /\ Requested(call[p]) /\ ServeBind
    BY <1>1, <1>6, <1>8 DEF BindCall, IInv, SocketsHeld
  <2>2. sock_info'.sock_id = -1 \/ Bound(call[p])'
    <3>1. \/ sock_info'.sock_id = -1
          \/ udp'[SM[call[p].sockfd].udp_socket_id] =
               [open |-> TRUE, IP |-> call[p].request.IP, port |-> call[p].request.port]
      BY <2>1, BindAnswer
    <3> QED
      BY <1>2, <3>1 DEF Bound
  <2>3. \A g \in Fds : udp[g].open => udp'[g].open
    <3> DEFINE fd == SM[call[p].sockfd].udp_socket_id
    <3>1. \/ udp' = udp
          \/ /\ udp'[fd] =
                  [open |-> TRUE, IP |-> call[p].request.IP, port |-> call[p].request.port]
             /\ \A g \in Fds \ {fd} : udp'[g] = udp[g]
      BY <2>1, BindAnswer
    <3> HIDE DEF fd
    <3> QED
      BY <3>1
  <2>4. SocketsHeld'
    BY <1>2, <1>3, <2>3 DEF IInv, SocketsHeld
  <2> QED
    BY <1>1, <1>2, <1>4, <1>5, <1>8, <2>1, <2>2, <2>4 DEF IInv, SocketCall, BindCall
<1> QED
  BY <1>1, <1>7, <1>8

LEMMA InvStep == TypeOK /\ IInv /\ Orderly /\ [Next]_vars => IInv'
<1> SUFFICES ASSUME TypeOK, IInv, Orderly, [Next]_vars PROVE IInv'
  OBVIOUS
<1>1. ASSUME NEW p \in Procs, Step(p) PROVE IInv'
  BY <1>1, PostRequestInv, TakeAnswerInv, FillEntryInv, WriteRequestInv, SetDestinationInv,
     ReturnInv DEF Step
<1>2. ASSUME NEW p \in Procs, FindFreeEntry(p) \/ CheckOwner(p) \/ m_close(p) \/ Kill(p)
      PROVE  IInv'
  BY <1>2, FindFreeEntryInv, CheckOwnerInv, CloseInv, KillInv
<1>3. CASE UNCHANGED vars
  <2>1. OneCaller' /\ DescriptorsAreOwn' /\ DeadHaveNone' /\ HandshakeAtRest'
    BY <1>3 DEF vars, IInv, OneCaller, DescriptorsAreOwn, Allotted, DeadHaveNone,
                HandshakeAtRest, InCall
  <2>2. Held' = Held
    BY <1>3 DEF vars, Held
  <2>3. SocketsHeld'
    BY <1>3, <2>2 DEF vars, IInv, SocketsHeld
  <2>4. ASSUME NEW p \in Procs PROVE SocketCall(p)' /\ BindCall(p)'
    <3>1. SocketCall(p) /\ BindCall(p)
      BY DEF IInv
    <3>2. SocketCall(p)'
      BY <1>3, <2>2, <3>1 DEF vars, SocketCall, Spare, AtRest, Asked, Answered
    <3>3. BindCall(p)'
      BY <1>3, <3>1 DEF vars, BindCall, AtRest, Asked, Answered, Requested, Bound
    <3> QED
      BY <3>2, <3>3
  <2> QED
    BY <2>1, <2>3, <2>4 DEF IInv
<1> QED
  BY <1>1, <1>2, <1>3, ServeInv, CollectInv DEF Next

LEMMA InvHolds == ASSUME Orderly PROVE Spec => [](TypeOK /\ IInv)
<1>1. Init => TypeOK /\ IInv
  BY TypeInit, InvInit
<1>2. TypeOK /\ IInv /\ [Next]_vars => TypeOK' /\ IInv'
  BY TypeStep, InvStep
<1> QED
  BY <1>1, <1>2, PTL DEF Spec

\* Callers that take turns never share a UDP socket, whichever of them closes
\* sockets or dies between calls.
THEOREM SocketIsOwnHolds == ASSUME Orderly PROVE Spec => []SocketIsOwn
<1>1. IInv => SocketIsOwn
  BY DEF IInv, SocketsHeld, SocketIsOwn, Allotted, Held, FreeFds
<1> QED
  BY <1>1, InvHolds, PTL

\* When m_bind of such a caller succeeds, its socket has the address asked for.
THEOREM BoundAsAskedHolds == ASSUME Orderly PROVE Spec => []BoundAsAsked
<1>1. TypeOK /\ IInv => BoundAsAsked
  <2> SUFFICES ASSUME TypeOK, IInv, NEW p \in Procs, call[p].at = "fill_bind"
               PROVE  LET fd == SM[call[p].sockfd].udp_socket_id
                          r == call[p].request
                      IN  fd \in Fds /\ udp[fd] = [open |-> TRUE, IP |-> r.IP, port |-> r.port]
    BY DEF BoundAsAsked
  <2>1. Bound(call[p]) /\ SM[call[p].sockfd].process_id = p /\ call[p].sockfd \in Slots
    BY DEF IInv, BindCall, TypeOK, Call
  <2>2. call[p].sockfd \in Held
    BY <2>1 DEF Held
  <2> QED
    BY <2>1, <2>2 DEF IInv, SocketsHeld, Bound
<1> QED
  BY <1>1, InvHolds, PTL

\* No such call leaves anything in the handshake to the next one.
THEOREM HandshakeAtRestHolds == ASSUME Orderly PROVE Spec => []HandshakeAtRest
<1>1. IInv => HandshakeAtRest
  BY DEF IInv
<1> QED
  BY <1>1, InvHolds, PTL

-----------------------------------------------------------------------------
(* Refinement: callers that take turns see a SocketTable.                  *)

\* An entry with a peer has a UDP socket that is bound, and m_bind, which may
\* not set the peer of an entry twice, fails for such an entry.
PeerIsBound == \A i \in Held : SM[i].destination_addr # 0 => udp[SM[i].udp_socket_id].port # 0

BindsOnce(p) ==
  LET c == call[p]
  IN  /\ c.at \in {"write_sock_id", "write_IP", "write_port", "post_bind", "wait_bind",
                   "fill_bind"} => c.request \in Requests
      /\ \/ c.at = "wait_bind" /\ Answered /\ sock_info.sock_id # -1
         \/ c.at = "fill_bind"
         => SM[c.sockfd].destination_addr = 0

BoundOnce == PeerIsBound /\ \A p \in Procs : BindsOnce(p)

Quiet(p) == FindFreeEntry(p) \/ CheckOwner(p) \/ PostRequest(p) \/ TakeAnswer(p)
              \/ WriteRequest(p) \/ Return(p)

\* Most steps of a call change neither the table nor the UDP sockets.
LEMMA QuietStep ==
  ASSUME TypeOK, NEW p \in Procs, Quiet(p)
  PROVE  /\ SM' = SM /\ udp' = udp
         /\ \A q \in Procs : call'[q].at = "dead" <=> call[q].at = "dead"
         /\ \A q \in Procs \ {p} : call'[q] = call[q]
<1>1. SM' = SM /\ udp' = udp
  BY DEF Quiet, FindFreeEntry, CheckOwner, PostRequest, TakeAnswer, WriteRequest, Return
<1>2. call[p].at # "dead"
  BY DEF Quiet, FindFreeEntry, CheckOwner, PostRequest, TakeAnswer, WriteRequest, Return, MayCall
<1>3. \A q \in Procs \ {p} : call'[q] = call[q]
  <2>1. ASSUME NEW l, Goto(p, l) PROVE \A q \in Procs \ {p} : call'[q] = call[q]
    BY <2>1 DEF Goto, TypeOK
  <2> QED
    BY <2>1 DEF Quiet, FindFreeEntry, CheckOwner, PostRequest, TakeAnswer, WriteRequest, Return,
                TypeOK
<1>4. call'[p].at # "dead"
  <2>1. ASSUME NEW l \in Places \ {"dead"}, Goto(p, l) PROVE call'[p].at # "dead"
    BY <2>1 DEF Goto, TypeOK, Call
  <2>2. CASE FindFreeEntry(p) \/ CheckOwner(p)
    BY <2>2 DEF FindFreeEntry, CheckOwner, TypeOK, Call
  <2>3. CASE PostRequest(p) \/ TakeAnswer(p) \/ WriteRequest(p)
    BY <2>1, <2>3 DEF PostRequest, TakeAnswer, WriteRequest, Places
  <2>4. CASE Return(p)
    BY <2>4 DEF Return, READY, TypeOK
  <2> QED
    BY <2>2, <2>3, <2>4 DEF Quiet
<1> QED
  BY <1>1, <1>2, <1>3, <1>4

LEMMA QuietOnce ==
  ASSUME TypeOK, IInv, IInv', BoundOnce, NEW p \in Procs, Quiet(p)
  PROVE  BoundOnce'
<1>1. /\ SM' = SM /\ udp' = udp
      /\ \A q \in Procs : call'[q].at = "dead" <=> call[q].at = "dead"
      /\ \A q \in Procs \ {p} : call'[q] = call[q]
  BY QuietStep
<1>2. PeerIsBound'
  <2>1. Held' = Held
    BY <1>1 DEF Held
  <2> QED
    BY <1>1, <2>1 DEF BoundOnce, PeerIsBound
<1>3. ASSUME NEW q \in Procs \ {p} PROVE BindsOnce(q)'
  <2>1. InCall(p) \/ InCall(p)'
    <3>1. CASE FindFreeEntry(p) \/ CheckOwner(p)
      BY <3>1 DEF FindFreeEntry, CheckOwner, InCall, TypeOK, Call
    <3>2. CASE ~(FindFreeEntry(p) \/ CheckOwner(p))
      BY <3>2 DEF Quiet, PostRequest, TakeAnswer, WriteRequest, Return, InCall
    <3> QED
      BY <3>1, <3>2
  <2>2. call'[q].at \in {"ready", "dead"}
    BY <1>1, <2>1 DEF IInv, OneCaller, InCall
  <2> QED
    BY <2>2 DEF BindsOnce
<1>4. BindsOnce(p)'
  <2>1. BindsOnce(p) /\ BindCall(p)
    BY DEF BoundOnce, IInv
  <2>2. CASE FindFreeEntry(p)
    <3>1. call'[p].at = "post_socket"
      BY <2>2 DEF FindFreeEntry, TypeOK, Call
    <3> QED
      BY <3>1 DEF BindsOnce
  <2>3. CASE CheckOwner(p)
    <3>1. call'[p].at = "write_sock_id" /\ call'[p].request \in Requests
      BY <2>3 DEF CheckOwner, TypeOK, Call
    <3> QED
      BY <3>1 DEF BindsOnce
  <2>4. CASE Return(p)
    <3>1. call'[p].at = "ready"
      BY <2>4 DEF Return, READY, TypeOK
    <3> QED
      BY <3>1 DEF BindsOnce
  <2>5. ASSUME NEW l \in Places, Goto(p, l)
        PROVE  call'[p].at = l /\ call'[p].request = call[p].request
                 /\ call'[p].sockfd = call[p].sockfd
    BY <2>5 DEF Goto, TypeOK, Call
  <2>6. CASE PostRequest(p)
    <3>1. Sem1' # 0
      BY <2>6 DEF PostRequest, TypeOK
    <3>2. ~Answered'
      BY <3>1 DEF Answered
    <3>3. CASE call[p].at = "post_socket"
      <4>1. call'[p].at = "wait_socket"
        BY <2>5, <2>6, <3>3 DEF PostRequest, Places
      <4> QED
        BY <4>1 DEF BindsOnce
    <3>4. CASE call[p].at = "post_bind"
      <4>1. call'[p].at = "wait_bind" /\ call'[p].request = call[p].request
        BY <2>5, <2>6, <3>4 DEF PostRequest, Places
      <4> QED
        BY <2>1, <3>2, <3>4, <4>1 DEF BindsOnce
    <3> QED
      BY <2>6, <3>3, <3>4 DEF PostRequest
  <2>7. CASE TakeAnswer(p)
    <3>1. call[p].at = "wait_bind" => Answered
      BY <2>1, <2>7 DEF TakeAnswer, BindCall, Asked
    <3>2. \/ call'[p].at \in {"reset", "fill_socket"}
          \/ /\ call[p].at = "wait_bind" /\ sock_info.sock_id # -1
             /\ call'[p].at = "fill_bind"
             /\ call'[p].request = call[p].request /\ call'[p].sockfd = call[p].sockfd
      BY <2>5, <2>7 DEF TakeAnswer, Places
    <3> QED
      BY <1>1, <2>1, <3>1, <3>2 DEF BindsOnce
  <2>8. CASE WriteRequest(p)
    <3>1. /\ call[p].at \in {"write_sock_id", "write_IP", "write_port"}
          /\ call'[p].at \in {"write_IP", "write_port", "post_bind"}
          /\ call'[p].request = call[p].request
      BY <2>5, <2>8 DEF WriteRequest, Places
    <3> QED
      BY <2>1, <3>1 DEF BindsOnce
  <2> QED
    BY <2>2, <2>3, <2>4, <2>6, <2>7, <2>8 DEF Quiet
<1> QED
  BY <1>2, <1>3, <1>4 DEF BoundOnce

\* What leaves the entries and their UDP sockets alone leaves the abstract
\* table alone.
LEMMA ViewStays ==
  ASSUME \A i \in Slots : SM'[i] = SM[i],
         \A i \in Allotted : SM[i].destination_addr # 0 =>
           udp'[SM[i].udp_socket_id] = udp[SM[i].udp_socket_id]
  PROVE  owner' = owner /\ address' = address
<1>1. Allotted' = Allotted /\ Allotted \subseteq Slots
  BY DEF Allotted
<1>2. owner' = owner
  BY <1>1 DEF owner
<1>3. address' = address
  BY <1>1 DEF address
<1> QED
  BY <1>2, <1>3

LEMMA QuietView ==
  ASSUME TypeOK, NEW p \in Procs, Quiet(p)
  PROVE  UNCHANGED Table!vars
<1>1. owner' = owner /\ address' = address
  BY QuietStep, ViewStays
<1>2. live' = live
  BY QuietStep DEF live
<1> QED
  BY <1>1, <1>2 DEF Table!vars

LEMMA FillEntryOpens ==
  ASSUME TypeOK, IInv, BoundOnce, NEW p \in Procs, FillEntry(p)
  PROVE  BoundOnce' /\ Table!Next
<1> DEFINE i == call[p].sockfd
<1>1. /\ i \in Slots /\ SM[i].socket_alloted = 0 /\ InCall(p)
  BY DEF IInv, SocketCall, FillEntry, TypeOK, Call, InCall
<1>2. /\ SM'[i].socket_alloted = 1 /\ SM'[i].process_id = p /\ SM'[i].destination_addr = 0
      /\ \A j \in Slots \ {i} : SM'[j] = SM[j]
      /\ udp' = udp
  BY <1>1 DEF FillEntry, NewEntry, TypeOK
<1>3. /\ call'[p].at = "reset_socket"
      /\ \A q \in Procs \ {p} : call'[q] = call[q]
  BY DEF FillEntry, Goto, TypeOK, Call
<1> HIDE DEF i
<1>4. PeerIsBound'
  <2>1. ASSUME NEW j \in Held', j # i PROVE j \in Held /\ SM'[j] = SM[j]
    BY <1>1, <1>2, <1>3, <2>1 DEF Held, InCall
  <2> QED
    BY <1>2, <2>1 DEF BoundOnce, PeerIsBound
<1>5. ASSUME NEW q \in Procs PROVE BindsOnce(q)'
  <2>1. q # p => call'[q].at \in {"ready", "dead"}
    BY <1>1, <1>3 DEF IInv, OneCaller, InCall
  <2> QED
    BY <1>3, <2>1 DEF BindsOnce
<1>6. Allotted' = Allotted \union {i} /\ i \notin Allotted
  BY <1>1, <1>2 DEF Allotted
<1>7. owner[i] = NOBODY /\ owner' = [owner EXCEPT ![i] = p]
  BY <1>1, <1>2, <1>6 DEF owner
<1>8. address' = address
  BY <1>1, <1>2, <1>6 DEF address
<1>9. live' = live /\ p \in live
  BY <1>1, <1>3 DEF live, InCall
<1> QED
  BY <1>1, <1>4, <1>5, <1>7, <1>8, <1>9 DEF BoundOnce, Table!Next, Table!Open

LEMMA SetDestinationBinds ==
  ASSUME TypeOK, IInv, Orderly, BoundOnce, NEW p \in Procs, SetDestination(p)
  PROVE  BoundOnce' /\ [Table!Next]_(Table!vars)
<1> DEFINE i == call[p].sockfd
<1> DEFINE r == call[p].request
<1> DEFINE fd == SM[i].udp_socket_id
<1>1. /\ i \in Slots /\ r \in Requests /\ r \in Request /\ r.port # 0 /\ InCall(p)
      /\ SM[i].process_id = p /\ SM[i].destination_addr = 0
      /\ udp[fd] = [open |-> TRUE, IP |-> r.IP, port |-> r.port]
  BY DEF IInv, BindCall, Bound, BoundOnce, BindsOnce, SetDestination, TypeOK, Call, InCall
<1>2. /\ SM'[i].socket_alloted = SM[i].socket_alloted
      /\ SM'[i].process_id = SM[i].process_id
      /\ SM'[i].udp_socket_id = fd
      /\ SM'[i].destination_addr = r.dest
      /\ \A j \in Slots \ {i} : SM'[j] = SM[j]
      /\ udp' = udp
  BY <1>1 DEF SetDestination, TypeOK, Entry
<1>3. /\ call'[p].at = "reset"
      /\ \A q \in Procs \ {p} : call'[q] = call[q]
  BY DEF SetDestination, Goto, TypeOK, Call
<1>4. udp[fd].IP = r.IP /\ udp[fd].port = r.port
  BY <1>1
<1>5. r = [IP |-> r.IP, port |-> r.port, dest |-> r.dest] /\ r.dest # 0
  BY <1>1, CallAssumption DEF Request
<1> HIDE DEF i, r, fd
<1>6. PeerIsBound'
  <2>1. ASSUME NEW j \in Held', j # i PROVE j \in Held /\ SM'[j] = SM[j]
    BY <1>1, <1>2, <1>3, <2>1 DEF Held, InCall
  <2> QED
    BY <1>1, <1>2, <1>4, <2>1 DEF BoundOnce, PeerIsBound
<1>7. ASSUME NEW q \in Procs PROVE BindsOnce(q)'
  <2>1. q # p => call'[q].at \in {"ready", "dead"}
    BY <1>1, <1>3 DEF IInv, OneCaller, InCall
  <2> QED
    BY <1>3, <2>1 DEF BindsOnce
<1>8. Allotted' = Allotted
  BY <1>1, <1>2 DEF Allotted
<1>9. owner' = owner
  BY <1>1, <1>2, <1>8 DEF owner
<1>10. live' = live /\ p \in live
  BY <1>1, <1>3 DEF live, InCall
<1>11. CASE i \in Allotted
  <2>1. owner[i] = p /\ address[i] = READY.request
    BY <1>1, <1>11 DEF owner, address
  <2>2. address'[i] = r
    BY <1>1, <1>2, <1>4, <1>5, <1>8, <1>11 DEF address
  <2>3. address' = [address EXCEPT ![i] = r]
    BY <1>1, <1>2, <1>8, <2>2 DEF address
  <2>4. Table!Bind(p, i, r)
    BY <1>9, <1>10, <2>1, <2>3 DEF Table!Bind
  <2> QED
    BY <1>1, <1>6, <1>7, <2>4 DEF BoundOnce, Table!Next
<1>12. CASE i \notin Allotted
  <2>1. address' = address
    BY <1>1, <1>2, <1>8, <1>12 DEF address
  <2> QED
    BY <1>6, <1>7, <1>9, <1>10, <2>1 DEF BoundOnce, Table!vars
<1> QED
  BY <1>11, <1>12

LEMMA CloseCloses ==
  ASSUME TypeOK, IInv, BoundOnce, NEW p \in Procs, m_close(p)
  PROVE  BoundOnce' /\ Table!Next
<1>1. PICK i \in Slots : /\ SM[i].socket_alloted # 0
                         /\ SM[i].process_id = p
                         /\ SM' = [SM EXCEPT ![i].socket_alloted = 0]
  BY DEF m_close
<1>2. /\ SM'[i].socket_alloted = 0
      /\ \A j \in Slots : /\ SM'[j].process_id = SM[j].process_id
                          /\ SM'[j].udp_socket_id = SM[j].udp_socket_id
                          /\ SM'[j].destination_addr = SM[j].destination_addr
                          /\ j # i => SM'[j] = SM[j]
  BY <1>1 DEF TypeOK, Entry
<1>3. /\ call[p].at = "ready" /\ call' = call /\ udp' = udp
      /\ sock_info' = sock_info /\ Sem1' = Sem1 /\ Sem2' = Sem2
  BY DEF m_close
<1>4. Held' = Held /\ Held \subseteq Slots
  BY <1>1, <1>2, <1>3 DEF Held, TypeOK, Entry
<1>5. PeerIsBound'
  BY <1>2, <1>3, <1>4 DEF BoundOnce, PeerIsBound
<1>6. ASSUME NEW q \in Procs PROVE BindsOnce(q)'
  <2>1. BindsOnce(q) /\ call[q].sockfd \in Slots
    BY DEF BoundOnce, TypeOK, Call
  <2> QED
    BY <1>2, <1>3, <2>1 DEF BindsOnce, Answered
<1>7. i \in Allotted /\ Allotted' = Allotted \ {i}
  BY <1>1, <1>2 DEF Allotted, TypeOK, Entry
<1>8. owner[i] = p /\ owner' = [j \in Slots |-> IF j \in {i} THEN NOBODY ELSE owner[j]]
  BY <1>1, <1>2, <1>7 DEF owner
<1>9. address' = [j \in Slots |-> IF j \in {i} THEN READY.request ELSE address[j]]
  BY <1>2, <1>3, <1>7 DEF address
<1>10. live' = live /\ p \in live
  BY <1>3 DEF live
<1>11. Table!Close(p, i)
  BY <1>8, <1>9, <1>10 DEF Table!Close, Table!Free
<1> QED
  BY <1>1, <1>5, <1>6, <1>11 DEF BoundOnce, Table!Next

LEMMA KillDies ==
  ASSUME TypeOK, Orderly, BoundOnce, NEW p \in Procs, Kill(p)
  PROVE  BoundOnce' /\ Table!Next
<1>1. /\ call[p].at # "dead" /\ call'[p].at = "dead"
      /\ \A q \in Procs \ {p} : call'[q] = call[q]
      /\ SM' = SM /\ udp' = udp /\ sock_info' = sock_info /\ Sem1' = Sem1 /\ Sem2' = Sem2
  BY DEF Kill, DEAD, TypeOK
<1>2. Held' \subseteq Held
  BY <1>1 DEF Held
<1>3. PeerIsBound'
  BY <1>1, <1>2 DEF BoundOnce, PeerIsBound
<1>4. ASSUME NEW q \in Procs PROVE BindsOnce(q)'
  BY <1>1 DEF BoundOnce, BindsOnce, Answered
<1>5. owner' = owner /\ address' = address
  BY <1>1, ViewStays
<1>6. p \in live /\ live' = live \ {p}
  BY <1>1 DEF live
<1> QED
  BY <1>3, <1>4, <1>5, <1>6 DEF BoundOnce, Table!Next, Table!Die

LEMMA CollectReclaims ==
  ASSUME TypeOK, IInv, BoundOnce, thread_G
  PROVE  BoundOnce' /\ Table!Next
<1>1. /\ \A i \in Slots \ Orphans : SM'[i] = SM[i]
      /\ call' = call
      /\ sock_info' = sock_info /\ Sem1' = Sem1 /\ Sem2' = Sem2
      /\ Orphans # {}
  BY DEF thread_G
<1>2. \A i \in Slots : /\ i \in Orphans => SM'[i].socket_alloted = 0
                       /\ SM'[i].process_id = SM[i].process_id
                       /\ SM'[i].udp_socket_id = SM[i].udp_socket_id
                       /\ SM'[i].destination_addr = SM[i].destination_addr
  <2>1. ASSUME NEW i \in Slots
        PROVE  /\ i \in Orphans => SM'[i].socket_alloted = 0
               /\ SM'[i].process_id = SM[i].process_id
               /\ SM'[i].udp_socket_id = SM[i].udp_socket_id
               /\ SM'[i].destination_addr = SM[i].destination_addr
    <3>1. SM[i] \in Entry
      BY DEF TypeOK
    <3>2. SM'[i] = IF i \in Orphans THEN [SM[i] EXCEPT !.socket_alloted = 0] ELSE SM[i]
      BY DEF thread_G
    <3> QED
      BY <3>1, <3>2 DEF Entry
  <2> QED
    BY <2>1
<1>3. /\ Held' \subseteq Held \ Orphans /\ Held \subseteq Slots
      /\ Allotted \subseteq Held /\ Orphans \subseteq Allotted
      /\ Allotted' = Allotted \ Orphans
  BY <1>1, <1>2 DEF Held, Orphans, Allotted, TypeOK, Entry
<1>4. \A fd \in Fds : (\A i \in Orphans : SM[i].udp_socket_id # fd) => udp'[fd] = udp[fd]
  BY DEF thread_G
<1>5. ASSUME NEW i \in Held \ Orphans
      PROVE  udp'[SM[i].udp_socket_id] = udp[SM[i].udp_socket_id]
  BY <1>3, <1>4 DEF IInv, SocketsHeld
<1>6. PeerIsBound'
  BY <1>2, <1>3, <1>5 DEF BoundOnce, PeerIsBound
<1>7. ASSUME NEW q \in Procs PROVE BindsOnce(q)'
  <2>1. BindsOnce(q) /\ call[q].sockfd \in Slots
    BY DEF BoundOnce, TypeOK, Call
  <2> QED
    BY <1>1, <1>2, <2>1 DEF BindsOnce, Answered
<1>8. Table!Dead = Orphans
  BY TableAssumption DEF Table!Dead, Orphans, owner, live, Allotted, TypeOK, Entry
<1>9. owner' = [i \in Slots |-> IF i \in Orphans THEN NOBODY ELSE owner[i]]
  BY <1>2, <1>3 DEF owner
<1>10. address' = [i \in Slots |-> IF i \in Orphans THEN READY.request ELSE address[i]]
  BY <1>2, <1>3, <1>5 DEF address
<1>11. live' = live
  BY <1>1 DEF live
<1> QED
  BY <1>1, <1>6, <1>7, <1>8, <1>9, <1>10, <1>11
  DEF BoundOnce, Table!Next, Table!Reclaim, Table!Free

LEMMA ServeView ==
  ASSUME TypeOK, IInv, BoundOnce, Serve
  PROVE  BoundOnce' /\ UNCHANGED Table!vars
<1>1. PICK p \in Procs :
        /\ \A q \in Procs \ {p} : call[q].at \in {"ready", "dead"}
        /\ \/ call[p].at = "wait_socket" /\ sock_info = EMPTY /\ ServeSocket
           \/ /\ call[p].at = "wait_bind" /\ Requested(call[p])
              /\ call[p].sockfd \in Held /\ ServeBind
  BY ServeCases
<1>2. SM' = SM /\ call' = call
  BY DEF Serve
<1>3. /\ Held' = Held /\ Allotted \subseteq Held
      /\ \A i \in Held : SM[i].udp_socket_id \in Fds /\ udp[SM[i].udp_socket_id].open
  BY <1>2 DEF Held, Allotted, IInv, SocketsHeld
<1>4. SUFFICES /\ BindsOnce(p)'
               /\ \A i \in Held : SM[i].destination_addr # 0 =>
                    udp'[SM[i].udp_socket_id] = udp[SM[i].udp_socket_id]
  <2>1. PeerIsBound'
    BY <1>2, <1>3, <1>4 DEF BoundOnce, PeerIsBound
  <2>2. \A q \in Procs : BindsOnce(q)'
    BY <1>1, <1>2, <1>4 DEF BindsOnce
  <2>3. owner' = owner /\ address' = address
    BY <1>2, <1>3, <1>4, ViewStays
  <2>4. live' = live
    BY <1>2 DEF live
  <2> QED
    BY <2>1, <2>2, <2>3, <2>4 DEF BoundOnce, Table!vars
<1>5. CASE call[p].at = "wait_socket"
  <2>1. sock_info = EMPTY /\ ServeSocket
    BY <1>1, <1>5
  <2>2. \A g \in Fds : udp[g].open => udp'[g] = udp[g]
    BY <2>1, SocketAnswer
  <2> QED
    BY <1>2, <1>3, <1>5, <2>2 DEF BindsOnce
<1>6. CASE call[p].at = "wait_bind"
  <2> DEFINE i == call[p].sockfd
  <2> DEFINE fd == SM[i].udp_socket_id
  <2>1. Requested(call[p]) /\ i \in Held /\ fd \in Fds /\ ServeBind
    BY <1>1, <1>3, <1>6
  <2>2. \/ udp' = udp /\ sock_info'.sock_id = -1
        \/ udp[fd] = UNBOUND /\ \A g \in Fds \ {fd} : udp'[g] = udp[g]
    BY <2>1, BindAnswer
  <2>3. call[p].request \in Requests
    BY <1>6 DEF BoundOnce, BindsOnce
  <2> HIDE DEF fd
  <2>4. CASE udp' = udp /\ sock_info'.sock_id = -1
    BY <1>2, <1>6, <2>3, <2>4 DEF BindsOnce
  <2>5. CASE udp[fd] = UNBOUND /\ \A g \in Fds \ {fd} : udp'[g] = udp[g]
    <3>1. udp[fd].port = 0
      BY <2>5 DEF UNBOUND
    <3>2. \A j \in Held : SM[j].udp_socket_id = fd => SM[j].destination_addr = 0
      BY <3>1 DEF BoundOnce, PeerIsBound
    <3>3. SM[i].destination_addr = 0
      BY <2>1, <3>2 DEF fd
    <3> QED
      BY <1>2, <1>3, <1>6, <2>3, <2>5, <3>2, <3>3 DEF BindsOnce
  <2> QED
    BY <2>2, <2>4, <2>5
<1> QED
  BY <1>1, <1>5, <1>6

LEMMA InitOpens == Init => BoundOnce /\ Table!Init
<1> SUFFICES ASSUME Init PROVE BoundOnce /\ Table!Init
  OBVIOUS
<1>1. Held = {} /\ Allotted = {}
  BY TableAssumption DEF Init, Held, Allotted
<1>2. \A p \in Procs : call[p].at = "ready"
  BY DEF Init, READY
<1> QED
  BY <1>1, <1>2
  DEF BoundOnce, PeerIsBound, BindsOnce, Table!Init, owner, address, live

LEMMA StepSimulates ==
  ASSUME TypeOK, IInv, IInv', Orderly, BoundOnce, [Next]_vars
  PROVE  BoundOnce' /\ [Table!Next]_(Table!vars)
<1>1. ASSUME NEW p \in Procs, Quiet(p) PROVE BoundOnce' /\ UNCHANGED Table!vars
  BY <1>1, QuietOnce, QuietView
<1>2. ASSUME NEW p \in Procs, FillEntry(p) \/ SetDestination(p) \/ m_close(p) \/ Kill(p)
      PROVE  BoundOnce' /\ [Table!Next]_(Table!vars)
  BY <1>2, FillEntryOpens, SetDestinationBinds, CloseCloses, KillDies
<1>3. CASE UNCHANGED vars
  <2>1. Held' = Held
    BY <1>3 DEF vars, Held
  <2>2. BoundOnce'
    BY <1>3, <2>1 DEF vars, BoundOnce, PeerIsBound, BindsOnce, Answered
  <2>3. owner' = owner /\ address' = address
    BY <1>3, ViewStays DEF vars
  <2>4. live' = live
    BY <1>3 DEF vars, live
  <2> QED
    BY <2>2, <2>3, <2>4 DEF Table!vars
<1> QED
  BY <1>1, <1>2, <1>3, ServeView, CollectReclaims DEF Next, Step, Quiet

\* The calls of callers that take turns take effect at once, each at one step:
\* m_socket gives the caller a free slot and no address, m_bind gives it an
\* address at most once, m_close and thread G free both.  Only that thread G
\* does run, the fairness of SocketTable, is left to TLC.
THEOREM TableIsImplemented ==
  ASSUME Orderly PROVE Spec => Table!Init /\ [][Table!Next]_(Table!vars)
<1>1. Init => TypeOK /\ IInv /\ BoundOnce /\ Table!Init
  BY TypeInit, InvInit, InitOpens
<1>2. TypeOK /\ IInv /\ BoundOnce /\ [Next]_vars =>
        TypeOK' /\ IInv' /\ BoundOnce' /\ [Table!Next]_(Table!vars)
  BY TypeStep, InvStep, StepSimulates
<1> QED
  BY <1>1, <1>2, PTL DEF Spec

-----------------------------------------------------------------------------
(* Which steps leak UDP sockets.                                           *)

\* Nothing is on the way to an entry unless somebody waits for it in m_socket.
LEMMA NothingOnTheWay ==
  ASSUME TypeOK, OneCaller, NEW p \in Procs,
         \/ InCall(p) /\ call[p].at \notin {"wait_socket", "fill_socket"}
         \/ \A q \in Procs : ~InCall(q)
  PROVE  OnTheWay = {}
<1>1. ASSUME NEW q \in Procs PROVE call[q].at \notin {"wait_socket", "fill_socket"}
  BY DEF OneCaller, InCall
<1> QED
  BY <1>1 DEF OnTheWay

\* A step leaks nothing if what is open after it was open before, and noted or
\* on the way both times, or not before either.
LEMMA NoLeak ==
  ASSUME \A fd \in Fds : udp'[fd].open =>
           \/ fd \in Noted' \union OnTheWay'
           \/ udp[fd].open /\ fd \notin Noted \union OnTheWay
  PROVE  Leaked' \subseteq Leaked
BY DEF Leaked, FreeFds

LEMMA QuietKeeps ==
  ASSUME TypeOK, IInv, Orderly, NEW p \in Procs, Quiet(p)
  PROVE  Leaked' \subseteq Leaked
<1>1. SM' = SM /\ udp' = udp
  BY QuietStep
<1>2. Noted' = Noted
  BY <1>1 DEF Noted, Allotted
<1>3. OnTheWay \subseteq OnTheWay'
  <2>1. CASE TakeAnswer(p) /\ call[p].at = "wait_socket"
    <3>1. sock_info' = sock_info
      BY <2>1 DEF TakeAnswer
    <3>2. ASSUME NEW fd \in OnTheWay PROVE call'[p].at = "fill_socket"
      <4>1. sock_info.sock_id # -1
        BY FdIsNeither DEF OnTheWay
      <4> QED
        BY <2>1, <4>1 DEF TakeAnswer, Goto, TypeOK, Call
    <3> QED
      BY <3>1, <3>2 DEF OnTheWay
  <2>2. CASE ~(TakeAnswer(p) /\ call[p].at = "wait_socket")
    <3>1. \/ InCall(p) /\ call[p].at \notin {"wait_socket", "fill_socket"}
          \/ \A q \in Procs : ~InCall(q)
      BY <2>2 DEF Quiet, FindFreeEntry, CheckOwner, MayCall, PostRequest, TakeAnswer,
                  WriteRequest, Return, InCall, Orderly
    <3> QED
      BY <3>1, NothingOnTheWay DEF IInv
  <2> QED
    BY <2>1, <2>2
<1> QED
  BY <1>1, <1>2, <1>3, NoLeak

\* m_socket notes the descriptor that was on its way.
LEMMA FillKeeps ==
  ASSUME TypeOK, IInv, NEW p \in Procs, FillEntry(p)
  PROVE  Leaked' \subseteq Leaked
<1> DEFINE i == call[p].sockfd
<1>1. i \in Slots /\ SM[i].socket_alloted = 0
  BY DEF IInv, SocketCall, FillEntry, TypeOK, Call
<1>2. /\ SM'[i].socket_alloted = 1 /\ SM'[i].udp_socket_id = sock_info.sock_id
      /\ \A j \in Slots \ {i} : SM'[j] = SM[j]
      /\ udp' = udp
  BY <1>1 DEF FillEntry, NewEntry, TypeOK
<1> HIDE DEF i
<1>3. Noted' = Noted \union {sock_info.sock_id}
  BY <1>1, <1>2 DEF Noted, Allotted
<1>4. OnTheWay \subseteq {sock_info.sock_id}
  BY DEF OnTheWay
<1> QED
  BY <1>2, <1>3, <1>4, NoLeak

LEMMA SetDestinationKeeps ==
  ASSUME TypeOK, IInv, NEW p \in Procs, SetDestination(p)
  PROVE  Leaked' \subseteq Leaked
<1>1. /\ \A j \in Slots : /\ SM'[j].socket_alloted = SM[j].socket_alloted
                          /\ SM'[j].udp_socket_id = SM[j].udp_socket_id
      /\ udp' = udp
  BY DEF SetDestination, TypeOK, Entry
<1>2. Noted' = Noted
  BY <1>1 DEF Noted, Allotted
<1>3. OnTheWay = {}
  BY NothingOnTheWay DEF IInv, SetDestination, InCall
<1> QED
  BY <1>1, <1>2, <1>3, NoLeak

\* A process that dies between calls has no descriptor on its way.
LEMMA KillKeeps ==
  ASSUME TypeOK, Orderly, NEW p \in Procs, Kill(p)
  PROVE  Leaked' \subseteq Leaked
<1>1. ~InCall(p) /\ \A q \in Procs \ {p} : call'[q] = call[q]
  BY DEF Kill, Orderly, TypeOK
<1>2. sock_info' = sock_info /\ SM' = SM /\ udp' = udp
  BY DEF Kill
<1>3. Noted' = Noted /\ OnTheWay \subseteq OnTheWay'
  BY <1>1, <1>2 DEF Noted, Allotted, OnTheWay, InCall
<1> QED
  BY <1>2, <1>3, NoLeak

\* The daemon opens a UDP socket only for a caller that waits for it.
LEMMA ServeKeeps ==
  ASSUME TypeOK, IInv, Serve
  PROVE  Leaked' \subseteq Leaked
<1>1. PICK p \in Procs :
        /\ \A q \in Procs \ {p} : call[q].at \in {"ready", "dead"}
        /\ \/ call[p].at = "wait_socket" /\ sock_info = EMPTY /\ ServeSocket
           \/ /\ call[p].at = "wait_bind" /\ Requested(call[p])
              /\ call[p].sockfd \in Held /\ ServeBind
  BY ServeCases
<1>2. Noted' = Noted /\ call' = call
  BY DEF Serve, Noted, Allotted
<1>3. CASE call[p].at = "wait_socket"
  <2>1. sock_info = EMPTY /\ ServeSocket
    BY <1>1, <1>3
  <2>2. OnTheWay = {}
    BY <2>1, FdIsNeither DEF OnTheWay, EMPTY
  <2>3. CASE FreeFds = {}
    <3>1. udp' = udp
      BY <2>1, <2>3 DEF ServeSocket, IsFirst, Answer
    <3> QED
      BY <1>2, <2>2, <3>1, NoLeak
  <2>4. CASE FreeFds # {}
    <3>1. PICK fd \in Fds : Answer(fd, [udp EXCEPT ![fd] = UNBOUND])
      BY <2>1, <2>4 DEF ServeSocket
    <3>2. sock_info'.sock_id = fd /\ \A g \in Fds \ {fd} : udp'[g] = udp[g]
      BY <3>1 DEF Answer, TypeOK
    <3>3. fd \in OnTheWay'
      BY <1>2, <1>3, <3>2 DEF OnTheWay
    <3> QED
      BY <1>2, <2>2, <3>2, <3>3, NoLeak
  <2> QED
    BY <2>3, <2>4
<1>4. CASE call[p].at = "wait_bind"
  <2>1. /\ SM[call[p].sockfd].udp_socket_id \in Fds
        /\ udp[SM[call[p].sockfd].udp_socket_id].open
        /\ Requested(call[p]) /\ ServeBind
    BY <1>1, <1>4 DEF IInv, SocketsHeld
  <2>2. \A g \in Fds : udp'[g].open => udp[g].open
    BY <2>1, BindAnswer DEF TypeOK
  <2>3. OnTheWay = {}
    BY <1>4, NothingOnTheWay DEF IInv, InCall
  <2> QED
    BY <1>2, <2>2, <2>3, NoLeak
<1> QED
  BY <1>1, <1>3, <1>4

\* Thread G closes what the entries it frees have.
LEMMA CollectKeeps ==
  ASSUME TypeOK, thread_G
  PROVE  Leaked' \subseteq Leaked
<1>1. /\ \A i \in Slots \ Orphans : SM'[i] = SM[i]
      /\ OnTheWay' = OnTheWay
  BY DEF thread_G, OnTheWay
<1>2. ASSUME NEW fd \in Fds, udp'[fd].open
      PROVE  udp[fd].open /\ \A i \in Orphans : SM[i].udp_socket_id # fd
  BY <1>2 DEF thread_G, CLOSED
<1>3. ASSUME NEW fd \in Fds, udp'[fd].open, fd \in Noted PROVE fd \in Noted'
  <2>1. PICK i \in Allotted : SM[i].udp_socket_id = fd
    BY <1>3 DEF Noted
  <2>2. i \in Slots \ Orphans
    BY <1>2, <1>3, <2>1 DEF Allotted
  <2> QED
    BY <1>1, <2>1, <2>2 DEF Noted, Allotted
<1> QED
  BY <1>1, <1>2, <1>3, NoLeak

\* What a step of m_close leaks is the UDP socket of the entry it frees.
LEMMA CloseLeaks ==
  ASSUME TypeOK, NEW p \in Procs, m_close(p), NEW fd \in Leaked' \ Leaked
  PROVE  \E i \in Allotted \ Allotted' : SM[i].udp_socket_id = fd
<1>1. /\ \A j \in Slots : SM'[j].udp_socket_id = SM[j].udp_socket_id
      /\ OnTheWay' = OnTheWay /\ udp' = udp
  BY DEF m_close, OnTheWay, TypeOK, Entry
<1>2. fd \in Noted /\ fd \notin Noted'
  BY <1>1 DEF Leaked, FreeFds
<1>3. PICK i \in Allotted : SM[i].udp_socket_id = fd
  BY <1>2 DEF Noted
<1>4. i \notin Allotted'
  BY <1>1, <1>2, <1>3 DEF Noted, Allotted
<1> QED
  BY <1>3, <1>4

LEMMA LeakStep ==
  ASSUME TypeOK, IInv, Orderly, [Next]_vars
  PROVE  \A fd \in Leaked' \ Leaked :
           /\ \E p \in Procs : m_close(p)
           /\ \E i \in Allotted \ Allotted' : SM[i].udp_socket_id = fd
<1>1. ASSUME NEW p \in Procs, Quiet(p) \/ FillEntry(p) \/ SetDestination(p) \/ Kill(p)
      PROVE  Leaked' \subseteq Leaked
  BY <1>1, QuietKeeps, FillKeeps, SetDestinationKeeps, KillKeeps
<1>2. CASE UNCHANGED vars
  <2>1. Noted' = Noted /\ OnTheWay' = OnTheWay /\ udp' = udp
    BY <1>2 DEF vars, Noted, Allotted, OnTheWay
  <2> QED
    BY <2>1, NoLeak
<1> QED
  BY <1>1, <1>2, CloseLeaks, ServeKeeps, CollectKeeps DEF Next, Step, Quiet

\* For callers that take turns, m_close is all that leaks UDP sockets: none is
\* lost between the daemon and an entry, in a call that fails or with the dead.
THEOREM OnlyCloseLeaksHolds == ASSUME Orderly PROVE Spec => OnlyCloseLeaks
<1>1. TypeOK /\ IInv /\ [Next]_vars =>
        [\A fd \in Leaked' \ Leaked :
           /\ \E p \in Procs : m_close(p)
           /\ \E i \in Allotted \ Allotted' : SM[i].udp_socket_id = fd]_vars
  BY LeakStep
<1> QED
  BY <1>1, InvHolds, PTL DEF Spec, OnlyCloseLeaks

-----------------------------------------------------------------------------
(* Entries, for callers that take turns and may be killed inside a call.   *)
(* The handshake is then out of step, but an entry is still taken over by  *)
(* nobody: between looking for it and filling it, no other call runs.      *)

EntryCall(p) ==
  LET c == call[p]
  IN  /\ c.at \in {"post_socket", "wait_socket", "fill_socket"} =>
           SM[c.sockfd].socket_alloted = 0
      /\ c.at = "reset_socket" =>
           SM[c.sockfd].socket_alloted = 1 /\ SM[c.sockfd].process_id = p

EntriesInv == /\ OneCaller
              /\ DescriptorsAreOwn
              /\ DeadHaveNone
              /\ \A p \in Procs : EntryCall(p)

LEMMA QuietEntries ==
  ASSUME TypeOK, EntriesInv, OneAtATime, NEW p \in Procs, Quiet(p)
  PROVE  EntriesInv'
<1>1. /\ SM' = SM
      /\ \A q \in Procs : call'[q].at = "dead" <=> call[q].at = "dead"
      /\ \A q \in Procs \ {p} : call'[q] = call[q]
  BY QuietStep
<1>2. \A q \in Procs \ {p} : ~InCall(q)
  BY DEF EntriesInv, OneCaller, Quiet, FindFreeEntry, CheckOwner, MayCall, PostRequest,
         TakeAnswer, WriteRequest, Return, InCall
<1>3. OneCaller'
  BY <1>1, <1>2 DEF OneCaller, InCall
<1>4. \A q \in Procs \ {p} : EntryCall(q)'
  BY <1>1, <1>2 DEF EntryCall, InCall
<1>5. EntryCall(p) /\ call[p].sockfd \in Slots
  BY DEF EntriesInv, TypeOK, Call
<1>6. call[p].at # "dead"
  BY DEF Quiet, FindFreeEntry, CheckOwner, MayCall, PostRequest, TakeAnswer, WriteRequest, Return
<1>7. CASE Return(p)
  <2>1. call'[p].at = "ready"
    BY <1>7 DEF Return, READY, TypeOK
  <2>2. ASSUME NEW q \in Procs, NEW j \in opened'[q]
        PROVE  j \in Allotted /\ SM[j].process_id = q
    <3>1. CASE j \in opened[q]
      BY <3>1 DEF EntriesInv, DescriptorsAreOwn
    <3>2. CASE j \notin opened[q]
      <4>1. q = p /\ j = call[p].sockfd /\ call[p].at = "reset_socket"
        BY <1>7, <2>2, <3>2 DEF Return, TypeOK
      <4> QED
        BY <1>5, <4>1 DEF EntryCall, Allotted
    <3> QED
      BY <3>1, <3>2
  <2>3. DescriptorsAreOwn'
    BY <1>1, <2>2 DEF DescriptorsAreOwn, Allotted
  <2>4. DeadHaveNone'
    BY <1>1, <1>6, <1>7 DEF EntriesInv, DeadHaveNone, Return, TypeOK
  <2>5. EntryCall(p)'
    BY <2>1 DEF EntryCall
  <2> QED
    BY <1>3, <1>4, <2>3, <2>4, <2>5 DEF EntriesInv
<1>8. CASE ~Return(p)
  <2>1. opened' = opened
    BY <1>8 DEF Quiet, FindFreeEntry, CheckOwner, PostRequest, TakeAnswer, WriteRequest
  <2>2. DescriptorsAreOwn' /\ DeadHaveNone'
    BY <1>1, <2>1 DEF EntriesInv, DescriptorsAreOwn, DeadHaveNone, Allotted
  <2>3. ASSUME NEW l \in Places, Goto(p, l)
        PROVE  call'[p].at = l /\ call'[p].sockfd = call[p].sockfd
    BY <2>3 DEF Goto, TypeOK, Call
  <2>4. CASE FindFreeEntry(p)
    <3>1. call'[p].at = "post_socket" /\ SM[call'[p].sockfd].socket_alloted = 0
      BY <2>4 DEF FindFreeEntry, IsFirst, FreeSlots, TypeOK, Call
    <3> QED
      BY <1>1, <1>3, <1>4, <2>2, <3>1 DEF EntryCall, EntriesInv
  <2>5. CASE CheckOwner(p)
    <3>1. call'[p].at = "write_sock_id"
      BY <2>5 DEF CheckOwner, TypeOK, Call
    <3> QED
      BY <1>3, <1>4, <2>2, <3>1 DEF EntryCall, EntriesInv
  <2>6. CASE PostRequest(p) \/ TakeAnswer(p)
    <3>1. /\ call[p].at \in {"post_socket", "wait_socket"}
          /\ call'[p].at \in {"wait_socket", "fill_socket", "reset"}
          /\ call'[p].sockfd = call[p].sockfd
          \/ call'[p].at \in {"wait_bind", "fill_bind", "reset"}
      BY <2>3, <2>6 DEF PostRequest, TakeAnswer, Places
    <3> QED
      BY <1>1, <1>3, <1>4, <1>5, <2>2, <3>1 DEF EntryCall, EntriesInv
  <2>7. CASE WriteRequest(p)
    <3>1. call'[p].at \in {"write_IP", "write_port", "post_bind"}
      BY <2>3, <2>7 DEF WriteRequest, Places
    <3> QED
      BY <1>3, <1>4, <2>2, <3>1 DEF EntryCall, EntriesInv
  <2> QED
    BY <1>8, <2>4, <2>5, <2>6, <2>7 DEF Quiet
<1> QED
  BY <1>7, <1>8

LEMMA FillEntries ==
  ASSUME TypeOK, EntriesInv, NEW p \in Procs, FillEntry(p) \/ SetDestination(p)
  PROVE  EntriesInv'
<1> DEFINE i == call[p].sockfd
<1>1. EntryCall(p) /\ i \in Slots /\ InCall(p) /\ opened' = opened
  BY DEF EntriesInv, TypeOK, Call, InCall, FillEntry, SetDestination
<1>2. /\ \A q \in Procs \ {p} : ~InCall(q) /\ call'[q] = call[q]
      /\ call'[p].sockfd = i
  BY <1>1 DEF EntriesInv, OneCaller, FillEntry, SetDestination, Goto, TypeOK, Call
<1>3. CASE FillEntry(p)
  <2>1. SM[i].socket_alloted = 0 /\ call'[p].at = "reset_socket"
    BY <1>1, <1>3 DEF FillEntry, EntryCall, Goto, TypeOK, Call
  <2>2. /\ SM'[i].socket_alloted = 1 /\ SM'[i].process_id = p
        /\ \A j \in Slots \ {i} : SM'[j] = SM[j]
    BY <1>1, <1>3 DEF FillEntry, NewEntry, TypeOK
  <2> HIDE DEF i
  <2>3. DescriptorsAreOwn'
    BY <1>1, <2>1, <2>2 DEF EntriesInv, DescriptorsAreOwn, Allotted
  <2>4. OneCaller' /\ DeadHaveNone'
    BY <1>1, <1>2, <2>1 DEF EntriesInv, OneCaller, DeadHaveNone, InCall
  <2>5. \A q \in Procs : EntryCall(q)'
    BY <1>2, <2>1, <2>2 DEF EntryCall, InCall
  <2> QED
    BY <2>3, <2>4, <2>5 DEF EntriesInv
<1>4. CASE SetDestination(p)
  <2>1. call'[p].at = "reset"
    BY <1>4 DEF SetDestination, Goto, TypeOK, Call
  <2>2. \A j \in Slots : /\ SM'[j].socket_alloted = SM[j].socket_alloted
                         /\ SM'[j].process_id = SM[j].process_id
    BY <1>4 DEF SetDestination, TypeOK, Entry
  <2> HIDE DEF i
  <2>3. DescriptorsAreOwn'
    BY <1>1, <2>2 DEF EntriesInv, DescriptorsAreOwn, Allotted
  <2>4. OneCaller' /\ DeadHaveNone'
    BY <1>1, <1>2, <2>1 DEF EntriesInv, OneCaller, DeadHaveNone, InCall
  <2>5. \A q \in Procs : EntryCall(q)'
    BY <1>2, <2>1 DEF EntryCall, InCall
  <2> QED
    BY <2>3, <2>4, <2>5 DEF EntriesInv
<1> QED
  BY <1>3, <1>4

LEMMA CloseEntries ==
  ASSUME TypeOK, EntriesInv, NEW p \in Procs, m_close(p)
  PROVE  EntriesInv'
<1>1. PICK i \in Slots : /\ SM[i].process_id = p
                         /\ SM' = [SM EXCEPT ![i].socket_alloted = 0]
                         /\ opened' = [opened EXCEPT ![p] = @ \ {i}]
  BY DEF m_close
<1>2. /\ SM'[i].socket_alloted = 0
      /\ \A j \in Slots : /\ SM'[j].process_id = SM[j].process_id
                          /\ j # i => SM'[j] = SM[j]
  BY <1>1 DEF TypeOK, Entry
<1>3. call[p].at = "ready" /\ call' = call
  BY DEF m_close
<1>4. OneCaller'
  BY <1>3 DEF EntriesInv, OneCaller, InCall
<1>5. DescriptorsAreOwn' /\ DeadHaveNone'
  BY <1>1, <1>2, <1>3 DEF EntriesInv, DescriptorsAreOwn, DeadHaveNone, Allotted, TypeOK
<1>6. ASSUME NEW q \in Procs PROVE EntryCall(q)'
  <2>1. EntryCall(q) /\ call[q].sockfd \in Slots
    BY DEF EntriesInv, TypeOK, Call
  <2> QED
    BY <1>1, <1>2, <1>3, <2>1 DEF EntryCall
<1> QED
  BY <1>4, <1>5, <1>6 DEF EntriesInv

LEMMA KillEntries ==
  ASSUME TypeOK, EntriesInv, NEW p \in Procs, Kill(p)
  PROVE  EntriesInv'
<1>1. /\ call'[p].at = "dead" /\ opened'[p] = {} /\ SM' = SM
      /\ \A q \in Procs \ {p} : call'[q] = call[q] /\ opened'[q] = opened[q]
  BY DEF Kill, DEAD, TypeOK
<1>2. OneCaller' /\ DeadHaveNone'
  BY <1>1 DEF EntriesInv, OneCaller, DeadHaveNone, InCall
<1>3. DescriptorsAreOwn'
  BY <1>1 DEF EntriesInv, DescriptorsAreOwn, Allotted
<1>4. \A q \in Procs : EntryCall(q)'
  BY <1>1 DEF EntriesInv, EntryCall
<1> QED
  BY <1>2, <1>3, <1>4 DEF EntriesInv

LEMMA CollectEntries ==
  ASSUME TypeOK, EntriesInv, thread_G
  PROVE  EntriesInv'
<1>1. /\ \A i \in Slots \ Orphans : SM'[i] = SM[i]
      /\ \A i \in Orphans : SM'[i] = [SM[i] EXCEPT !.socket_alloted = 0]
      /\ call' = call /\ opened' = opened
      /\ Orphans \subseteq Slots
  BY DEF thread_G, Orphans
<1>2. \A i \in Orphans : /\ SM'[i].socket_alloted = 0
                         /\ SM[i].socket_alloted # 0
                         /\ call[SM[i].process_id].at = "dead"
  <2>1. ASSUME NEW i \in Orphans
        PROVE  /\ SM'[i].socket_alloted = 0
               /\ SM[i].socket_alloted # 0
               /\ call[SM[i].process_id].at = "dead"
    <3>1. SM[i] \in Entry /\ SM'[i] = [SM[i] EXCEPT !.socket_alloted = 0]
      BY <1>1 DEF TypeOK
    <3>2. SM'[i].socket_alloted = 0
      BY <3>1 DEF Entry
    <3>3. SM[i].socket_alloted > 0 /\ call[SM[i].process_id].at = "dead"
      BY DEF Orphans
    <3> QED
      BY <3>2, <3>3
  <2> QED
    BY <2>1
<1>3. OneCaller' /\ DeadHaveNone'
  BY <1>1 DEF EntriesInv, OneCaller, DeadHaveNone, InCall
<1>4. DescriptorsAreOwn'
  <2>1. ASSUME NEW q \in Procs, NEW i \in opened[q]
        PROVE  i \in Allotted /\ i \notin Orphans /\ SM[i].process_id = q
    <3>1. i \in Allotted /\ SM[i].process_id = q /\ call[q].at # "dead"
      BY DEF EntriesInv, DescriptorsAreOwn, DeadHaveNone
    <3> QED
      BY <1>2, <3>1
  <2> QED
    BY <1>1, <2>1 DEF DescriptorsAreOwn, Allotted
<1>5. ASSUME NEW q \in Procs PROVE EntryCall(q)'
  <2>1. EntryCall(q) /\ call[q].sockfd \in Slots
    BY DEF EntriesInv, TypeOK, Call
  <2> QED
    BY <1>1, <1>2, <2>1 DEF EntryCall
<1> QED
  BY <1>3, <1>4, <1>5 DEF EntriesInv

\* What m_socket returned to a caller stays its own until it closes it or
\* dies, whoever else is killed in the middle of which call: it is enough that
\* calls do not overlap.
THEOREM DescriptorsAreOwnHolds == ASSUME OneAtATime PROVE Spec => []DescriptorsAreOwn
<1>1. Init => TypeOK /\ EntriesInv
  <2> SUFFICES ASSUME Init PROVE EntriesInv
    BY TypeInit
  <2>1. \A p \in Procs : call[p].at = "ready" /\ opened[p] = {}
    BY DEF Init, READY
  <2> QED
    BY <2>1 DEF EntriesInv, OneCaller, InCall, DescriptorsAreOwn, DeadHaveNone, EntryCall
<1>2. TypeOK /\ EntriesInv /\ [Next]_vars => TypeOK' /\ EntriesInv'
  <2> SUFFICES ASSUME TypeOK, EntriesInv, [Next]_vars PROVE EntriesInv'
    BY TypeStep
  <2>1. ASSUME NEW p \in Procs, Quiet(p) PROVE EntriesInv'
    BY <2>1, QuietEntries
  <2>2. ASSUME NEW p \in Procs, FillEntry(p) \/ SetDestination(p) \/ m_close(p) \/ Kill(p)
        PROVE  EntriesInv'
    BY <2>2, FillEntries, CloseEntries, KillEntries
  <2>3. CASE Serve \/ UNCHANGED vars
    <3>1. SM' = SM /\ call' = call /\ opened' = opened
      BY <2>3 DEF Serve, vars
    <3> QED
      BY <3>1 DEF EntriesInv, OneCaller, InCall, DescriptorsAreOwn, Allotted, DeadHaveNone,
                  EntryCall
  <2> QED
    BY <2>1, <2>2, <2>3, CollectEntries DEF Next, Step, Quiet
<1>3. EntriesInv => DescriptorsAreOwn
  BY DEF EntriesInv
<1> QED
  BY <1>1, <1>2, <1>3, PTL DEF Spec

=============================================================================
