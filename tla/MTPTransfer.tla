---------------------------- MODULE MTPTransfer ----------------------------
(***************************************************************************)
(* Data transfer of MTP, the sliding-window protocol over UDP of           *)
(* "Assignment 5": bound sockets, the programs that call m_sendto and      *)
(* m_recvfrom on them, and the daemon threads S (sends and resends) and R  *)
(* (receives and acknowledges).                                            *)
(*                                                                         *)
(* Every action is one critical section of SM_mutex, or the part of one    *)
(* that deals with one socket: the loops of the daemon touch, for socket   *)
(* i, only entry i of the table and the network.  Time is abstracted: an   *)
(* interval may have passed whenever the code compares the clock.          *)
(*                                                                         *)
(* A definition introduced as a mutant of the next one is that definition  *)
(* with a plausible mistake; it shows that a property can fail.            *)
(***************************************************************************)
EXTENDS Integers, Sequences, FiniteSets, SequencesExt

CONSTANTS
  Socks,                \* the bound sockets
  Peer,                 \* Peer[s]: the socket that s is bound to
  SENDER_MSG_BUFFER,    \* slots of a send buffer (10)
  RECEIVER_MSG_BUFFER,  \* slots of a receive buffer (5)
  MaxSeq,               \* sequence numbers are 1..MaxSeq (15)
  RcvBuf,               \* bound: datagrams the kernel queues on a UDP socket
  Overtake,             \* bound: datagrams that a datagram may overtake
  MaxMsgs               \* bound: messages the program of each socket sends

ASSUME PeerAssumption == /\ Peer \in [Socks -> Socks]
                         /\ \A s \in Socks : Peer[s] # s /\ Peer[Peer[s]] = s
ASSUME BufferAssumption == /\ SENDER_MSG_BUFFER \in Nat
                           /\ RECEIVER_MSG_BUFFER \in 1..SENDER_MSG_BUFFER
                           /\ MaxSeq \in Nat
                           /\ MaxSeq >= SENDER_MSG_BUFFER
                           /\ MaxSeq >= 2 * RECEIVER_MSG_BUFFER
ASSUME BoundAssumption == /\ RcvBuf \in Nat \ {0}
                          /\ Overtake \in Nat
                          /\ MaxMsgs \in [Socks -> Nat]

VARIABLES
  send_window,        \* SM[s].send_window
  recv_window,        \* SM[s].recv_window
  persistence_timer,  \* the daemon's persistence_timer[s], without the clock
  udp,                \* udp[s]: datagrams queued on the UDP socket of s
  accepted,           \* how many messages m_sendto has accepted on s
  delivered           \* the messages m_recvfrom has returned on s

vars == <<send_window, recv_window, persistence_timer, udp, accepted, delivered>>

-----------------------------------------------------------------------------
(* Sequence numbers and datagrams.  A message is its ordinal; the body of  *)
(* an ACK is the window size it advertises.                                *)

FREE == -1                               \* the ack_no of an empty slot
SeqNo == 1..MaxSeq
\* Mutant of SeqAdd: one sequence number too few.
SeqAddWrapsEarly(n, k) == ((n - 1 + k) % (MaxSeq - 1)) + 1
SeqAdd(n, k) == ((n - 1 + k) % MaxSeq) + 1
SeqPrev(n) == IF n = 1 THEN MaxSeq ELSE n - 1

Datagram == [type : {"D", "A", "P"}, seq_no : 0..MaxSeq, body : Nat]
Data(slot) == [type |-> "D", seq_no |-> slot.ack_no, body |-> slot.message]
Ack(n, w) == [type |-> "A", seq_no |-> n, body |-> w]
Probe(n) == [type |-> "P", seq_no |-> n, body |-> 0]

\* The queue q after the datagrams ds were sent to it: UDP drops what does
\* not fit into the socket's buffer.
Arrive(q, ds) == IF Len(q \o ds) <= RcvBuf THEN q \o ds
                                           ELSE SubSeq(q \o ds, 1, RcvBuf)

-----------------------------------------------------------------------------
(* The two windows.                                                        *)

SendIndex == 0..(SENDER_MSG_BUFFER - 1)
RecvIndex == 0..(RECEIVER_MSG_BUFFER - 1)
SendSlot(w, k) == (w.window_start_index + k) % SENDER_MSG_BUFFER
ReadSlot(w, k) == (w.index_to_read + k) % RECEIVER_MSG_BUFFER
WriteSlot(w, k) == (w.index_to_write + k) % RECEIVER_MSG_BUFFER

\* Offsets from the window's start that hold a message the window lets out:
\* the scans of threads S and R stop at the first free slot.
OpenOffsets(w) ==
  {k \in SendIndex : /\ k < w.window_size
                     /\ \A j \in 0..k : w.send_buff[SendSlot(w, j)].ack_no # FREE}

\* The windows that m_socket gives to a socket.
NewSendWindow ==
  [send_buff |-> [i \in SendIndex |-> [ack_no |-> FREE, sent |-> 0, message |-> 0]],
   last_seq_no |-> 0,
   window_size |-> RECEIVER_MSG_BUFFER,
   window_start_index |-> 0]
NewRecvWindow ==
  [recv_buff |-> [i \in RecvIndex |-> [ack_no |-> FREE, message |-> 0]],
   index_to_read |-> 0,
   index_to_write |-> 0,
   next_seq_no |-> 1,
   window_size |-> RECEIVER_MSG_BUFFER,
   nospace |-> 0]

Init ==
  /\ send_window = [s \in Socks |-> NewSendWindow]
  /\ recv_window = [s \in Socks |-> NewRecvWindow]
  /\ persistence_timer = [s \in Socks |-> [flag |-> 0, ack_seq_no |-> 0]]
  /\ udp = [s \in Socks |-> << >>]
  /\ accepted = [s \in Socks |-> 0]
  /\ delivered = [s \in Socks |-> << >>]

-----------------------------------------------------------------------------
(* The calls of the programs.                                              *)

\* The send window after message m took the slot at offset k.
Enqueue(w, k, m) ==
  LET n == SeqAdd(w.last_seq_no, 1)
  IN  [w EXCEPT !.last_seq_no = n,
                !.send_buff[SendSlot(w, k)] = [ack_no |-> n, sent |-> 0, message |-> m]]

\* m_sendto takes the first free slot from the window's start; it fails with
\* ENOBUFS, and changes nothing, when there is none.
m_sendto(s) ==
  /\ accepted[s] < MaxMsgs[s]
  /\ \E k \in SendIndex :
       /\ send_window[s].send_buff[SendSlot(send_window[s], k)].ack_no = FREE
       /\ \A j \in 0..(k - 1) : send_window[s].send_buff[SendSlot(send_window[s], j)].ack_no # FREE
       /\ send_window' = [send_window EXCEPT ![s] = Enqueue(@, k, accepted[s] + 1)]
  /\ accepted' = [accepted EXCEPT ![s] = @ + 1]
  /\ UNCHANGED <<recv_window, persistence_timer, udp, delivered>>

\* The receive window after the slot to read was emptied.
Dequeue(w) ==
  [w EXCEPT !.recv_buff[w.index_to_read] = [ack_no |-> FREE, message |-> 0],
            !.index_to_read = ReadSlot(w, 1),
            !.window_size = @ + 1]

\* m_recvfrom fails with ENOMSG, and changes nothing, when the slot to read
\* is empty.
m_recvfrom(s) ==
  LET w == recv_window[s]
  IN  /\ w.recv_buff[w.index_to_read].ack_no # FREE
      /\ delivered' = [delivered EXCEPT ![s] = Append(@, w.recv_buff[w.index_to_read].message)]
      /\ recv_window' = [recv_window EXCEPT ![s] = Dequeue(@)]
      /\ UNCHANGED <<send_window, persistence_timer, udp, accepted>>

-----------------------------------------------------------------------------
(* Thread S.                                                               *)

\* Mutant of Backoff: one doubling too many.
BackoffUnlimited(flag) == IF flag <= 4 THEN flag + 1 ELSE flag
\* The waiting time T * 2^(flag - 1) doubles up to a limit.
Backoff(flag) == IF flag <= 3 THEN flag + 1 ELSE flag

\* The persistence timer of s has gone off.
SendProbe(s) ==
  /\ persistence_timer[s].flag > 0
  /\ udp' = [udp EXCEPT ![Peer[s]] = Arrive(@, <<Probe(persistence_timer[s].ack_seq_no)>>)]
  /\ persistence_timer' = [persistence_timer EXCEPT ![s].flag = Backoff(@)]
  /\ UNCHANGED <<send_window, recv_window, accepted, delivered>>

\* Mutant of Passes: nothing is sent a second time.
PassesWithoutResend(w) ==
  {q \in UNION {[1..n -> OpenOffsets(w)] : n \in 1..Cardinality(OpenOffsets(w))} :
     /\ \A i, j \in DOMAIN q : i < j => q[i] < q[j]
     /\ \A k \in OpenOffsets(w) :
          w.send_buff[SendSlot(w, k)].sent = 0 <=> \E i \in DOMAIN q : q[i] = k}

\* What one pass over the window may transmit: offsets in increasing order,
\* every unsent message among them, and those sent T or longer ago.
Passes(w) ==
  {q \in UNION {[1..n -> OpenOffsets(w)] : n \in 1..Cardinality(OpenOffsets(w))} :
     /\ \A i, j \in DOMAIN q : i < j => q[i] < q[j]
     /\ \A k \in OpenOffsets(w) :
          w.send_buff[SendSlot(w, k)].sent = 0 => \E i \in DOMAIN q : q[i] = k}

MarkSent(w, q) ==
  [w EXCEPT !.send_buff = [i \in SendIndex |->
     IF \E j \in DOMAIN q : i = SendSlot(w, q[j]) THEN [@[i] EXCEPT !.sent = 1] ELSE @[i]]]

SendPass(s, q) ==
  LET w == send_window[s]
  IN  /\ send_window' = [send_window EXCEPT ![s] = MarkSent(w, q)]
      /\ udp' = [udp EXCEPT ![Peer[s]] =
                   Arrive(@, [j \in DOMAIN q |-> Data(w.send_buff[SendSlot(w, q[j])])])]
      /\ UNCHANGED <<recv_window, persistence_timer, accepted, delivered>>

-----------------------------------------------------------------------------
(* Thread R: the handling of one datagram, queue position i, on socket s.  *)

\* The positions R may take next: the head, or one that has overtaken.
Arrived(s) == {i \in 1..(1 + Overtake) : i <= Len(udp[s])}

Consume(s, i) == udp' = [udp EXCEPT ![s] = RemoveAt(@, i)]
Answer(s, i, ack) == udp' = [udp EXCEPT ![s] = RemoveAt(@, i),
                                        ![Peer[s]] = Arrive(@, <<ack>>)]

\* The slot k places after the one to write already holds its message.
Buffered(w, k) == w.recv_buff[WriteSlot(w, k)].ack_no = SeqAdd(w.next_seq_no, k)

\* Mutant of InOrderRuns: messages that came early are not caught up with.
InOrderRunsOfOne(w) == {1}

\* The number of messages that become readable when the next one arrives.
InOrderRuns(w) ==
  {n \in 1..RECEIVER_MSG_BUFFER :
     /\ n <= w.window_size
     /\ \A k \in 1..(n - 1) : Buffered(w, k)
     /\ n = RECEIVER_MSG_BUFFER \/ n = w.window_size \/ ~Buffered(w, n)}

\* The receive window after message m came in order and made n readable.
StoreInOrder(w, m, n) ==
  [w EXCEPT !.recv_buff[w.index_to_write] = [ack_no |-> w.next_seq_no, message |-> m],
            !.index_to_write = WriteSlot(w, n),
            !.next_seq_no = SeqAdd(@, n),
            !.window_size = @ - n,
            !.nospace = IF w.window_size = n THEN 1 ELSE @]

\* Mutant of AckRun: advertises the window as it was before the message came.
AckRunOldWindow(w, n) == Ack(SeqAdd(w.next_seq_no, n - 1), w.window_size)
\* The acknowledgement of the n messages that became readable.
AckRun(w, n) == Ack(SeqAdd(w.next_seq_no, n - 1), w.window_size - n)

IsNext(w, d) == d.seq_no = w.next_seq_no /\ w.window_size > 0

ReceiveInOrder(s, i) ==
  LET w == recv_window[s]
      d == udp[s][i]
  IN  /\ d.type = "D" /\ IsNext(w, d)
      /\ \E n \in InOrderRuns(w) :
           /\ recv_window' = [recv_window EXCEPT ![s] = StoreInOrder(w, d.body, n)]
           /\ Answer(s, i, AckRun(w, n))
      /\ UNCHANGED <<send_window, persistence_timer, accepted, delivered>>

\* Offsets, past the slot to write, at which the window expects d.
ExpectedAt(w, d) ==
  {k \in 1..(RECEIVER_MSG_BUFFER - 1) : k < w.window_size /\ d.seq_no = SeqAdd(w.next_seq_no, k)}

\* Mutant of StoreEarly: the slot after the right one is written.
StoreEarlyOneSlotLate(w, d, k) ==
  [w EXCEPT !.recv_buff[WriteSlot(w, k + 1)] = [ack_no |-> d.seq_no, message |-> d.body]]
\* The receive window after d came early, for the slot at offset k.
StoreEarly(w, d, k) ==
  IF w.recv_buff[WriteSlot(w, k)].ack_no = d.seq_no THEN w
  ELSE [w EXCEPT !.recv_buff[WriteSlot(w, k)] = [ack_no |-> d.seq_no, message |-> d.body]]

\* Mutants of AckInOrder: acknowledges the message that is still missing;
\* advertises the free slots, so that early messages close the window.
AckInOrderOneTooFar(w) == Ack(w.next_seq_no, w.window_size)
AckInOrderFreeSlots(w) ==
  Ack(SeqPrev(w.next_seq_no), Cardinality({i \in RecvIndex : w.recv_buff[i].ack_no = FREE}))
\* The acknowledgement of what has been received in order so far.
AckInOrder(w) == Ack(SeqPrev(w.next_seq_no), w.window_size)

ReceiveEarly(s, i) ==
  LET w == recv_window[s]
      d == udp[s][i]
  IN  /\ d.type = "D" /\ ~IsNext(w, d)
      /\ \E k \in ExpectedAt(w, d) :
           recv_window' = [recv_window EXCEPT ![s] = StoreEarly(w, d, k)]
      /\ Answer(s, i, AckInOrder(w))
      /\ UNCHANGED <<send_window, persistence_timer, accepted, delivered>>

ReceiveOutside(s, i) ==
  LET w == recv_window[s]
      d == udp[s][i]
  IN  /\ d.type = "D" /\ ~IsNext(w, d) /\ ExpectedAt(w, d) = {}
      /\ Answer(s, i, AckInOrder(w))
      /\ UNCHANGED <<send_window, recv_window, persistence_timer, accepted, delivered>>

\* The offset of the first open slot with sequence number n, if there is one.
AckedAt(w, n) ==
  {k \in OpenOffsets(w) : /\ w.send_buff[SendSlot(w, k)].ack_no = n
                          /\ \A j \in 0..(k - 1) : w.send_buff[SendSlot(w, j)].ack_no # n}

\* Mutant of SlidePast: the window starts at the slot just acknowledged.
SlidePastOneShort(w, k) ==
  [w EXCEPT !.send_buff = [i \in SendIndex |->
              IF \E j \in 0..k : i = SendSlot(w, j) THEN [@[i] EXCEPT !.ack_no = FREE] ELSE @[i]],
            !.window_start_index = SendSlot(w, k)]
\* The send window after the slots at offsets 0..k were acknowledged.
SlidePast(w, k) ==
  [w EXCEPT !.send_buff = [i \in SendIndex |->
              IF \E j \in 0..k : i = SendSlot(w, j) THEN [@[i] EXCEPT !.ack_no = FREE] ELSE @[i]],
            !.window_start_index = SendSlot(w, k + 1)]

\* Mutant of TimerAfter: a closed window does not start the timer.
TimerAfterNeverStarts(t, n, size) ==
  IF size > 0 THEN [t EXCEPT !.flag = 0] ELSE [t EXCEPT !.ack_seq_no = n]
\* The timer after an ACK with sequence number n advertised size: a closed
\* window starts it, an open one turns it off.
TimerAfter(t, n, size) ==
  IF size > 0 THEN [t EXCEPT !.flag = 0]
  ELSE [flag |-> IF t.flag = 0 THEN 1 ELSE t.flag, ack_seq_no |-> n]

ReceiveAck(s, i) ==
  LET w == send_window[s]
      d == udp[s][i]
  IN  /\ d.type = "A"
      /\ \/ \E k \in AckedAt(w, d.seq_no) :
              send_window' = [send_window EXCEPT ![s] = [SlidePast(w, k) EXCEPT !.window_size = d.body]]
         \/ /\ AckedAt(w, d.seq_no) = {}
            /\ send_window' = [send_window EXCEPT ![s].window_size = d.body]
      /\ persistence_timer' = [persistence_timer EXCEPT ![s] = TimerAfter(@, d.seq_no, d.body)]
      /\ Consume(s, i)
      /\ UNCHANGED <<recv_window, accepted, delivered>>

\* A probe is answered with the sequence number it carries.
ReceiveProbe(s, i) ==
  /\ udp[s][i].type = "P"
  /\ Answer(s, i, Ack(udp[s][i].seq_no, recv_window[s].window_size))
  /\ UNCHANGED <<send_window, recv_window, persistence_timer, accepted, delivered>>

\* dropMessage simulates the loss of a datagram.
DropMessage(s, i) ==
  /\ Consume(s, i)
  /\ UNCHANGED <<send_window, recv_window, persistence_timer, accepted, delivered>>

\* select() timed out: a receiver that had to close its window tells the
\* sender that it has space again.  Datagrams that arrive after the timeout,
\* while R waits for SM_mutex, do not stop it.
WindowUpdate(s) ==
  /\ recv_window[s].nospace = 1 /\ recv_window[s].window_size > 0
  /\ udp' = [udp EXCEPT ![Peer[s]] = Arrive(@, <<AckInOrder(recv_window[s])>>)]
  /\ recv_window' = [recv_window EXCEPT ![s].nospace = 0]
  /\ UNCHANGED <<send_window, persistence_timer, accepted, delivered>>

-----------------------------------------------------------------------------

thread_S(s) == SendProbe(s) \/ \E q \in Passes(send_window[s]) : SendPass(s, q)

HandleDatagram(s, i) ==
  \/ ReceiveInOrder(s, i)
  \/ ReceiveEarly(s, i)
  \/ ReceiveOutside(s, i)
  \/ ReceiveAck(s, i)
  \/ ReceiveProbe(s, i)
  \/ DropMessage(s, i)

thread_R(s) == WindowUpdate(s) \/ \E i \in Arrived(s) : HandleDatagram(s, i)

Next == \E s \in Socks : m_sendto(s) \/ m_recvfrom(s) \/ thread_S(s) \/ thread_R(s)

Spec == Init /\ [][Next]_vars

-----------------------------------------------------------------------------
(* Safety.                                                                 *)

SendWindow == [send_buff : [SendIndex -> [ack_no : {FREE} \cup SeqNo, sent : {0, 1}, message : Nat]],
               last_seq_no : 0..MaxSeq,
               window_size : Nat,
               window_start_index : SendIndex]
RecvWindow == [recv_buff : [RecvIndex -> [ack_no : {FREE} \cup SeqNo, message : Nat]],
               index_to_read : RecvIndex,
               index_to_write : RecvIndex,
               next_seq_no : SeqNo,
               window_size : Nat,
               nospace : {0, 1}]

\* The type invariant: slot indexes and sequence numbers stay in range and
\* no window size (of either end, or advertised) is ever negative.
TypeOK ==
  /\ send_window \in [Socks -> SendWindow]
  /\ recv_window \in [Socks -> RecvWindow]
  /\ persistence_timer \in [Socks -> [flag : 0..4, ack_seq_no : 0..MaxSeq]]
  /\ udp \in [Socks -> Seq(Datagram)]
  /\ accepted \in [Socks -> Nat]
  /\ delivered \in [Socks -> Seq(Nat)]

\* Readable messages that the program of s has not fetched.
Unread(s) == RECEIVER_MSG_BUFFER - recv_window[s].window_size
\* What s has received in order, fetched or not.
ReceivedInOrder(s) == Len(delivered[s]) + Unread(s)
\* Messages in the send buffer of s; what s has accepted and let go of.
Unacked(s) == Cardinality({i \in SendIndex : send_window[s].send_buff[i].ack_no # FREE})
Acked(s) == accepted[s] - Unacked(s)

\* Receive-buffer accounting (receiver loop and m_recvfrom share the ring):
\* the readable messages are the slots from index_to_read up to
\* index_to_write, window_size counts all others, and a slot past
\* index_to_write is empty or holds the very sequence number due there, the
\* one to write next being empty.  So m_recvfrom never hands out a message
\* that came early, and an early one is never overwritten or stranded.
ReceiveRing(w) ==
  /\ w.window_size <= RECEIVER_MSG_BUFFER
  /\ w.index_to_write = ReadSlot(w, RECEIVER_MSG_BUFFER - w.window_size)
  /\ \A k \in RecvIndex :
       /\ k < RECEIVER_MSG_BUFFER - w.window_size => w.recv_buff[ReadSlot(w, k)].ack_no # FREE
       /\ k < w.window_size =>
            w.recv_buff[WriteSlot(w, k)].ack_no \in {FREE, SeqAdd(w.next_seq_no, k)}
  /\ w.window_size > 0 => w.recv_buff[w.index_to_write].ack_no = FREE

ReceiveRingOK == \A s \in Socks : ReceiveRing(recv_window[s])

\* Send-buffer accounting (m_sendto fills the ring, ACKs empty it): the
\* messages held are contiguous from the window's start and carry the
\* consecutive sequence numbers that end in last_seq_no.
SendRing(w) ==
  \E n \in 0..SENDER_MSG_BUFFER :
    \A k \in SendIndex :
      LET slot == w.send_buff[SendSlot(w, k)]
      IN  IF k < n THEN slot.ack_no = SeqAdd(w.last_seq_no, k + 1 - n + MaxSeq) ELSE slot.ack_no = FREE

SendRingOK == \A s \in Socks : SendRing(send_window[s])

\* Exactly once and in order: what m_recvfrom has returned on a socket is
\* what m_sendto was given on its peer, from the first message on, without
\* loss, repetition or swap, whatever the network drops.
InOrderDelivery ==
  \A s \in Socks : /\ Len(delivered[s]) <= accepted[Peer[s]]
                   /\ \A n \in DOMAIN delivered[s] : delivered[s][n] = n

\* A sender lets go of a message only when the receiver has it in order: no
\* ACK, late, repeated or echoed for a probe, frees what could still be lost.
NoLossAfterAck == \A s \in Socks : Acked(s) <= ReceivedInOrder(Peer[s])

\* Sequence numbers are reused without confusion: a DATA datagram still in
\* the network whose number the receiver would accept is the message due at
\* that place, not an earlier one with the same number.
NoStaleNumberAccepted ==
  \A s \in Socks : \A i \in DOMAIN udp[s] :
    LET d == udp[s][i]
    IN  d.type = "D" =>
          \A k \in 0..(recv_window[s].window_size - 1) :
            d.seq_no = SeqAdd(recv_window[s].next_seq_no, k) => d.body = ReceivedInOrder(s) + k + 1

\* Flow control: the window never lets out a message for which the receiver
\* does not keep a slot, although window sizes travel in ACKs that are lost
\* and the program empties slots without telling the sender.
WindowFitsReceiver ==
  \A s \in Socks : Acked(s) + send_window[s].window_size <= Len(delivered[Peer[s]]) + RECEIVER_MSG_BUFFER

\* A sender whose window is closed has its persistence timer running, and
\* only then: otherwise nothing would ever open the window again.
ClosedWindowIsProbed ==
  \A s \in Socks : send_window[s].window_size = 0 <=> persistence_timer[s].flag > 0

\* The right edge of the send window never moves back: no ACK, and no answer
\* to a probe, takes back room that was promised before.
RightEdgeNeverRetreats ==
  [][\A s \in Socks : Acked(s)' + send_window'[s].window_size >= Acked(s) + send_window[s].window_size]_vars

-----------------------------------------------------------------------------
(* Liveness and the abstract channel.                                      *)

\* The programs keep calling (user1 retries on ENOBUFS, user2 polls), thread
\* S visits every socket again and again and resends what was sent T ago, and
\* R empties every queue.  dropMessage drops each datagram independently with
\* probability P < 1, and a queue is not full each time S sends, so a
\* datagram of a kind that keeps being offered is handled sometimes.
SendsFirst(s) ==
  /\ Len(udp[Peer[s]]) < RcvBuf
  /\ \E q \in Passes(send_window[s]) : q[1] = 0 /\ SendPass(s, q)
Takes(s) == \E i \in Arrived(s) : HandleDatagram(s, i)

Fairness ==
  \A s \in Socks :
    /\ WF_vars(m_sendto(s))
    /\ WF_vars(m_recvfrom(s))
    /\ WF_vars(SendProbe(s))
    /\ WF_vars(Takes(s))
    /\ MaxMsgs[s] > 0 => /\ SF_vars(SendsFirst(s))
                         /\ SF_vars(\E i \in Arrived(s) : ReceiveAck(s, i))
    /\ MaxMsgs[Peer[s]] > 0 => /\ SF_vars(\E i \in Arrived(s) : ReceiveInOrder(s, i))
                               /\ SF_vars(\E i \in Arrived(s) : ReceiveOutside(s, i))
                               /\ SF_vars(\E i \in Arrived(s) : ReceiveProbe(s, i))

FairSpec == Spec /\ Fairness

\* Every message the programs send arrives: lost data, lost ACKs, a closed
\* window and a lost window update are all recovered from.
EverythingArrives == \A s \in Socks : <>[](Len(delivered[Peer[s]]) = MaxMsgs[s])

Channel == INSTANCE ReliableChannel
             WITH Capacity <- SENDER_MSG_BUFFER + RECEIVER_MSG_BUFFER

\* The connection implements a bounded, reliable FIFO channel in each
\* direction, and delivers all it has accepted.
ImplementsChannel == Channel!Spec
=============================================================================
