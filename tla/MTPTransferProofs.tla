------------------------- MODULE MTPTransferProofs -------------------------
(* Theorems about MTPTransfer, for every number of sockets, every size of  *)
(* the buffers and of the network, and every reordering of datagrams.      *)
EXTENDS MTPTransfer, TLAPS, SequenceTheorems, FiniteSetTheorems

-----------------------------------------------------------------------------
(* Arithmetic of rings and of sequence numbers.                            *)

\* A ring index moved forward by at most one turn wraps at most once.
LEMMA RingStep ==
  ASSUME NEW n \in Nat \ {0}, NEW i \in 0..(n - 1), NEW k \in 0..n
  PROVE  (i + k) % n = IF i + k < n THEN i + k ELSE i + k - n
<1>1. CASE i + k < n
  BY <1>1, SMT
<1>2. CASE i + k >= n
  <2>1. i + k \in n..(2 * n - 1)
    BY <1>2, SMT
  <2>2. (i + k) % n = i + k - n
    BY <2>1, SMT
  <2> QED BY <1>2, <2>2, SMT
<1> QED BY <1>1, <1>2, SMT

\* A slot k places from the start of a window is a slot of the ring.
LEMMA SendSlotStep ==
  ASSUME NEW w \in SendWindow, NEW k \in 0..SENDER_MSG_BUFFER
  PROVE  /\ SendSlot(w, k) = IF w.window_start_index + k < SENDER_MSG_BUFFER
                             THEN w.window_start_index + k
                             ELSE w.window_start_index + k - SENDER_MSG_BUFFER
         /\ SendSlot(w, k) \in SendIndex
<1>1. /\ SENDER_MSG_BUFFER \in Nat \ {0}
      /\ w.window_start_index \in 0..(SENDER_MSG_BUFFER - 1)
  BY BufferAssumption, SMT DEF SendWindow, SendIndex
<1>2. SendSlot(w, k) = IF w.window_start_index + k < SENDER_MSG_BUFFER
                       THEN w.window_start_index + k
                       ELSE w.window_start_index + k - SENDER_MSG_BUFFER
  BY <1>1, RingStep DEF SendSlot
<1> QED BY <1>1, <1>2, SMT DEF SendIndex

LEMMA RecvSlotStep ==
  ASSUME NEW w \in RecvWindow, NEW k \in 0..RECEIVER_MSG_BUFFER
  PROVE  /\ WriteSlot(w, k) = IF w.index_to_write + k < RECEIVER_MSG_BUFFER
                              THEN w.index_to_write + k
                              ELSE w.index_to_write + k - RECEIVER_MSG_BUFFER
         /\ ReadSlot(w, k) = IF w.index_to_read + k < RECEIVER_MSG_BUFFER
                             THEN w.index_to_read + k
                             ELSE w.index_to_read + k - RECEIVER_MSG_BUFFER
         /\ WriteSlot(w, k) \in RecvIndex
         /\ ReadSlot(w, k) \in RecvIndex
<1>1. /\ RECEIVER_MSG_BUFFER \in Nat \ {0}
      /\ w.index_to_write \in 0..(RECEIVER_MSG_BUFFER - 1)
      /\ w.index_to_read \in 0..(RECEIVER_MSG_BUFFER - 1)
  BY BufferAssumption, SMT DEF RecvWindow, RecvIndex
<1>2. WriteSlot(w, k) = IF w.index_to_write + k < RECEIVER_MSG_BUFFER
                        THEN w.index_to_write + k
                        ELSE w.index_to_write + k - RECEIVER_MSG_BUFFER
  BY <1>1, RingStep DEF WriteSlot
<1>3. ReadSlot(w, k) = IF w.index_to_read + k < RECEIVER_MSG_BUFFER
                       THEN w.index_to_read + k
                       ELSE w.index_to_read + k - RECEIVER_MSG_BUFFER
  BY <1>1, RingStep DEF ReadSlot
<1> QED BY <1>1, <1>2, <1>3, SMT DEF RecvIndex

\* Sequence numbers wrap from MaxSeq to 1 and never become 0.
LEMMA SeqAddStep ==
  ASSUME NEW n \in SeqNo, NEW k \in 0..MaxSeq
  PROVE  /\ SeqAdd(n, k) = IF n + k <= MaxSeq THEN n + k ELSE n + k - MaxSeq
         /\ SeqAdd(n, k) \in SeqNo
<1>1. MaxSeq \in Nat \ {0} /\ n - 1 \in 0..(MaxSeq - 1)
  BY BufferAssumption, SMT DEF SeqNo
<1>2. (n - 1 + k) % MaxSeq = IF n - 1 + k < MaxSeq THEN n - 1 + k ELSE n - 1 + k - MaxSeq
  BY <1>1, RingStep
<1> QED BY <1>1, <1>2, SMT DEF SeqAdd, SeqNo

\* The number after last_seq_no, which is 0 before the first message.
LEMMA SeqAfter ==
  ASSUME NEW n \in 0..MaxSeq
  PROVE  SeqAdd(n, 1) \in SeqNo
<1>1. CASE n = 0
  BY <1>1, BufferAssumption, SMT DEF SeqAdd, SeqNo
<1>2. CASE n \in SeqNo
  BY <1>2, SeqAddStep, BufferAssumption, SMT DEF SeqNo
<1> QED BY <1>1, <1>2, BufferAssumption, SMT DEF SeqNo

LEMMA SeqPrevType ==
  ASSUME NEW n \in SeqNo
  PROVE  SeqPrev(n) \in SeqNo
BY BufferAssumption, SMT DEF SeqPrev, SeqNo

-----------------------------------------------------------------------------
(* The network.                                                            *)

\* What is sent to a queue of datagrams leaves a queue of datagrams.
LEMMA ArriveType ==
  ASSUME NEW q \in Seq(Datagram), NEW ds \in Seq(Datagram)
  PROVE  Arrive(q, ds) \in Seq(Datagram)
<1>1. q \o ds \in Seq(Datagram) /\ Len(q \o ds) \in Nat
  BY ConcatProperties, LenProperties
<1>2. CASE Len(q \o ds) <= RcvBuf
  BY <1>1, <1>2 DEF Arrive
<1>3. CASE ~(Len(q \o ds) <= RcvBuf)
  <2>1. \A i \in 1..RcvBuf : (q \o ds)[i] \in Datagram
    BY <1>1, <1>3, BoundAssumption, ElementOfSeq, SMT
  <2>2. SubSeq(q \o ds, 1, RcvBuf) \in Seq(Datagram)
    BY <2>1, BoundAssumption, SubSeqProperties, <1>1, <1>3, SMT
  <2> QED BY <1>3, <2>2 DEF Arrive
<1> QED BY <1>2, <1>3

LEMMA OneDatagram ==
  ASSUME NEW d \in Datagram
  PROVE  <<d>> \in Seq(Datagram)
OBVIOUS

LEMMA RemoveAtType ==
  ASSUME NEW q \in Seq(Datagram), NEW i \in 1..Len(q)
  PROVE  RemoveAt(q, i) \in Seq(Datagram)
<1>1. SubSeq(q, 1, i - 1) \in Seq(Datagram)
  BY SubSeqProperties, LenProperties, ElementOfSeq, SMT
<1>2. SubSeq(q, i + 1, Len(q)) \in Seq(Datagram)
  BY SubSeqProperties, LenProperties, ElementOfSeq, SMT
<1> QED BY <1>1, <1>2, ConcatProperties DEF RemoveAt
-----------------------------------------------------------------------------
(* Type correctness.                                                       *)

\* What a pass transmits: offsets of the send ring.
LEMMA PassType ==
  ASSUME NEW w \in SendWindow, NEW q \in Passes(w)
  PROVE  /\ \E n \in Nat : q \in [1..n -> OpenOffsets(w)]
         /\ \A j \in DOMAIN q : q[j] \in OpenOffsets(w)
<1>1. IsFiniteSet(SendIndex)
  BY BufferAssumption, FS_Interval, SMT DEF SendIndex
<1>2. IsFiniteSet(OpenOffsets(w))
  BY <1>1, FS_Subset DEF OpenOffsets
<1>3. Cardinality(OpenOffsets(w)) \in Nat
  BY <1>2, FS_CardinalityType
<1>4. PICK n \in 1..Cardinality(OpenOffsets(w)) : q \in [1..n -> OpenOffsets(w)]
  BY DEF Passes
<1>5. n \in Nat
  BY <1>3, <1>4, SMT
<1> QED BY <1>4, <1>5

\* A message in an open slot makes a DATA datagram.
LEMMA DataType ==
  ASSUME NEW w \in SendWindow, NEW k \in OpenOffsets(w)
  PROVE  Data(w.send_buff[SendSlot(w, k)]) \in Datagram
<1>1. k \in 0..SENDER_MSG_BUFFER /\ k \in 0..k /\ k \in SendIndex
  BY BufferAssumption, SMT DEF OpenOffsets, SendIndex
<1>2. SendSlot(w, k) \in SendIndex
  BY <1>1, SendSlotStep
<1>3. w.send_buff[SendSlot(w, k)].ack_no # FREE
  BY <1>1 DEF OpenOffsets
<1>4. /\ w.send_buff[SendSlot(w, k)].ack_no \in SeqNo
      /\ w.send_buff[SendSlot(w, k)].message \in Nat
  BY <1>2, <1>3 DEF SendWindow
<1> QED BY <1>4, BufferAssumption, SMT DEF Data, Datagram, SeqNo

\* An acknowledgement of what was received in order is a datagram.
LEMMA AckInOrderType ==
  ASSUME NEW w \in RecvWindow
  PROVE  AckInOrder(w) \in Datagram
<1>1. SeqPrev(w.next_seq_no) \in SeqNo
  BY SeqPrevType DEF RecvWindow
<1> QED BY <1>1, BufferAssumption, SMT DEF AckInOrder, Ack, Datagram, RecvWindow, SeqNo

\* Taking a datagram off one queue and answering on the peer's keeps the types.
LEMMA AnswerType ==
  ASSUME TypeOK, NEW s \in Socks, NEW i \in Arrived(s), NEW d \in Datagram, Answer(s, i, d)
  PROVE  udp' \in [Socks -> Seq(Datagram)]
<1>1. udp[s] \in Seq(Datagram) /\ i \in 1..Len(udp[s])
  BY LenProperties, SMT DEF TypeOK, Arrived
<1>2. RemoveAt(udp[s], i) \in Seq(Datagram)
  BY <1>1, RemoveAtType
<1>3. Peer[s] \in Socks /\ Peer[s] # s
  BY PeerAssumption
<1>4. udp[Peer[s]] \in Seq(Datagram)
  BY <1>3 DEF TypeOK
<1>5. Arrive(udp[Peer[s]], <<d>>) \in Seq(Datagram)
  BY <1>4, OneDatagram, ArriveType
<1> QED BY <1>2, <1>3, <1>5 DEF Answer, TypeOK

LEMMA ConsumeType ==
  ASSUME TypeOK, NEW s \in Socks, NEW i \in Arrived(s), Consume(s, i)
  PROVE  udp' \in [Socks -> Seq(Datagram)]
<1>1. udp[s] \in Seq(Datagram) /\ i \in 1..Len(udp[s])
  BY LenProperties, SMT DEF TypeOK, Arrived
<1>2. RemoveAt(udp[s], i) \in Seq(Datagram)
  BY <1>1, RemoveAtType
<1> QED BY <1>2 DEF Consume, TypeOK

\* The handled datagram is one.
LEMMA HeadType ==
  ASSUME TypeOK, NEW s \in Socks, NEW i \in Arrived(s)
  PROVE  udp[s][i] \in Datagram
<1>1. udp[s] \in Seq(Datagram) /\ i \in 1..Len(udp[s])
  BY LenProperties, SMT DEF TypeOK, Arrived
<1> QED BY <1>1, ElementOfSeq

\* The updates of a send window keep its type.
LEMMA SendWindowType ==
  ASSUME NEW w \in SendWindow
  PROVE  /\ \A k \in SendIndex, m \in Nat : Enqueue(w, k, m) \in SendWindow
         /\ \A q \in Passes(w) : MarkSent(w, q) \in SendWindow
         /\ \A k \in OpenOffsets(w), size \in Nat :
              [SlidePast(w, k) EXCEPT !.window_size = size] \in SendWindow
         /\ \A size \in Nat : [w EXCEPT !.window_size = size] \in SendWindow
<1>1. ASSUME NEW k \in SendIndex, NEW m \in Nat
      PROVE  Enqueue(w, k, m) \in SendWindow
  <2>1. SendSlot(w, k) \in SendIndex
    BY SendSlotStep, BufferAssumption, SMT DEF SendIndex
  <2>2. SeqAdd(w.last_seq_no, 1) \in SeqNo
    BY SeqAfter DEF SendWindow
  <2> DEFINE n == SeqAdd(w.last_seq_no, 1)
             slot == [ack_no |-> n, sent |-> 0, message |-> m]
  <2>3. n \in 0..MaxSeq
    BY <2>2, BufferAssumption, SMT DEF SeqNo
  <2>4. slot \in [ack_no : {FREE} \cup SeqNo, sent : {0, 1}, message : Nat]
    BY <2>2
  <2> DEFINE buff == [w.send_buff EXCEPT ![SendSlot(w, k)] = slot]
  <2>5. buff \in [SendIndex -> [ack_no : {FREE} \cup SeqNo, sent : {0, 1}, message : Nat]]
    BY <2>1, <2>4 DEF SendWindow
  <2>6. Enqueue(w, k, m) = [w EXCEPT !.last_seq_no = n, !.send_buff = buff]
    BY DEF Enqueue, SendWindow
  <2> HIDE DEF n, buff
  <2> QED BY <2>3, <2>5, <2>6 DEF SendWindow
<1>2. ASSUME NEW q \in Passes(w)
      PROVE  MarkSent(w, q) \in SendWindow
  BY DEF MarkSent, SendWindow
<1>3. ASSUME NEW k \in OpenOffsets(w), NEW size \in Nat
      PROVE  [SlidePast(w, k) EXCEPT !.window_size = size] \in SendWindow
  <2>1. SendSlot(w, k + 1) \in SendIndex
    BY SendSlotStep, BufferAssumption, SMT DEF OpenOffsets, SendIndex
  <2> DEFINE buff == [i \in SendIndex |-> IF \E j \in 0..k : i = SendSlot(w, j)
                                          THEN [w.send_buff[i] EXCEPT !.ack_no = FREE] ELSE w.send_buff[i]]
  <2>2. buff \in [SendIndex -> [ack_no : {FREE} \cup SeqNo, sent : {0, 1}, message : Nat]]
    BY DEF SendWindow
  <2>3. [SlidePast(w, k) EXCEPT !.window_size = size] =
          [w EXCEPT !.send_buff = buff, !.window_start_index = SendSlot(w, k + 1), !.window_size = size]
    BY DEF SlidePast, SendWindow
  <2> HIDE DEF buff
  <2> QED BY <2>1, <2>2, <2>3 DEF SendWindow
<1>4. ASSUME NEW size \in Nat
      PROVE  [w EXCEPT !.window_size = size] \in SendWindow
  BY DEF SendWindow
<1> QED BY <1>1, <1>2, <1>3, <1>4

\* The updates of a receive window keep its type.
LEMMA RecvWindowType ==
  ASSUME NEW w \in RecvWindow
  PROVE  /\ Dequeue(w) \in RecvWindow
         /\ \A m \in Nat, n \in InOrderRuns(w) : StoreInOrder(w, m, n) \in RecvWindow
         /\ \A d \in Datagram : \A k \in ExpectedAt(w, d) : StoreEarly(w, d, k) \in RecvWindow
         /\ [w EXCEPT !.nospace = 0] \in RecvWindow
<1>1. Dequeue(w) \in RecvWindow
  <2>1. ReadSlot(w, 1) \in RecvIndex
    BY RecvSlotStep, BufferAssumption, SMT
  <2>2. w.window_size + 1 \in Nat
    BY SMT DEF RecvWindow
  <2>3. [ack_no |-> FREE, message |-> 0] \in [ack_no : {FREE} \cup SeqNo, message : Nat]
    OBVIOUS
  <2> QED BY <2>1, <2>2, <2>3 DEF Dequeue, RecvWindow
<1>2. ASSUME NEW m \in Nat, NEW n \in InOrderRuns(w)
      PROVE  StoreInOrder(w, m, n) \in RecvWindow
  <2>1. /\ n \in 0..RECEIVER_MSG_BUFFER /\ n \in 0..MaxSeq
        /\ n <= w.window_size
    BY BufferAssumption, SMT DEF InOrderRuns
  <2>2. WriteSlot(w, n) \in RecvIndex
    BY <2>1, RecvSlotStep
  <2>3. SeqAdd(w.next_seq_no, n) \in SeqNo
    BY <2>1, SeqAddStep DEF RecvWindow
  <2>4. w.window_size - n \in Nat
    BY <2>1, BufferAssumption, SMT DEF RecvWindow
  <2> QED BY <2>2, <2>3, <2>4 DEF StoreInOrder, RecvWindow
<1>3. ASSUME NEW d \in Datagram, NEW k \in ExpectedAt(w, d)
      PROVE  StoreEarly(w, d, k) \in RecvWindow
  <2>1. /\ k \in 0..RECEIVER_MSG_BUFFER /\ k \in 0..MaxSeq
        /\ d.seq_no = SeqAdd(w.next_seq_no, k)
    BY BufferAssumption, SMT DEF ExpectedAt
  <2>2. d.seq_no \in SeqNo /\ d.body \in Nat
    BY <2>1, SeqAddStep DEF RecvWindow, Datagram
  <2>3. WriteSlot(w, k) \in RecvIndex
    BY <2>1, RecvSlotStep
  <2> QED BY <2>2, <2>3 DEF StoreEarly, RecvWindow
<1>4. [w EXCEPT !.nospace = 0] \in RecvWindow
  BY DEF RecvWindow
<1> QED BY <1>1, <1>2, <1>3, <1>4

\* So does the update of a persistence timer.
LEMMA TimerType ==
  ASSUME NEW t \in [flag : 0..4, ack_seq_no : 0..MaxSeq], NEW n \in 0..MaxSeq, NEW size \in Nat
  PROVE  TimerAfter(t, n, size) \in [flag : 0..4, ack_seq_no : 0..MaxSeq]
<1>1. 0 \in 0..4 /\ 1 \in 0..4
  BY SMT
<1>2. CASE size > 0
  BY <1>1, <1>2, Zenon DEF TimerAfter
<1>3. CASE ~(size > 0)
  BY <1>1, <1>3, Zenon DEF TimerAfter
<1> QED BY <1>2, <1>3

LEMMA TypeInit == Init => TypeOK
<1> SUFFICES ASSUME Init PROVE TypeOK
  OBVIOUS
<1>1. send_window \in [Socks -> SendWindow]
  BY BufferAssumption, SMT DEF Init, NewSendWindow, NewRecvWindow, SendWindow, SendIndex
<1>2. recv_window \in [Socks -> RecvWindow]
  BY BufferAssumption, SMT DEF Init, NewSendWindow, NewRecvWindow, RecvWindow, RecvIndex, SeqNo
<1>3. persistence_timer \in [Socks -> [flag : 0..4, ack_seq_no : 0..MaxSeq]]
  BY BufferAssumption, SMT DEF Init, NewSendWindow, NewRecvWindow
<1>4. udp \in [Socks -> Seq(Datagram)] /\ delivered \in [Socks -> Seq(Nat)]
  BY EmptySeq DEF Init, NewSendWindow, NewRecvWindow
<1>5. accepted \in [Socks -> Nat]
  BY DEF Init, NewSendWindow, NewRecvWindow
<1> QED BY <1>1, <1>2, <1>3, <1>4, <1>5 DEF TypeOK

LEMMA TypeNext == TypeOK /\ [Next]_vars => TypeOK'
<1> SUFFICES ASSUME TypeOK, [Next]_vars PROVE TypeOK'
  OBVIOUS
<1> USE DEF TypeOK
<1>1. CASE UNCHANGED vars
  BY <1>1 DEF vars
<1>2. ASSUME NEW s \in Socks, m_sendto(s) PROVE TypeOK'
  <2>1. PICK k \in SendIndex : send_window' = [send_window EXCEPT ![s] = Enqueue(@, k, accepted[s] + 1)]
    BY <1>2 DEF m_sendto
  <2>2. accepted[s] + 1 \in Nat
    BY SMT
  <2>3. Enqueue(send_window[s], k, accepted[s] + 1) \in SendWindow
    BY <2>2, SendWindowType
  <2> QED BY <1>2, <2>1, <2>2, <2>3 DEF m_sendto
<1>3. ASSUME NEW s \in Socks, m_recvfrom(s) PROVE TypeOK'
  <2>1. recv_window[s].recv_buff[recv_window[s].index_to_read].message \in Nat
    BY DEF RecvWindow
  <2>2. delivered' \in [Socks -> Seq(Nat)]
    BY <1>3, <2>1, AppendProperties DEF m_recvfrom
  <2>3. Dequeue(recv_window[s]) \in RecvWindow
    BY RecvWindowType
  <2> QED BY <1>3, <2>2, <2>3 DEF m_recvfrom
<1>4. ASSUME NEW s \in Socks, SendProbe(s) PROVE TypeOK'
  <2>1. Probe(persistence_timer[s].ack_seq_no) \in Datagram
    BY DEF Probe, Datagram
  <2>2. udp' \in [Socks -> Seq(Datagram)]
    BY <1>4, <2>1, OneDatagram, ArriveType, PeerAssumption DEF SendProbe
  <2>3. Backoff(persistence_timer[s].flag) \in 0..4
    BY SMT DEF Backoff
  <2> QED BY <1>4, <2>2, <2>3 DEF SendProbe
<1>5. ASSUME NEW s \in Socks, NEW q \in Passes(send_window[s]), SendPass(s, q) PROVE TypeOK'
  <2> DEFINE w == send_window[s]
             ds == [j \in DOMAIN q |-> Data(w.send_buff[SendSlot(w, q[j])])]
  <2>1. w \in SendWindow
    OBVIOUS
  <2>2. PICK n \in Nat : q \in [1..n -> OpenOffsets(w)]
    BY <2>1, PassType
  <2>3. \A j \in 1..n : ds[j] \in Datagram
    BY <2>1, <2>2, DataType
  <2>4. ds \in Seq(Datagram)
    BY <2>2, <2>3, IsASeq
  <2>5. udp' \in [Socks -> Seq(Datagram)]
    BY <1>5, <2>4, ArriveType, PeerAssumption DEF SendPass
  <2>6. send_window' \in [Socks -> SendWindow]
    BY <1>5, SendWindowType DEF SendPass
  <2> QED BY <1>5, <2>5, <2>6 DEF SendPass
<1>6. ASSUME NEW s \in Socks, NEW i \in Arrived(s), ReceiveInOrder(s, i) PROVE TypeOK'
  <2> DEFINE w == recv_window[s]
             d == udp[s][i]
  <2>1. w \in RecvWindow /\ d \in Datagram
    BY HeadType
  <2>2. PICK n \in InOrderRuns(w) : /\ recv_window' = [recv_window EXCEPT ![s] = StoreInOrder(w, d.body, n)]
                                    /\ Answer(s, i, AckRun(w, n))
    BY <1>6 DEF ReceiveInOrder
  <2>3. d.body \in Nat
    BY <2>1 DEF Datagram
  <2>4. StoreInOrder(w, d.body, n) \in RecvWindow
    BY <2>1, <2>3, RecvWindowType
  <2>5. n - 1 \in 0..MaxSeq /\ w.window_size - n \in Nat /\ w.next_seq_no \in SeqNo
    BY <2>1, BufferAssumption, SMT DEF InOrderRuns, RecvWindow
  <2>6. SeqAdd(w.next_seq_no, n - 1) \in SeqNo
    BY <2>5, SeqAddStep
  <2>7. AckRun(w, n) \in Datagram
    BY <2>5, <2>6, BufferAssumption, SMT DEF AckRun, Ack, Datagram, SeqNo
  <2>8. udp' \in [Socks -> Seq(Datagram)]
    BY <2>2, <2>7, AnswerType
  <2> QED BY <1>6, <2>2, <2>4, <2>8 DEF ReceiveInOrder
<1>7. ASSUME NEW s \in Socks, NEW i \in Arrived(s), ReceiveEarly(s, i) PROVE TypeOK'
  <2>1. recv_window[s] \in RecvWindow /\ udp[s][i] \in Datagram
    BY HeadType
  <2>2. recv_window' \in [Socks -> RecvWindow]
    <3>1. PICK k \in ExpectedAt(recv_window[s], udp[s][i]) :
            recv_window' = [recv_window EXCEPT ![s] = StoreEarly(recv_window[s], udp[s][i], k)]
      BY <1>7 DEF ReceiveEarly
    <3>2. StoreEarly(recv_window[s], udp[s][i], k) \in RecvWindow
      BY <2>1, RecvWindowType
    <3> QED BY <3>1, <3>2
  <2>3. udp' \in [Socks -> Seq(Datagram)]
    BY <1>7, <2>1, AckInOrderType, AnswerType DEF ReceiveEarly
  <2> QED BY <1>7, <2>2, <2>3 DEF ReceiveEarly
<1>8. ASSUME NEW s \in Socks, NEW i \in Arrived(s), ReceiveOutside(s, i) PROVE TypeOK'
  <2>1. udp' \in [Socks -> Seq(Datagram)]
    BY <1>8, AckInOrderType, AnswerType DEF ReceiveOutside
  <2> QED BY <1>8, <2>1 DEF ReceiveOutside
<1>9. ASSUME NEW s \in Socks, NEW i \in Arrived(s), ReceiveAck(s, i) PROVE TypeOK'
  <2> DEFINE d == udp[s][i]
  <2>1. d \in Datagram /\ send_window[s] \in SendWindow
    BY HeadType
  <2>2. d.body \in Nat /\ d.seq_no \in 0..MaxSeq
    BY <2>1 DEF Datagram
  <2>3. send_window' \in [Socks -> SendWindow]
    <3>1. CASE AckedAt(send_window[s], d.seq_no) = {}
      <4>1. send_window' = [send_window EXCEPT ![s] = [@ EXCEPT !.window_size = d.body]]
        BY <1>9, <3>1 DEF ReceiveAck
      <4>2. [send_window[s] EXCEPT !.window_size = d.body] \in SendWindow
        BY <2>1, <2>2, SendWindowType
      <4> QED BY <4>1, <4>2
    <3>2. CASE AckedAt(send_window[s], d.seq_no) # {}
      <4>1. PICK k \in AckedAt(send_window[s], d.seq_no) :
              send_window' = [send_window EXCEPT ![s] =
                                [SlidePast(send_window[s], k) EXCEPT !.window_size = d.body]]
        BY <1>9, <3>2 DEF ReceiveAck
      <4>2. k \in OpenOffsets(send_window[s])
        BY DEF AckedAt
      <4>3. [SlidePast(send_window[s], k) EXCEPT !.window_size = d.body] \in SendWindow
        BY <2>1, <2>2, <4>2, SendWindowType
      <4> QED BY <4>1, <4>3
    <3> QED BY <3>1, <3>2
  <2>4. TimerAfter(persistence_timer[s], d.seq_no, d.body) \in [flag : 0..4, ack_seq_no : 0..MaxSeq]
    BY <2>2, TimerType
  <2>5. persistence_timer' \in [Socks -> [flag : 0..4, ack_seq_no : 0..MaxSeq]]
    BY <1>9, <2>4 DEF ReceiveAck
  <2>6. udp' \in [Socks -> Seq(Datagram)]
    BY <1>9, ConsumeType DEF ReceiveAck
  <2> QED BY <1>9, <2>3, <2>5, <2>6 DEF ReceiveAck
<1>10. ASSUME NEW s \in Socks, NEW i \in Arrived(s), ReceiveProbe(s, i) PROVE TypeOK'
  <2>1. udp[s][i] \in Datagram /\ recv_window[s] \in RecvWindow
    BY HeadType
  <2>2. Ack(udp[s][i].seq_no, recv_window[s].window_size) \in Datagram
    BY <2>1 DEF Ack, Datagram, RecvWindow
  <2>3. udp' \in [Socks -> Seq(Datagram)]
    BY <1>10, <2>2, AnswerType DEF ReceiveProbe
  <2> QED BY <1>10, <2>3 DEF ReceiveProbe
<1>11. ASSUME NEW s \in Socks, NEW i \in Arrived(s), DropMessage(s, i) PROVE TypeOK'
  BY <1>11, ConsumeType DEF DropMessage
<1>12. ASSUME NEW s \in Socks, WindowUpdate(s) PROVE TypeOK'
  <2>1. AckInOrder(recv_window[s]) \in Datagram
    BY AckInOrderType
  <2>2. udp' \in [Socks -> Seq(Datagram)]
    BY <1>12, <2>1, OneDatagram, ArriveType, PeerAssumption DEF WindowUpdate
  <2>3. recv_window' \in [Socks -> RecvWindow]
    BY <1>12, RecvWindowType DEF WindowUpdate
  <2> QED BY <1>12, <2>2, <2>3 DEF WindowUpdate
<1> QED BY <1>1, <1>2, <1>3, <1>4, <1>5, <1>6, <1>7, <1>8, <1>9, <1>10, <1>11, <1>12
        DEF Next, thread_S, thread_R, HandleDatagram

\* Slot indexes and sequence numbers stay in range and no window size, at
\* either end or in an ACK, is ever negative: the index arithmetic of
\* m_sendto, m_recvfrom and threads S and R cannot leave the buffers.
THEOREM TypeCorrect == Spec => []TypeOK
BY TypeInit, TypeNext, PTL DEF Spec

-----------------------------------------------------------------------------
(* The receive buffer.  ReceiveRing is inductive by itself, given TypeOK.  *)

\* Two steps along the sequence numbers are one.
LEMMA SeqAddTwice ==
  ASSUME NEW n \in SeqNo, NEW i \in 0..MaxSeq, NEW j \in 0..MaxSeq, i + j <= MaxSeq
  PROVE  SeqAdd(SeqAdd(n, i), j) = SeqAdd(n, i + j)
<1>1. i + j \in 0..MaxSeq
  BY BufferAssumption, SMT
<1>2. SeqAdd(n, i) \in SeqNo
  BY SeqAddStep
<1>3. /\ SeqAdd(n, i) = IF n + i <= MaxSeq THEN n + i ELSE n + i - MaxSeq
      /\ SeqAdd(n, i + j) = IF n + (i + j) <= MaxSeq THEN n + (i + j) ELSE n + (i + j) - MaxSeq
  BY <1>1, SeqAddStep
<1>4. SeqAdd(SeqAdd(n, i), j) =
        IF SeqAdd(n, i) + j <= MaxSeq THEN SeqAdd(n, i) + j ELSE SeqAdd(n, i) + j - MaxSeq
  BY <1>2, SeqAddStep
<1> QED BY <1>3, <1>4, BufferAssumption, SMT DEF SeqNo

\* What RecvWindow says of the fields used below.
LEMMA RecvFields ==
  ASSUME NEW w \in RecvWindow
  PROVE  /\ w.index_to_read \in RecvIndex /\ w.index_to_write \in RecvIndex
         /\ w.window_size \in Nat /\ w.next_seq_no \in SeqNo
         /\ w.recv_buff \in [RecvIndex -> [ack_no : {FREE} \cup SeqNo, message : Nat]]
         /\ RECEIVER_MSG_BUFFER \in Nat \ {0} /\ RECEIVER_MSG_BUFFER <= MaxSeq /\ MaxSeq \in Nat
BY BufferAssumption, SMT DEF RecvWindow

\* What m_recvfrom makes of the receive window w: the messages it does not
\* return stay where they are in order.
AfterDequeue(u, w) ==
  /\ w.window_size < RECEIVER_MSG_BUFFER
  /\ u.next_seq_no = w.next_seq_no /\ u.window_size = w.window_size + 1
  /\ u.index_to_write = ReadSlot(u, RECEIVER_MSG_BUFFER - u.window_size)
  /\ u.recv_buff[u.index_to_write].ack_no = FREE
  /\ \A k \in RecvIndex : k < RECEIVER_MSG_BUFFER - u.window_size =>
       /\ k + 1 \in RecvIndex /\ k + 1 < RECEIVER_MSG_BUFFER - w.window_size
       /\ u.recv_buff[ReadSlot(u, k)] = w.recv_buff[ReadSlot(w, k + 1)]
  /\ \A k \in RecvIndex : k < u.window_size /\ u.recv_buff[WriteSlot(u, k)].ack_no # FREE =>
       k < w.window_size /\ u.recv_buff[WriteSlot(u, k)] = w.recv_buff[WriteSlot(w, k)]

LEMMA DequeueSlots ==
  ASSUME NEW w \in RecvWindow, ReceiveRing(w), w.recv_buff[w.index_to_read].ack_no # FREE
  PROVE  AfterDequeue(Dequeue(w), w)
<1> DEFINE B == RECEIVER_MSG_BUFFER
           r == w.index_to_read
           u == Dequeue(w)
<1>0. /\ B \in Nat \ {0} /\ r \in 0..(B - 1) /\ w.index_to_write \in 0..(B - 1)
      /\ w.window_size \in 0..B
      /\ w.index_to_write = ReadSlot(w, B - w.window_size)
      /\ w.window_size > 0 => w.recv_buff[w.index_to_write].ack_no = FREE
  BY RecvFields, SMT DEF ReceiveRing, RecvIndex
<1>1. u \in RecvWindow
  BY RecvWindowType
<1>2. /\ u.index_to_read = ReadSlot(w, 1)
      /\ u.index_to_write = w.index_to_write
      /\ u.next_seq_no = w.next_seq_no
      /\ u.window_size = w.window_size + 1
      /\ u.recv_buff[r].ack_no = FREE
      /\ \A i \in RecvIndex : i # r => u.recv_buff[i] = w.recv_buff[i]
  BY RecvFields DEF Dequeue, RecvWindow
<1>3. w.window_size < B
  <2>1. SUFFICES ASSUME w.window_size = B PROVE FALSE
    BY <1>0, SMT
  <2>2. w.index_to_write = ReadSlot(w, 0)
    BY <1>0, <2>1, SMT
  <2>3. ReadSlot(w, 0) = r
    BY <1>0, RecvSlotStep, SMT
  <2> QED BY <1>0, <2>1, <2>2, <2>3, SMT
<1>4. u.index_to_write = ReadSlot(u, B - u.window_size)
  <2>1. w.index_to_write = ReadSlot(w, B - w.window_size)
    BY DEF ReceiveRing
  <2>2. /\ ReadSlot(w, B - w.window_size) = IF r + (B - w.window_size) < B THEN r + (B - w.window_size)
                                                                      ELSE r + (B - w.window_size) - B
        /\ ReadSlot(w, 1) = IF r + 1 < B THEN r + 1 ELSE r + 1 - B
    BY <1>3, RecvSlotStep, RecvFields, SMT
  <2>3. B - u.window_size \in 0..B
    BY <1>2, <1>3, RecvFields, SMT
  <2>4. ReadSlot(u, B - u.window_size) =
          IF u.index_to_read + (B - u.window_size) < B THEN u.index_to_read + (B - u.window_size)
                                                       ELSE u.index_to_read + (B - u.window_size) - B
    BY <1>1, <2>3, RecvSlotStep
  <2> QED BY <1>0, <1>2, <1>3, <2>1, <2>2, <2>4, SMT
<1>5. ASSUME NEW k \in RecvIndex, k < B - u.window_size
      PROVE  /\ k + 1 \in RecvIndex /\ k + 1 < B - w.window_size
             /\ u.recv_buff[ReadSlot(u, k)] = w.recv_buff[ReadSlot(w, k + 1)]
  <2>1. /\ k + 1 \in RecvIndex /\ k + 1 < B - w.window_size
        /\ k \in 0..B /\ k + 1 \in 0..B /\ 1 \in 0..B
    BY <1>2, <1>5, RecvFields, SMT DEF RecvIndex
  <2>2. ReadSlot(u, k) = IF u.index_to_read + k < B THEN u.index_to_read + k ELSE u.index_to_read + k - B
    BY <1>1, RecvSlotStep, RecvFields, SMT DEF RecvIndex
  <2>3. /\ ReadSlot(w, k + 1) = IF r + (k + 1) < B THEN r + (k + 1) ELSE r + (k + 1) - B
        /\ ReadSlot(w, 1) = IF r + 1 < B THEN r + 1 ELSE r + 1 - B
        /\ ReadSlot(w, k + 1) \in RecvIndex
    BY <2>1, RecvSlotStep
  <2>4. ReadSlot(u, k) = ReadSlot(w, k + 1) /\ ReadSlot(w, k + 1) # r
    BY <1>0, <1>2, <2>1, <2>2, <2>3, SMT
  <2> QED BY <1>2, <2>1, <2>3, <2>4
<1>6. ASSUME NEW k \in RecvIndex, k < u.window_size, u.recv_buff[WriteSlot(u, k)].ack_no # FREE
      PROVE  k < w.window_size /\ u.recv_buff[WriteSlot(u, k)] = w.recv_buff[WriteSlot(w, k)]
  <2>1. WriteSlot(u, k) = WriteSlot(w, k) /\ WriteSlot(w, k) \in RecvIndex
    BY <1>2, RecvSlotStep, RecvFields, SMT DEF WriteSlot, RecvIndex
  <2>2. WriteSlot(w, k) # r
    BY <1>2, <1>6, <2>1
  <2>3. SUFFICES ASSUME k = w.window_size PROVE FALSE
    BY <1>2, <1>6, <2>1, <2>2, RecvFields, SMT DEF RecvIndex
  <2>4. WriteSlot(w, k) = IF w.index_to_write + k < B THEN w.index_to_write + k ELSE w.index_to_write + k - B
    BY RecvSlotStep, RecvFields, SMT DEF RecvIndex
  <2>5. w.index_to_write = IF r + (B - k) < B THEN r + (B - k) ELSE r + (B - k) - B
    BY <1>3, <2>3, RecvSlotStep, RecvFields, SMT DEF ReceiveRing
  <2>6. WriteSlot(w, k) = r
    BY <2>4, <2>5, RecvFields, SMT DEF RecvIndex
  <2> QED BY <2>2, <2>6
<1>7. u.recv_buff[u.index_to_write].ack_no = FREE
  <2>1. CASE w.window_size > 0
    BY <1>2, <2>1, RecvFields DEF ReceiveRing
  <2>2. CASE w.window_size = 0
    <3>1. w.index_to_write = ReadSlot(w, B)
      BY <2>2, RecvFields, SMT DEF ReceiveRing
    <3>2. ReadSlot(w, B) = r
      BY RecvSlotStep, RecvFields, SMT DEF RecvIndex
    <3> QED BY <1>2, <3>1, <3>2
  <2> QED BY <2>1, <2>2, RecvFields, SMT
<1> QED BY <1>2, <1>3, <1>4, <1>5, <1>6, <1>7 DEF AfterDequeue

\* m_recvfrom gives the slot of the message it returns back to the ring.
LEMMA DequeueRing ==
  ASSUME NEW w \in RecvWindow, ReceiveRing(w), w.recv_buff[w.index_to_read].ack_no # FREE
  PROVE  ReceiveRing(Dequeue(w))
<1> DEFINE u == Dequeue(w)
<1>1. AfterDequeue(u, w)
  BY DequeueSlots
<1> HIDE DEF u
<1>2. u.window_size <= RECEIVER_MSG_BUFFER
  BY <1>1, RecvFields, SMT DEF AfterDequeue
<1>3. ASSUME NEW k \in RecvIndex, k < RECEIVER_MSG_BUFFER - u.window_size
      PROVE  u.recv_buff[ReadSlot(u, k)].ack_no # FREE
  BY <1>1, <1>3 DEF ReceiveRing, AfterDequeue
<1>4. ASSUME NEW k \in RecvIndex, k < u.window_size
      PROVE  u.recv_buff[WriteSlot(u, k)].ack_no \in {FREE, SeqAdd(u.next_seq_no, k)}
  BY <1>1, <1>4 DEF ReceiveRing, AfterDequeue
<1>5. ReceiveRing(u)
  BY <1>1, <1>2, <1>3, <1>4 DEF ReceiveRing, AfterDequeue
<1> QED BY <1>5 DEF u

\* What thread R makes of the receive window w when message m comes in order
\* and n become readable: m follows what could be read, the n - 1 messages
\* that follow it without a gap came early, and the rest keep their places.
AfterStore(u, w, m, n) ==
  LET unread == RECEIVER_MSG_BUFFER - w.window_size
  IN  /\ n \in 1..RECEIVER_MSG_BUFFER /\ n <= w.window_size /\ w.window_size <= RECEIVER_MSG_BUFFER
      /\ u.next_seq_no = SeqAdd(w.next_seq_no, n) /\ u.window_size = w.window_size - n
      /\ u.index_to_write = ReadSlot(u, RECEIVER_MSG_BUFFER - u.window_size)
      /\ u.window_size > 0 => u.recv_buff[u.index_to_write].ack_no = FREE
      /\ \A k \in RecvIndex :
           /\ k < unread => u.recv_buff[ReadSlot(u, k)] = w.recv_buff[ReadSlot(w, k)]
           /\ k = unread => u.recv_buff[ReadSlot(u, k)] = [ack_no |-> w.next_seq_no, message |-> m]
      /\ \A j \in 1..(n - 1) :
           /\ j \in RecvIndex /\ j < w.window_size /\ unread + j \in RecvIndex
           /\ w.recv_buff[WriteSlot(w, j)].ack_no # FREE
           /\ u.recv_buff[ReadSlot(u, unread + j)] = w.recv_buff[WriteSlot(w, j)]
      /\ \A k \in RecvIndex : k < u.window_size =>
           /\ n + k \in RecvIndex /\ n + k < w.window_size
           /\ u.recv_buff[WriteSlot(u, k)] = w.recv_buff[WriteSlot(w, n + k)]
           /\ SeqAdd(u.next_seq_no, k) = SeqAdd(w.next_seq_no, n + k)

LEMMA StoreSlots ==
  ASSUME NEW w \in RecvWindow, ReceiveRing(w), NEW m \in Nat, NEW n \in InOrderRuns(w)
  PROVE  AfterStore(StoreInOrder(w, m, n), w, m, n)
<1> DEFINE B == RECEIVER_MSG_BUFFER
           x == w.index_to_write
           u == StoreInOrder(w, m, n)
<1>1. /\ B \in Nat \ {0} /\ B <= MaxSeq /\ MaxSeq \in Nat
      /\ x \in 0..(B - 1) /\ w.index_to_read \in 0..(B - 1)
      /\ w.window_size \in 0..B /\ n \in 1..B /\ n <= w.window_size
      /\ w.next_seq_no \in SeqNo
      /\ x = ReadSlot(w, B - w.window_size)
  BY RecvFields, SMT DEF ReceiveRing, RecvIndex, InOrderRuns
<1>2. u \in RecvWindow
  BY RecvWindowType
<1>3. /\ u.index_to_read = w.index_to_read
      /\ u.index_to_write = WriteSlot(w, n)
      /\ u.next_seq_no = SeqAdd(w.next_seq_no, n)
      /\ u.window_size = w.window_size - n
      /\ u.recv_buff[x] = [ack_no |-> w.next_seq_no, message |-> m]
      /\ \A i \in RecvIndex : i # x => u.recv_buff[i] = w.recv_buff[i]
  BY RecvFields DEF StoreInOrder, RecvWindow
\* No other slot of the window is the one just written.
<1>4. ASSUME NEW k \in 0..(B - 1)
      PROVE  /\ WriteSlot(w, k) \in RecvIndex
             /\ k # 0 => WriteSlot(w, k) # x
             /\ k = 0 => WriteSlot(w, k) = x
  <2>1. k \in 0..B
    BY <1>1, SMT
  <2>2. /\ WriteSlot(w, k) = IF x + k < B THEN x + k ELSE x + k - B
        /\ WriteSlot(w, k) \in RecvIndex
    BY <2>1, RecvSlotStep
  <2> QED BY <1>1, <2>2, SMT
<1>5. /\ WriteSlot(w, n) = IF x + n < B THEN x + n ELSE x + n - B
      /\ x = IF w.index_to_read + (B - w.window_size) < B
             THEN w.index_to_read + (B - w.window_size)
             ELSE w.index_to_read + (B - w.window_size) - B
  <2>1. n \in 0..B /\ B - w.window_size \in 0..B
    BY <1>1, SMT
  <2> QED BY <1>1, <2>1, RecvSlotStep
<1>6. u.index_to_write = ReadSlot(u, B - u.window_size)
  <2>1. B - u.window_size \in 0..B
    BY <1>1, <1>3, SMT
  <2>2. ReadSlot(u, B - u.window_size) =
          IF u.index_to_read + (B - u.window_size) < B THEN u.index_to_read + (B - u.window_size)
                                                       ELSE u.index_to_read + (B - u.window_size) - B
    BY <1>2, <2>1, RecvSlotStep
  <2> QED BY <1>1, <1>3, <1>5, <2>2, SMT
<1>7. ASSUME NEW k \in RecvIndex
      PROVE  /\ ReadSlot(u, k) = ReadSlot(w, k) /\ ReadSlot(w, k) \in RecvIndex
             /\ ReadSlot(w, k) = IF w.index_to_read + k < B THEN w.index_to_read + k ELSE w.index_to_read + k - B
             /\ k = B - w.window_size <=> ReadSlot(w, k) = x
  <2>1. k \in 0..(B - 1) /\ k \in 0..B
    BY <1>1, SMT DEF RecvIndex
  <2>2. /\ ReadSlot(u, k) = ReadSlot(w, k)
        /\ ReadSlot(w, k) = IF w.index_to_read + k < B THEN w.index_to_read + k ELSE w.index_to_read + k - B
        /\ ReadSlot(w, k) \in RecvIndex
    BY <1>3, <2>1, RecvSlotStep DEF ReadSlot
  <2> QED BY <1>1, <1>5, <2>1, <2>2, SMT
\* What lies past the run keeps its place relative to the new start.
<1>8. ASSUME NEW k \in RecvIndex, k < u.window_size
      PROVE  /\ n + k \in RecvIndex /\ n + k < w.window_size /\ n + k # 0
             /\ WriteSlot(u, k) = WriteSlot(w, n + k)
             /\ u.recv_buff[WriteSlot(u, k)] = w.recv_buff[WriteSlot(w, n + k)]
             /\ SeqAdd(u.next_seq_no, k) = SeqAdd(w.next_seq_no, n + k)
  <2>1. /\ n + k \in 0..(B - 1) /\ n + k \in RecvIndex /\ n + k \in 0..B
        /\ n + k < w.window_size /\ n + k # 0
        /\ k \in 0..B /\ k \in 0..MaxSeq /\ n \in 0..MaxSeq /\ n + k <= MaxSeq
    BY <1>1, <1>3, <1>8, SMT DEF RecvIndex
  <2>2. /\ WriteSlot(u, k) = IF u.index_to_write + k < B THEN u.index_to_write + k ELSE u.index_to_write + k - B
        /\ WriteSlot(w, n + k) = IF x + (n + k) < B THEN x + (n + k) ELSE x + (n + k) - B
    BY <1>2, <2>1, RecvSlotStep
  <2>3. WriteSlot(u, k) = WriteSlot(w, n + k)
    BY <1>1, <1>3, <1>5, <2>1, <2>2, SMT
  <2>4. WriteSlot(w, n + k) \in RecvIndex /\ WriteSlot(w, n + k) # x
    BY <1>4, <2>1
  <2>5. SeqAdd(u.next_seq_no, k) = SeqAdd(w.next_seq_no, n + k)
    BY <1>1, <1>3, <2>1, SeqAddTwice
  <2> QED BY <1>3, <2>1, <2>3, <2>4, <2>5
<1>9. ASSUME NEW j \in 1..(n - 1)
      PROVE  /\ j \in RecvIndex /\ j < w.window_size /\ B - w.window_size + j \in RecvIndex
             /\ w.recv_buff[WriteSlot(w, j)].ack_no # FREE
             /\ u.recv_buff[ReadSlot(u, B - w.window_size + j)] = w.recv_buff[WriteSlot(w, j)]
  <2> DEFINE k == B - w.window_size + j
  <2>1. /\ k \in 0..(B - 1) /\ k \in RecvIndex /\ j \in RecvIndex /\ j < w.window_size
        /\ j \in 0..(B - 1) /\ j \in 0..B /\ j \in 0..MaxSeq /\ j # 0
    BY <1>1, SMT DEF RecvIndex
  <2>2. WriteSlot(w, j) = IF x + j < B THEN x + j ELSE x + j - B
    BY <2>1, RecvSlotStep
  <2>3. ReadSlot(w, k) = WriteSlot(w, j)
    BY <1>1, <1>5, <1>7, <2>1, <2>2, SMT
  <2>4. Buffered(w, j)
    BY DEF InOrderRuns
  <2>5. SeqAdd(w.next_seq_no, j) \in SeqNo
    BY <1>1, <2>1, SeqAddStep
  <2>6. w.recv_buff[WriteSlot(w, j)].ack_no # FREE
    BY <1>1, <2>4, <2>5, SMT DEF Buffered, SeqNo, FREE
  <2>7. WriteSlot(w, j) \in RecvIndex /\ WriteSlot(w, j) # x
    BY <1>4, <2>1
  <2> QED BY <1>3, <1>7, <2>1, <2>3, <2>6, <2>7
<1>10. ASSUME u.window_size > 0
       PROVE  u.recv_buff[u.index_to_write].ack_no = FREE
  <2>1. n # B /\ n # w.window_size /\ 0 \in RecvIndex /\ 0 < u.window_size /\ n + 0 = n
    BY <1>1, <1>3, <1>10, SMT DEF RecvIndex
  <2>2. ~Buffered(w, n)
    BY <2>1 DEF InOrderRuns
  <2>3. /\ n \in RecvIndex /\ n < w.window_size
        /\ u.recv_buff[WriteSlot(u, 0)] = w.recv_buff[WriteSlot(w, n)]
    BY <1>8, <2>1
  <2>4. w.recv_buff[WriteSlot(w, n)].ack_no = FREE
    BY <2>2, <2>3 DEF ReceiveRing, Buffered
  <2>5. WriteSlot(u, 0) = u.index_to_write
    <3>1. u.index_to_write \in 0..(B - 1) /\ 0 \in 0..B
      BY <1>1, <1>2, RecvFields, SMT DEF RecvIndex
    <3>2. WriteSlot(u, 0) = IF u.index_to_write + 0 < B THEN u.index_to_write + 0 ELSE u.index_to_write + 0 - B
      BY <1>2, <3>1, RecvSlotStep
    <3> QED BY <1>1, <3>1, <3>2, SMT
  <2> QED BY <2>3, <2>4, <2>5
<1>11. \A k \in RecvIndex :
         /\ k < B - w.window_size => u.recv_buff[ReadSlot(u, k)] = w.recv_buff[ReadSlot(w, k)]
         /\ k = B - w.window_size =>
              u.recv_buff[ReadSlot(u, k)] = [ack_no |-> w.next_seq_no, message |-> m]
  <2>1. \A k \in RecvIndex : k < B - w.window_size => k # B - w.window_size
    BY <1>1, SMT DEF RecvIndex
  <2> QED BY <1>3, <1>7, <2>1
<1>12. n \in 1..B /\ n <= w.window_size /\ w.window_size <= B
  BY <1>1, SMT
<1> QED BY <1>3, <1>6, <1>8, <1>9, <1>10, <1>11, <1>12 DEF AfterStore

\* Thread R stores an in-order message and takes over the n - 1 early ones
\* that follow it without a gap.
LEMMA StoreInOrderRing ==
  ASSUME NEW w \in RecvWindow, ReceiveRing(w), NEW m \in Nat, NEW n \in InOrderRuns(w)
  PROVE  ReceiveRing(StoreInOrder(w, m, n))
<1> DEFINE B == RECEIVER_MSG_BUFFER
           u == StoreInOrder(w, m, n)
<1>1. AfterStore(u, w, m, n)
  BY StoreSlots
<1> HIDE DEF u
<1>2. /\ B \in Nat \ {0} /\ w.window_size \in Nat /\ w.next_seq_no \in SeqNo
      /\ n \in 1..B /\ n <= w.window_size /\ w.window_size <= B /\ u.window_size = w.window_size - n
  BY <1>1, RecvFields DEF AfterStore
<1>3. ASSUME NEW k \in RecvIndex, k < B - u.window_size
      PROVE  u.recv_buff[ReadSlot(u, k)].ack_no # FREE
  <2>1. CASE k < B - w.window_size
    BY <1>1, <2>1 DEF AfterStore, ReceiveRing
  <2>2. CASE k = B - w.window_size
    <3>1. w.next_seq_no # FREE
      BY <1>2, SMT DEF SeqNo, FREE
    <3> QED BY <1>1, <2>2, <3>1 DEF AfterStore
  <2>3. CASE B - w.window_size < k
    <3> DEFINE j == k - (B - w.window_size)
    <3>1. j \in 1..(n - 1) /\ B - w.window_size + j = k
      BY <1>2, <1>3, <2>3, SMT DEF RecvIndex
    <3> QED BY <1>1, <3>1 DEF AfterStore
  <2> QED BY <1>2, <2>1, <2>2, <2>3, SMT DEF RecvIndex
<1>4. ASSUME NEW k \in RecvIndex, k < u.window_size
      PROVE  u.recv_buff[WriteSlot(u, k)].ack_no \in {FREE, SeqAdd(u.next_seq_no, k)}
  BY <1>1, <1>4 DEF AfterStore, ReceiveRing
<1>5. u.window_size <= B
  BY <1>2, SMT
<1>6. ReceiveRing(u)
  BY <1>1, <1>3, <1>4, <1>5 DEF ReceiveRing, AfterStore
<1> QED BY <1>6 DEF u

\* What thread R makes of the receive window w when d comes early: only the
\* slot at offset k, one that cannot be read yet, changes.
AfterEarly(u, w, d, k) ==
  /\ k \in RecvIndex /\ k < w.window_size
  /\ u.index_to_read = w.index_to_read /\ u.index_to_write = w.index_to_write
  /\ u.next_seq_no = w.next_seq_no /\ u.window_size = w.window_size
  /\ u.recv_buff[w.index_to_write] = w.recv_buff[w.index_to_write]
  /\ u.recv_buff[WriteSlot(u, k)] = [ack_no |-> d.seq_no, message |-> d.body]
  /\ \A j \in RecvIndex :
       /\ j # k => u.recv_buff[WriteSlot(u, j)] = w.recv_buff[WriteSlot(w, j)]
       /\ j < RECEIVER_MSG_BUFFER - w.window_size =>
            u.recv_buff[ReadSlot(u, j)] = w.recv_buff[ReadSlot(w, j)]

LEMMA EarlySlots ==
  ASSUME NEW w \in RecvWindow, ReceiveRing(w), NEW d \in Datagram, NEW k \in ExpectedAt(w, d),
         w.recv_buff[WriteSlot(w, k)].ack_no # d.seq_no
  PROVE  AfterEarly(StoreEarly(w, d, k), w, d, k)
<1> DEFINE B == RECEIVER_MSG_BUFFER
           x == w.index_to_write
           u == StoreEarly(w, d, k)
<1>1. /\ B \in Nat \ {0} /\ B <= MaxSeq /\ MaxSeq \in Nat
      /\ x \in 0..(B - 1) /\ w.window_size \in 0..B
      /\ k \in 1..(B - 1) /\ k \in 0..B /\ k \in 0..MaxSeq /\ k < w.window_size
      /\ w.next_seq_no \in SeqNo /\ d.seq_no = SeqAdd(w.next_seq_no, k)
  BY RecvFields, SMT DEF ReceiveRing, RecvIndex, ExpectedAt
<1>2. d.seq_no \in SeqNo /\ d.seq_no # FREE
  <2>1. SeqAdd(w.next_seq_no, k) \in SeqNo
    BY <1>1, SeqAddStep
  <2> QED BY <1>1, <2>1, SMT DEF SeqNo, FREE
<1>3. WriteSlot(w, k) \in RecvIndex
  BY <1>1, RecvSlotStep
<1>4. /\ u.index_to_read = w.index_to_read
      /\ u.index_to_write = x
      /\ u.next_seq_no = w.next_seq_no
      /\ u.window_size = w.window_size
      /\ u.recv_buff[WriteSlot(w, k)] = [ack_no |-> d.seq_no, message |-> d.body]
      /\ \A i \in RecvIndex : i # WriteSlot(w, k) => u.recv_buff[i] = w.recv_buff[i]
  BY <1>3, RecvFields DEF StoreEarly, RecvWindow
<1>5. \A j \in RecvIndex : /\ WriteSlot(u, j) = WriteSlot(w, j) /\ ReadSlot(u, j) = ReadSlot(w, j)
                           /\ WriteSlot(w, j) \in RecvIndex /\ ReadSlot(w, j) \in RecvIndex
  <2>1. \A j \in RecvIndex : j \in 0..B
    BY <1>1, SMT DEF RecvIndex
  <2> QED BY <1>4, <2>1, RecvSlotStep DEF WriteSlot, ReadSlot
\* Two places of the window are two slots.
<1>6. ASSUME NEW j \in RecvIndex, WriteSlot(w, j) = WriteSlot(w, k)
      PROVE  j = k
  <2>1. j \in 0..(B - 1) /\ j \in 0..B
    BY <1>1, SMT DEF RecvIndex
  <2>2. /\ WriteSlot(w, j) = IF x + j < B THEN x + j ELSE x + j - B
        /\ WriteSlot(w, k) = IF x + k < B THEN x + k ELSE x + k - B
    BY <1>1, <2>1, RecvSlotStep
  <2>3. (IF x + j < B THEN x + j ELSE x + j - B) = (IF x + k < B THEN x + k ELSE x + k - B)
    BY <1>6, <2>2
  <2> QED BY <1>1, <2>1, <2>3, SMT
<1>7. WriteSlot(w, k) # x
  <2>1. WriteSlot(w, k) = IF x + k < B THEN x + k ELSE x + k - B
    BY <1>1, RecvSlotStep
  <2> QED BY <1>1, <2>1, SMT
<1>8. ASSUME NEW j \in RecvIndex, j < B - w.window_size
      PROVE  ReadSlot(w, j) # WriteSlot(w, k)
  <2>1. j \in 0..B /\ B - w.window_size \in 0..B /\ w.index_to_read \in 0..(B - 1)
    BY <1>1, RecvFields, SMT DEF RecvIndex
  <2>2. /\ ReadSlot(w, j) = IF w.index_to_read + j < B THEN w.index_to_read + j ELSE w.index_to_read + j - B
        /\ WriteSlot(w, k) = IF x + k < B THEN x + k ELSE x + k - B
        /\ x = IF w.index_to_read + (B - w.window_size) < B
               THEN w.index_to_read + (B - w.window_size)
               ELSE w.index_to_read + (B - w.window_size) - B
    BY <1>1, <2>1, RecvSlotStep DEF ReceiveRing
  <2> QED BY <1>1, <1>8, <2>1, <2>2, SMT
<1>9. k \in RecvIndex /\ x \in RecvIndex
  BY <1>1, SMT DEF RecvIndex
<1> QED BY <1>1, <1>4, <1>5, <1>6, <1>7, <1>8, <1>9 DEF AfterEarly

\* Thread R stores an early message at its place.
LEMMA StoreEarlyRing ==
  ASSUME NEW w \in RecvWindow, ReceiveRing(w), NEW d \in Datagram, NEW k \in ExpectedAt(w, d)
  PROVE  ReceiveRing(StoreEarly(w, d, k))
<1> DEFINE B == RECEIVER_MSG_BUFFER
           u == StoreEarly(w, d, k)
<1>1. CASE w.recv_buff[WriteSlot(w, k)].ack_no = d.seq_no
  BY <1>1 DEF StoreEarly
<1>2. CASE w.recv_buff[WriteSlot(w, k)].ack_no # d.seq_no
  <2>1. AfterEarly(u, w, d, k) /\ d.seq_no = SeqAdd(w.next_seq_no, k)
    BY <1>2, EarlySlots DEF ExpectedAt
  <2> HIDE DEF u
  <2>2. u.window_size <= B /\ u.index_to_write = ReadSlot(u, B - u.window_size)
    BY <2>1 DEF ReceiveRing, ReadSlot, AfterEarly
  <2>3. ASSUME NEW j \in RecvIndex, j < B - u.window_size
        PROVE  u.recv_buff[ReadSlot(u, j)].ack_no # FREE
    BY <2>1, <2>3 DEF ReceiveRing, AfterEarly
  <2>4. ASSUME NEW j \in RecvIndex, j < u.window_size
        PROVE  u.recv_buff[WriteSlot(u, j)].ack_no \in {FREE, SeqAdd(u.next_seq_no, j)}
    BY <2>1, <2>4 DEF ReceiveRing, AfterEarly
  <2>5. u.window_size > 0 => u.recv_buff[u.index_to_write].ack_no = FREE
    BY <2>1 DEF ReceiveRing, AfterEarly
  <2>6. ReceiveRing(u)
    BY <2>2, <2>3, <2>4, <2>5 DEF ReceiveRing
  <2> QED BY <2>6 DEF u
<1> QED BY <1>1, <1>2

LEMMA ReceiveRingInit == Init => ReceiveRingOK
<1> SUFFICES ASSUME Init, NEW s \in Socks PROVE ReceiveRing(recv_window[s])
  BY DEF ReceiveRingOK
<1> DEFINE w == recv_window[s]
<1>1. w \in RecvWindow
  BY TypeInit DEF TypeOK
<1>2. /\ w.window_size = RECEIVER_MSG_BUFFER
      /\ w.index_to_read = 0 /\ w.index_to_write = 0
      /\ \A i \in RecvIndex : w.recv_buff[i].ack_no = FREE
  BY DEF Init, NewSendWindow, NewRecvWindow
<1>3. RECEIVER_MSG_BUFFER \in Nat \ {0}
  BY BufferAssumption, SMT
<1>4. \A k \in RecvIndex : WriteSlot(w, k) \in RecvIndex
  <2>1. \A k \in RecvIndex : k \in 0..RECEIVER_MSG_BUFFER
    BY <1>3, SMT DEF RecvIndex
  <2> QED BY <1>1, <2>1, RecvSlotStep
<1>5. ReadSlot(w, RECEIVER_MSG_BUFFER - w.window_size) = 0
  BY <1>2, <1>3, SMT DEF ReadSlot
<1>6. \A k \in RecvIndex : ~(k < RECEIVER_MSG_BUFFER - w.window_size)
  BY <1>2, <1>3, SMT DEF RecvIndex
<1>7. 0 \in RecvIndex /\ w.window_size <= RECEIVER_MSG_BUFFER
  BY <1>2, <1>3, SMT DEF RecvIndex
<1> QED BY <1>2, <1>4, <1>5, <1>6, <1>7 DEF ReceiveRing

LEMMA ReceiveRingNext == TypeOK /\ ReceiveRingOK /\ [Next]_vars => ReceiveRingOK'
<1> SUFFICES ASSUME TypeOK, ReceiveRingOK, [Next]_vars PROVE ReceiveRingOK'
  OBVIOUS
<1> USE DEF ReceiveRingOK
<1>1. \A s \in Socks : recv_window[s] \in RecvWindow
  BY DEF TypeOK
<1>2. recv_window \in [Socks -> RecvWindow]
  BY DEF TypeOK
\* It suffices that the one receive window that changes keeps its shape.
<1>3. ASSUME NEW s \in Socks, NEW u, recv_window' = [recv_window EXCEPT ![s] = u], ReceiveRing(u)
      PROVE  ReceiveRingOK'
  BY <1>2, <1>3
<1>4. CASE UNCHANGED recv_window
  BY <1>4
<1>5. ASSUME NEW s \in Socks, m_recvfrom(s) PROVE ReceiveRingOK'
  <2>1. ReceiveRing(Dequeue(recv_window[s]))
    BY <1>1, <1>5, DequeueRing DEF m_recvfrom
  <2> QED BY <1>3, <1>5, <2>1 DEF m_recvfrom
<1>6. ASSUME NEW s \in Socks, NEW i \in Arrived(s), ReceiveInOrder(s, i) PROVE ReceiveRingOK'
  <2>1. udp[s][i].body \in Nat
    BY HeadType DEF Datagram
  <2>2. PICK n \in InOrderRuns(recv_window[s]) :
          recv_window' = [recv_window EXCEPT ![s] = StoreInOrder(recv_window[s], udp[s][i].body, n)]
    BY <1>6 DEF ReceiveInOrder
  <2>3. ReceiveRing(StoreInOrder(recv_window[s], udp[s][i].body, n))
    BY <1>1, <2>1, StoreInOrderRing
  <2> QED BY <1>3, <2>2, <2>3
<1>7. ASSUME NEW s \in Socks, NEW i \in Arrived(s), ReceiveEarly(s, i) PROVE ReceiveRingOK'
  <2>1. udp[s][i] \in Datagram
    BY HeadType
  <2>2. PICK k \in ExpectedAt(recv_window[s], udp[s][i]) :
          recv_window' = [recv_window EXCEPT ![s] = StoreEarly(recv_window[s], udp[s][i], k)]
    BY <1>7 DEF ReceiveEarly
  <2>3. ReceiveRing(StoreEarly(recv_window[s], udp[s][i], k))
    BY <1>1, <2>1, StoreEarlyRing
  <2> QED BY <1>3, <2>2, <2>3
<1>8. ASSUME NEW s \in Socks, WindowUpdate(s) PROVE ReceiveRingOK'
  <2> DEFINE w == recv_window[s]
             u == [w EXCEPT !.nospace = 0]
  <2>1. recv_window' = [recv_window EXCEPT ![s] = u]
    BY <1>8 DEF WindowUpdate
  <2>2. /\ u.window_size = w.window_size /\ u.recv_buff = w.recv_buff
        /\ u.index_to_read = w.index_to_read /\ u.index_to_write = w.index_to_write
        /\ u.next_seq_no = w.next_seq_no
    BY <1>1 DEF RecvWindow
  <2>3. ReceiveRing(u)
    BY <2>2 DEF ReceiveRing, ReadSlot, WriteSlot
  <2> QED BY <1>3, <2>1, <2>3
<1> QED BY <1>4, <1>5, <1>6, <1>7, <1>8
        DEF Next, vars, thread_S, thread_R, HandleDatagram, m_sendto, SendProbe, SendPass,
            ReceiveOutside, ReceiveAck, ReceiveProbe, DropMessage

\* The receive ring is never corrupted: unread messages are contiguous,
\* window_size is exactly the room left, and m_recvfrom never meets a message
\* that came early, in whatever order threads R and the program use the ring
\* and whatever the network loses, repeats or reorders.
THEOREM ReceiveRingCorrect == Spec => []ReceiveRingOK
<1>1. Init => TypeOK /\ ReceiveRingOK
  BY TypeInit, ReceiveRingInit
<1>2. TypeOK /\ ReceiveRingOK /\ [Next]_vars => (TypeOK /\ ReceiveRingOK)'
  BY TypeNext, ReceiveRingNext
<1> QED BY <1>1, <1>2, PTL DEF Spec
-----------------------------------------------------------------------------
(* The closed window.                                                      *)

LEMMA ClosedInit == Init => ClosedWindowIsProbed
<1> SUFFICES ASSUME Init, NEW s \in Socks
             PROVE  send_window[s].window_size = 0 <=> persistence_timer[s].flag > 0
  BY DEF ClosedWindowIsProbed
<1>1. send_window[s].window_size = RECEIVER_MSG_BUFFER /\ persistence_timer[s].flag = 0
  BY DEF Init, NewSendWindow, NewRecvWindow
<1> QED BY <1>1, BufferAssumption, SMT

LEMMA ClosedNext == TypeOK /\ ClosedWindowIsProbed /\ [Next]_vars => ClosedWindowIsProbed'
<1> SUFFICES ASSUME TypeOK, ClosedWindowIsProbed, [Next]_vars, NEW z \in Socks
             PROVE  send_window'[z].window_size = 0 <=> persistence_timer'[z].flag > 0
  BY DEF ClosedWindowIsProbed
<1>1. /\ send_window \in [Socks -> SendWindow]
      /\ persistence_timer \in [Socks -> [flag : 0..4, ack_seq_no : 0..MaxSeq]]
      /\ send_window[z].window_size = 0 <=> persistence_timer[z].flag > 0
  BY DEF TypeOK, ClosedWindowIsProbed
<1>2. CASE send_window'[z].window_size = send_window[z].window_size /\ UNCHANGED persistence_timer
  BY <1>1, <1>2
<1>3. ASSUME NEW s \in Socks, m_sendto(s) PROVE send_window'[z].window_size = send_window[z].window_size
  BY <1>1, <1>3 DEF m_sendto, Enqueue, SendWindow
<1>4. ASSUME NEW s \in Socks, NEW q \in Passes(send_window[s]), SendPass(s, q)
      PROVE  send_window'[z].window_size = send_window[z].window_size
  BY <1>1, <1>4 DEF SendPass, MarkSent, SendWindow
<1>5. ASSUME NEW s \in Socks, SendProbe(s)
      PROVE  send_window'[z].window_size = 0 <=> persistence_timer'[z].flag > 0
  <2>1. persistence_timer[s].flag > 0 => Backoff(persistence_timer[s].flag) > 0
    BY <1>1, SMT DEF Backoff
  <2> QED BY <1>1, <1>5, <2>1 DEF SendProbe
<1>6. ASSUME NEW s \in Socks, NEW i \in Arrived(s), ReceiveAck(s, i)
      PROVE  send_window'[z].window_size = 0 <=> persistence_timer'[z].flag > 0
  <2> DEFINE d == udp[s][i]
  <2>1. d.body \in Nat
    BY HeadType DEF Datagram
  <2>2. send_window'[s].window_size = d.body /\ \A o \in Socks \ {s} : send_window'[o] = send_window[o]
    BY <1>1, <1>6 DEF ReceiveAck, SlidePast, SendWindow
  <2>3. /\ persistence_timer'[s] = TimerAfter(persistence_timer[s], d.seq_no, d.body)
        /\ \A o \in Socks \ {s} : persistence_timer'[o] = persistence_timer[o]
    BY <1>1, <1>6 DEF ReceiveAck
  <2>4. d.body = 0 <=> TimerAfter(persistence_timer[s], d.seq_no, d.body).flag > 0
    <3>1. CASE d.body > 0
      BY <1>1, <2>1, <3>1, SMT DEF TimerAfter
    <3>2. CASE d.body = 0
      <4>1. persistence_timer[s].flag \in 0..4
        BY <1>1
      <4> QED BY <3>2, <4>1, SMT DEF TimerAfter
    <3> QED BY <2>1, <3>1, <3>2, SMT
  <2> QED BY <1>1, <2>2, <2>3, <2>4
<1> QED BY <1>2, <1>3, <1>4, <1>5, <1>6
        DEF Next, vars, thread_S, thread_R, HandleDatagram, m_sendto, m_recvfrom, SendPass,
            ReceiveInOrder, ReceiveEarly, ReceiveOutside, ReceiveProbe, DropMessage, WindowUpdate

\* A closed window always has its persistence timer running, and an open one
\* never has, so that the probes that end a closed-window deadlock are sent
\* exactly while there may be one.
THEOREM ClosedWindowCorrect == Spec => []ClosedWindowIsProbed
<1>1. Init => TypeOK /\ ClosedWindowIsProbed
  BY TypeInit, ClosedInit
<1>2. TypeOK /\ ClosedWindowIsProbed /\ [Next]_vars => (TypeOK /\ ClosedWindowIsProbed)'
  BY TypeNext, ClosedNext
<1> QED BY <1>1, <1>2, PTL DEF Spec
-----------------------------------------------------------------------------
(* The send buffer.                                                        *)

\* Every sum of sequence numbers is one, also before the first message.
LEMMA SeqAddType ==
  ASSUME NEW n \in 0..MaxSeq, NEW k \in Nat
  PROVE  SeqAdd(n, k) \in SeqNo
<1>1. MaxSeq \in Nat \ {0} /\ n - 1 + k \in Int
  BY BufferAssumption, SMT
<1>2. (n - 1 + k) % MaxSeq \in 0..(MaxSeq - 1)
  BY <1>1, SMT
<1> QED BY <1>1, <1>2, SMT DEF SeqAdd, SeqNo

\* The number t places after the next one is t + 1 places from this one.
LEMMA SeqAfterAdd ==
  ASSUME NEW n \in 0..MaxSeq, NEW t \in 0..(MaxSeq - 1)
  PROVE  SeqAdd(SeqAdd(n, 1), t) = SeqAdd(n, t + 1)
<1>1. MaxSeq \in Nat \ {0} /\ t \in 0..MaxSeq /\ 1 \in 0..MaxSeq /\ 1 + t <= MaxSeq /\ t + 1 = 1 + t
  BY BufferAssumption, SMT
<1>2. CASE n = 0
  <2>1. 0 - 1 + 1 = 0 /\ 0 - 1 + (t + 1) = t /\ 1 - 1 + t = t /\ 0 % MaxSeq = 0
    BY <1>1, SMT
  <2>2. SeqAdd(n, 1) = 1
    BY <1>2, <2>1, SMT DEF SeqAdd
  <2>3. SeqAdd(1, t) = (t % MaxSeq) + 1 /\ SeqAdd(n, t + 1) = (t % MaxSeq) + 1
    BY <1>2, <2>1 DEF SeqAdd
  <2> QED BY <2>2, <2>3
<1>3. CASE n \in SeqNo
  BY <1>1, <1>3, SeqAddTwice
<1> QED BY <1>1, <1>2, <1>3, SMT DEF SeqNo

\* Facts about a send window, and that its offsets are distinct slots.
LEMMA SendFields ==
  ASSUME NEW w \in SendWindow
  PROVE  /\ SENDER_MSG_BUFFER \in Nat \ {0} /\ MaxSeq \in Nat \ {0} /\ SENDER_MSG_BUFFER <= MaxSeq
         /\ w.window_start_index \in 0..(SENDER_MSG_BUFFER - 1)
         /\ w.last_seq_no \in 0..MaxSeq
         /\ w.send_buff \in [SendIndex -> [ack_no : {FREE} \cup SeqNo, sent : {0, 1}, message : Nat]]
         /\ \A k \in SendIndex : SendSlot(w, k) \in SendIndex
         /\ \A j, k \in SendIndex : SendSlot(w, j) = SendSlot(w, k) => j = k
<1>1. /\ SENDER_MSG_BUFFER \in Nat \ {0} /\ MaxSeq \in Nat \ {0} /\ SENDER_MSG_BUFFER <= MaxSeq
      /\ w.window_start_index \in 0..(SENDER_MSG_BUFFER - 1)
  BY BufferAssumption, SMT DEF SendWindow, SendIndex
<1>2. \A k \in SendIndex :
        /\ k \in 0..SENDER_MSG_BUFFER
        /\ SendSlot(w, k) = IF w.window_start_index + k < SENDER_MSG_BUFFER
                            THEN w.window_start_index + k
                            ELSE w.window_start_index + k - SENDER_MSG_BUFFER
        /\ SendSlot(w, k) \in SendIndex
  <2>1. \A k \in SendIndex : k \in 0..SENDER_MSG_BUFFER
    BY <1>1, SMT DEF SendIndex
  <2> QED BY <2>1, SendSlotStep
<1>3. ASSUME NEW j \in SendIndex, NEW k \in SendIndex, SendSlot(w, j) = SendSlot(w, k)
      PROVE  j = k
  <2> DEFINE x == w.window_start_index
             N == SENDER_MSG_BUFFER
  <2>1. (IF x + j < N THEN x + j ELSE x + j - N) = (IF x + k < N THEN x + k ELSE x + k - N)
    BY <1>2, <1>3
  <2>2. j \in 0..(N - 1) /\ k \in 0..(N - 1)
    BY DEF SendIndex
  <2> QED BY <1>1, <2>1, <2>2, SMT
<1> QED BY <1>1, <1>2, <1>3 DEF SendWindow

\* The number the n messages of a send ring give the one at offset k.
SeqAt(w, n, k) == SeqAdd(w.last_seq_no, k + 1 - n + MaxSeq)

LEMMA SendRingOf ==
  ASSUME NEW w, SendRing(w)
  PROVE  \E n \in 0..SENDER_MSG_BUFFER : \A k \in SendIndex :
           /\ k < n => w.send_buff[SendSlot(w, k)].ack_no = SeqAt(w, n, k)
           /\ ~(k < n) => w.send_buff[SendSlot(w, k)].ack_no = FREE
BY DEF SendRing, SeqAt

LEMMA SendRingBy ==
  ASSUME NEW w, NEW n \in 0..SENDER_MSG_BUFFER,
         \A k \in SendIndex : /\ k < n => w.send_buff[SendSlot(w, k)].ack_no = SeqAt(w, n, k)
                              /\ ~(k < n) => w.send_buff[SendSlot(w, k)].ack_no = FREE
  PROVE  SendRing(w)
BY DEF SendRing, SeqAt

\* m_sendto takes the slot right after the last message.
LEMMA EnqueueRing ==
  ASSUME NEW w \in SendWindow, SendRing(w), NEW k \in SendIndex, NEW m \in Nat,
         w.send_buff[SendSlot(w, k)].ack_no = FREE,
         \A j \in 0..(k - 1) : w.send_buff[SendSlot(w, j)].ack_no # FREE
  PROVE  SendRing(Enqueue(w, k, m))
<1> DEFINE N == SENDER_MSG_BUFFER
           u == Enqueue(w, k, m)
<1>1. PICK n \in 0..N : \A j \in SendIndex :
        /\ j < n => w.send_buff[SendSlot(w, j)].ack_no = SeqAt(w, n, j)
        /\ ~(j < n) => w.send_buff[SendSlot(w, j)].ack_no = FREE
  BY SendRingOf
<1>2. /\ N \in Nat \ {0} /\ MaxSeq \in Nat \ {0} /\ N <= MaxSeq /\ w.last_seq_no \in 0..MaxSeq
      /\ k \in 0..(N - 1) /\ SendIndex = 0..(N - 1)
  BY SendFields DEF SendIndex
<1>3. k = n
  <2>1. CASE k < n
    <3>1. k + 1 - n + MaxSeq \in Nat
      BY <1>2, SMT
    <3>2. SeqAt(w, n, k) \in SeqNo
      BY <1>2, <3>1, SeqAddType DEF SeqAt
    <3>3. SeqAt(w, n, k) # FREE
      BY <1>2, <3>2, SMT DEF SeqNo, FREE
    <3> QED BY <1>1, <2>1, <3>3
  <2>2. CASE k > n
    <3>1. n \in 0..(k - 1) /\ n \in SendIndex /\ ~(n < n)
      BY <1>2, <2>2, SMT
    <3> QED BY <1>1, <3>1
  <2> QED BY <1>2, <2>1, <2>2, SMT
<1>4. /\ u.last_seq_no = SeqAdd(w.last_seq_no, 1)
      /\ u.window_start_index = w.window_start_index
      /\ u.send_buff[SendSlot(w, k)].ack_no = SeqAdd(w.last_seq_no, 1)
      /\ \A j \in SendIndex : j # k => u.send_buff[SendSlot(w, j)] = w.send_buff[SendSlot(w, j)]
  BY SendFields DEF Enqueue, SendWindow
<1>5. \A j : SendSlot(u, j) = SendSlot(w, j)
  BY <1>4 DEF SendSlot
<1>6. n + 1 \in 0..N
  BY <1>2, <1>3, SMT
<1>7. ASSUME NEW j \in SendIndex, j < n + 1
      PROVE  u.send_buff[SendSlot(u, j)].ack_no = SeqAt(u, n + 1, j)
  <2>1. CASE j = k
    <3>1. j + 1 - (n + 1) + MaxSeq = MaxSeq
      BY <1>2, <1>3, <2>1, SMT
    <3>2. SeqAdd(w.last_seq_no, 1) \in SeqNo
      BY <1>2, SeqAfter
    <3>3. MaxSeq \in 0..MaxSeq
      BY <1>2, SMT
    <3>4. SeqAdd(SeqAdd(w.last_seq_no, 1), MaxSeq) = SeqAdd(w.last_seq_no, 1)
      <4>1. SeqAdd(SeqAdd(w.last_seq_no, 1), MaxSeq) =
              IF SeqAdd(w.last_seq_no, 1) + MaxSeq <= MaxSeq THEN SeqAdd(w.last_seq_no, 1) + MaxSeq
                                                             ELSE SeqAdd(w.last_seq_no, 1) + MaxSeq - MaxSeq
        BY <3>2, <3>3, SeqAddStep
      <4> QED BY <1>2, <3>2, <4>1, SMT DEF SeqNo
    <3> QED BY <1>4, <1>5, <2>1, <3>1, <3>4 DEF SeqAt
  <2>2. CASE j # k
    <3> DEFINE t == j - n + MaxSeq
    <3>1. j < n /\ t \in 0..(MaxSeq - 1) /\ j + 1 - (n + 1) + MaxSeq = t /\ j + 1 - n + MaxSeq = t + 1
      BY <1>2, <1>3, <1>7, <2>2, SMT
    <3>2. SeqAdd(SeqAdd(w.last_seq_no, 1), t) = SeqAdd(w.last_seq_no, t + 1)
      BY <1>2, <3>1, SeqAfterAdd
    <3> QED BY <1>1, <1>4, <1>5, <2>2, <3>1, <3>2 DEF SeqAt
  <2> QED BY <2>1, <2>2
<1>8. ASSUME NEW j \in SendIndex, ~(j < n + 1)
      PROVE  u.send_buff[SendSlot(u, j)].ack_no = FREE
  <2>1. ~(j < n) /\ j # k
    BY <1>2, <1>3, <1>8, SMT
  <2> QED BY <1>1, <1>4, <1>5, <2>1
<1> QED BY <1>6, <1>7, <1>8, SendRingBy

\* What an ACK for the message at offset k makes of the send window w: the
\* messages after it come first.
AfterSlide(u, w, k) ==
  /\ k \in SendIndex /\ w.send_buff[SendSlot(w, k)].ack_no # FREE
  /\ u.last_seq_no = w.last_seq_no
  /\ \A j \in SendIndex :
       IF k + 1 + j < SENDER_MSG_BUFFER
       THEN k + 1 + j \in SendIndex /\ u.send_buff[SendSlot(u, j)] = w.send_buff[SendSlot(w, k + 1 + j)]
       ELSE u.send_buff[SendSlot(u, j)].ack_no = FREE

LEMMA SlideSlots ==
  ASSUME NEW w \in SendWindow, NEW k \in OpenOffsets(w)
  PROVE  AfterSlide(SlidePast(w, k), w, k)
<1> DEFINE N == SENDER_MSG_BUFFER
           x == w.window_start_index
           u == SlidePast(w, k)
<1>2. /\ N \in Nat \ {0} /\ MaxSeq \in Nat \ {0} /\ N <= MaxSeq
      /\ k \in 0..(N - 1) /\ SendIndex = 0..(N - 1) /\ k + 1 \in 0..N /\ k \in 0..k
      /\ x \in 0..(N - 1)
  <2>1. k \in SendIndex
    BY DEF OpenOffsets
  <2> QED BY <2>1, SendFields, SMT DEF SendIndex
<1>4. /\ u.last_seq_no = w.last_seq_no
      /\ u.window_start_index = SendSlot(w, k + 1)
      /\ \A j \in SendIndex : (\E i \in 0..k : j = SendSlot(w, i)) => u.send_buff[j].ack_no = FREE
      /\ \A j \in SendIndex : ~(\E i \in 0..k : j = SendSlot(w, i)) => u.send_buff[j] = w.send_buff[j]
  BY SendFields DEF SlidePast, SendWindow
<1>5. SendSlot(w, k + 1) = IF x + (k + 1) < N THEN x + (k + 1) ELSE x + (k + 1) - N
  BY <1>2, SendSlotStep
\* Offset j of the new window is offset k + 1 + j of the old one.
<1>6. ASSUME NEW j \in SendIndex
      PROVE  /\ k + 1 + j < N => SendSlot(u, j) = SendSlot(w, k + 1 + j)
             /\ ~(k + 1 + j < N) => SendSlot(u, j) = SendSlot(w, k + 1 + j - N)
  <2>1. SendSlot(u, j) = IF SendSlot(w, k + 1) + j < N THEN SendSlot(w, k + 1) + j ELSE SendSlot(w, k + 1) + j - N
    <3>0. SendSlot(w, k + 1) \in SendIndex
      BY <1>2, SendSlotStep
    <3>1. SendSlot(w, k + 1) \in 0..(N - 1) /\ j \in 0..N
      BY <1>2, <3>0, SMT
    <3>2. (SendSlot(w, k + 1) + j) % N =
            IF SendSlot(w, k + 1) + j < N THEN SendSlot(w, k + 1) + j ELSE SendSlot(w, k + 1) + j - N
      BY <1>2, <3>1, RingStep
    <3> QED BY <1>4, <3>2 DEF SendSlot
  <2>2. CASE k + 1 + j < N
    <3>1. k + 1 + j \in 0..N
      BY <1>2, <2>2, SMT
    <3>2. SendSlot(w, k + 1 + j) = IF x + (k + 1 + j) < N THEN x + (k + 1 + j) ELSE x + (k + 1 + j) - N
      BY <3>1, SendSlotStep
    <3> QED BY <1>2, <1>5, <2>1, <2>2, <3>2, SMT
  <2>3. CASE ~(k + 1 + j < N)
    <3>1. k + 1 + j - N \in 0..N
      BY <1>2, <2>3, SMT
    <3>2. SendSlot(w, k + 1 + j - N) =
            IF x + (k + 1 + j - N) < N THEN x + (k + 1 + j - N) ELSE x + (k + 1 + j - N) - N
      BY <3>1, SendSlotStep
    <3> QED BY <1>2, <1>5, <2>1, <2>3, <3>2, SMT
  <2> QED BY <2>2, <2>3
<1>7. ASSUME NEW i \in SendIndex, i > k
      PROVE  u.send_buff[SendSlot(w, i)] = w.send_buff[SendSlot(w, i)]
  <2>1. \A o \in 0..k : o \in SendIndex /\ o # i
    BY <1>2, <1>7, SMT
  <2>2. SendSlot(w, i) \in SendIndex /\ ~(\E o \in 0..k : SendSlot(w, i) = SendSlot(w, o))
    BY <2>1, SendFields
  <2> QED BY <1>4, <2>2
<1>8. ASSUME NEW j \in SendIndex, k + 1 + j < N
      PROVE  k + 1 + j \in SendIndex /\ u.send_buff[SendSlot(u, j)] = w.send_buff[SendSlot(w, k + 1 + j)]
  <2>1. k + 1 + j \in SendIndex /\ k + 1 + j > k
    BY <1>2, <1>8, SMT
  <2> QED BY <1>6, <1>7, <1>8, <2>1
<1>9. ASSUME NEW j \in SendIndex, ~(k + 1 + j < N)
      PROVE  u.send_buff[SendSlot(u, j)].ack_no = FREE
  <2>1. k + 1 + j - N \in 0..k /\ k + 1 + j - N \in SendIndex
    BY <1>2, <1>9, SMT
  <2> QED BY <1>4, <1>6, <1>9, <2>1, SendFields
<1>10. w.send_buff[SendSlot(w, k)].ack_no # FREE
  BY <1>2 DEF OpenOffsets
<1>11. k \in SendIndex
  BY DEF OpenOffsets
<1> QED BY <1>4, <1>8, <1>9, <1>10, <1>11 DEF AfterSlide

\* An ACK takes the messages up to the acknowledged one off the front.
LEMMA SlideRing ==
  ASSUME NEW w \in SendWindow, SendRing(w), NEW k \in OpenOffsets(w)
  PROVE  SendRing(SlidePast(w, k))
<1> DEFINE N == SENDER_MSG_BUFFER
           u == SlidePast(w, k)
<1>0. AfterSlide(u, w, k)
  BY SlideSlots
<1> HIDE DEF u
<1>1. PICK n \in 0..N : \A j \in SendIndex :
        /\ j < n => w.send_buff[SendSlot(w, j)].ack_no = SeqAt(w, n, j)
        /\ ~(j < n) => w.send_buff[SendSlot(w, j)].ack_no = FREE
  BY SendRingOf
<1>2. /\ N \in Nat \ {0} /\ MaxSeq \in Nat \ {0} /\ k \in 0..(N - 1) /\ SendIndex = 0..(N - 1)
  BY <1>0, SendFields DEF SendIndex, AfterSlide
<1>3. k < n
  BY <1>0, <1>1 DEF AfterSlide
<1>4. n - (k + 1) \in 0..N
  BY <1>2, <1>3, SMT
<1>5. ASSUME NEW j \in SendIndex, j < n - (k + 1)
      PROVE  u.send_buff[SendSlot(u, j)].ack_no = SeqAt(u, n - (k + 1), j)
  <2>1. /\ k + 1 + j < n /\ k + 1 + j < N
        /\ (k + 1 + j) + 1 - n + MaxSeq = j + 1 - (n - (k + 1)) + MaxSeq
    BY <1>2, <1>5, SMT
  <2>2. k + 1 + j \in SendIndex /\ u.send_buff[SendSlot(u, j)] = w.send_buff[SendSlot(w, k + 1 + j)]
    BY <1>0, <2>1 DEF AfterSlide
  <2>3. u.last_seq_no = w.last_seq_no
    BY <1>0 DEF AfterSlide
  <2> QED BY <1>1, <2>1, <2>2, <2>3 DEF SeqAt
<1>6. ASSUME NEW j \in SendIndex, ~(j < n - (k + 1))
      PROVE  u.send_buff[SendSlot(u, j)].ack_no = FREE
  <2>1. CASE k + 1 + j < N
    <3>1. ~(k + 1 + j < n)
      BY <1>2, <1>6, SMT
    <3> QED BY <1>0, <1>1, <2>1, <3>1 DEF AfterSlide
  <2>2. CASE ~(k + 1 + j < N)
    BY <1>0, <2>2 DEF AfterSlide
  <2> QED BY <2>1, <2>2
<1>7. SendRing(u)
  BY <1>4, <1>5, <1>6, SendRingBy
<1> QED BY <1>7 DEF u

LEMMA SendRingInit == Init => SendRingOK
<1> SUFFICES ASSUME Init, NEW s \in Socks PROVE SendRing(send_window[s])
  BY DEF SendRingOK
<1> DEFINE w == send_window[s]
<1>1. w \in SendWindow
  BY TypeInit DEF TypeOK
<1>2. \A i \in SendIndex : w.send_buff[i].ack_no = FREE
  BY DEF Init, NewSendWindow, NewRecvWindow
<1>3. 0 \in 0..SENDER_MSG_BUFFER /\ \A k \in SendIndex : ~(k < 0)
  BY BufferAssumption, SMT DEF SendIndex
<1> QED BY <1>1, <1>2, <1>3, SendFields, SendRingBy

LEMMA SendRingNext == TypeOK /\ SendRingOK /\ [Next]_vars => SendRingOK'
<1> SUFFICES ASSUME TypeOK, SendRingOK, [Next]_vars PROVE SendRingOK'
  OBVIOUS
<1> USE DEF SendRingOK
<1>1. send_window \in [Socks -> SendWindow] /\ \A s \in Socks : send_window[s] \in SendWindow
  BY DEF TypeOK
<1>2. ASSUME NEW s \in Socks, NEW u, send_window' = [send_window EXCEPT ![s] = u], SendRing(u)
      PROVE  SendRingOK'
  BY <1>1, <1>2
\* The window size and the sent marks play no part.
<1>3. ASSUME NEW w, NEW u, SendRing(w),
             u.last_seq_no = w.last_seq_no, u.window_start_index = w.window_start_index,
             \A k \in SendIndex : u.send_buff[SendSlot(w, k)].ack_no = w.send_buff[SendSlot(w, k)].ack_no
      PROVE  SendRing(u)
  BY <1>3 DEF SendRing, SendSlot
<1>4. CASE UNCHANGED send_window
  BY <1>4
<1>5. ASSUME NEW s \in Socks, m_sendto(s) PROVE SendRingOK'
  <2>1. PICK k \in SendIndex :
          /\ send_window[s].send_buff[SendSlot(send_window[s], k)].ack_no = FREE
          /\ \A j \in 0..(k - 1) : send_window[s].send_buff[SendSlot(send_window[s], j)].ack_no # FREE
          /\ send_window' = [send_window EXCEPT ![s] = Enqueue(@, k, accepted[s] + 1)]
    BY <1>5 DEF m_sendto
  <2>2. accepted[s] + 1 \in Nat
    BY SMT DEF TypeOK
  <2>3. SendRing(Enqueue(send_window[s], k, accepted[s] + 1))
    BY <1>1, <2>1, <2>2, EnqueueRing
  <2> QED BY <1>2, <2>1, <2>3
<1>6. ASSUME NEW s \in Socks, NEW q \in Passes(send_window[s]), SendPass(s, q) PROVE SendRingOK'
  <2> DEFINE w == send_window[s]
             u == MarkSent(w, q)
  <2>1. \A k \in SendIndex : SendSlot(w, k) \in SendIndex
    BY <1>1, SendFields
  <2>2. /\ u.last_seq_no = w.last_seq_no /\ u.window_start_index = w.window_start_index
        /\ \A k \in SendIndex : u.send_buff[SendSlot(w, k)].ack_no = w.send_buff[SendSlot(w, k)].ack_no
    BY <1>1, <2>1 DEF MarkSent, SendWindow
  <2>3. SendRing(u)
    BY <1>3, <2>2
  <2> QED BY <1>2, <1>6, <2>3 DEF SendPass
<1>7. ASSUME NEW s \in Socks, NEW i \in Arrived(s), ReceiveAck(s, i) PROVE SendRingOK'
  <2> DEFINE w == send_window[s]
             d == udp[s][i]
  <2>1. CASE AckedAt(w, d.seq_no) = {}
    <3> DEFINE u == [w EXCEPT !.window_size = d.body]
    <3>1. send_window' = [send_window EXCEPT ![s] = u]
      BY <1>7, <2>1 DEF ReceiveAck
    <3>2. /\ u.last_seq_no = w.last_seq_no /\ u.window_start_index = w.window_start_index
          /\ u.send_buff = w.send_buff
      BY <1>1 DEF SendWindow
    <3>3. SendRing(u)
      BY <1>3, <3>2
    <3> QED BY <1>2, <3>1, <3>3
  <2>2. CASE AckedAt(w, d.seq_no) # {}
    <3>1. PICK k \in AckedAt(w, d.seq_no) :
            send_window' = [send_window EXCEPT ![s] = [SlidePast(w, k) EXCEPT !.window_size = d.body]]
      BY <1>7, <2>2 DEF ReceiveAck
    <3> DEFINE v == SlidePast(w, k)
               u == [v EXCEPT !.window_size = d.body]
    <3>2. k \in OpenOffsets(w) /\ SendRing(v)
      BY <1>1, SlideRing DEF AckedAt
    <3>3. /\ u.last_seq_no = v.last_seq_no /\ u.window_start_index = v.window_start_index
          /\ u.send_buff = v.send_buff
      BY <1>1 DEF SlidePast, SendWindow
    <3>4. SendRing(u)
      BY <1>3, <3>2, <3>3
    <3> QED BY <1>2, <3>1, <3>4
  <2> QED BY <2>1, <2>2
<1> QED BY <1>4, <1>5, <1>6, <1>7
        DEF Next, vars, thread_S, thread_R, HandleDatagram, m_recvfrom, SendProbe,
            ReceiveInOrder, ReceiveEarly, ReceiveOutside, ReceiveProbe, DropMessage, WindowUpdate

\* The send ring is never corrupted: what is unacknowledged is contiguous
\* from the window's start and numbered consecutively, so that an ACK for one
\* message stands for exactly those accepted before it, although m_sendto
\* searches for any free slot and threads S and R use the ring meanwhile.
THEOREM SendRingCorrect == Spec => []SendRingOK
<1>1. Init => TypeOK /\ SendRingOK
  BY TypeInit, SendRingInit
<1>2. TypeOK /\ SendRingOK /\ [Next]_vars => (TypeOK /\ SendRingOK)'
  BY TypeNext, SendRingNext
<1> QED BY <1>1, <1>2, PTL DEF Spec

-----------------------------------------------------------------------------
(* The choice in InOrderRuns, how many early messages are taken over.       *)

\* Every set of natural numbers that is not empty has a least one.
LEMMA LeastNumber ==
  ASSUME NEW T \in SUBSET Nat, T # {}
  PROVE  \E n \in T : \A m \in T : n <= m
<1> DEFINE below == {0..n : n \in T}
<1>1. below \subseteq FiniteSubsetsOf(Nat) /\ below # {}
  <2>1. \A n \in T : 0..n \in SUBSET Nat /\ IsFiniteSet(0..n)
    BY FS_Interval
  <2> QED BY <2>1 DEF FiniteSubsetsOf
<1>2. IsWellFoundedOn(StrictSubsetOrdering(Nat), FiniteSubsetsOf(Nat))
  BY FS_StrictSubsetOrderingWellFounded
<1>3. \E x \in below : \A y \in below : <<y, x>> \notin StrictSubsetOrdering(Nat)
  <2> HIDE DEF below
  <2> QED BY <1>1, <1>2, WFMin
<1>4. PICK n \in T : \A m \in T : <<0..m, 0..n>> \notin StrictSubsetOrdering(Nat)
  BY <1>3
<1>5. ASSUME NEW m \in T, m < n PROVE FALSE
  <2>1. 0..m \in SUBSET Nat /\ 0..n \in SUBSET Nat /\ 0..m \subseteq 0..n
    BY <1>5, SMT
  <2>2. n \in 0..n /\ n \notin 0..m
    BY <1>5, SMT
  <2>3. <<0..m, 0..n>> \in StrictSubsetOrdering(Nat)
    BY <2>1, <2>2 DEF StrictSubsetOrdering
  <2> QED BY <1>4, <2>3
<1> QED BY <1>5, SMT

\* The loop in thread R that takes over messages which came early ends, and
\* there is one place where it does.
LEMMA RunIsOne ==
  ASSUME NEW w \in RecvWindow, w.window_size > 0
  PROVE  \E n : InOrderRuns(w) = {n}
<1> DEFINE Ends(n) == n = RECEIVER_MSG_BUFFER \/ n = w.window_size \/ ~Buffered(w, n)
           ends == {n \in 1..RECEIVER_MSG_BUFFER : Ends(n)}
<1>0. RECEIVER_MSG_BUFFER \in Nat \ {0} /\ w.window_size \in Nat
  BY BufferAssumption, SMT DEF RecvWindow
<1>1. RECEIVER_MSG_BUFFER \in ends /\ ends \in SUBSET Nat
  BY <1>0, SMT
<1>2. PICK n \in ends : \A m \in ends : n <= m
  <2> HIDE DEF ends
  <2> QED BY <1>1, LeastNumber
<1>3. \A k \in 1..(n - 1) : ~Ends(k)
  BY <1>0, <1>2, SMT
<1>4. n <= w.window_size
  <2>1. CASE w.window_size <= RECEIVER_MSG_BUFFER
    <3>1. w.window_size \in ends
      BY <1>0, <2>1, SMT
    <3> QED BY <1>2, <3>1
  <2>2. CASE ~(w.window_size <= RECEIVER_MSG_BUFFER)
    BY <1>0, <1>2, <2>2, SMT
  <2> QED BY <2>1, <2>2
<1>5. n \in InOrderRuns(w)
  BY <1>2, <1>3, <1>4 DEF InOrderRuns
<1>6. ASSUME NEW m \in InOrderRuns(w) PROVE m = n
  <2>1. m \in 1..RECEIVER_MSG_BUFFER /\ m <= w.window_size /\ Ends(m) /\ \A k \in 1..(m - 1) : Buffered(w, k)
    BY <1>6 DEF InOrderRuns
  <2>2. ~(m < n)
    BY <1>0, <1>3, <2>1, SMT
  <2>3. ~(n < m)
    <3> SUFFICES ASSUME n < m PROVE FALSE
      OBVIOUS
    <3>1. n \in 1..(m - 1) /\ n # RECEIVER_MSG_BUFFER /\ n # w.window_size
      BY <1>0, <1>2, <2>1, SMT
    <3> QED BY <1>2, <2>1, <3>1
  <2> QED BY <1>0, <1>2, <2>1, <2>2, <2>3, SMT
<1> QED BY <1>5, <1>6

\* However full the receive ring is and whatever came early: when the message
\* that is due arrives and there is room, thread R can take it, and in one way.
THEOREM DueIsTaken ==
  Spec => [](\A s \in Socks : recv_window[s].window_size > 0 => \E n : InOrderRuns(recv_window[s]) = {n})
<1>1. TypeOK => \A s \in Socks : recv_window[s].window_size > 0 => \E n : InOrderRuns(recv_window[s]) = {n}
  BY RunIsOne DEF TypeOK
<1> QED BY <1>1, TypeCorrect, PTL
=============================================================================
