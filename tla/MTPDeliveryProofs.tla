-------------------------- MODULE MTPDeliveryProofs --------------------------
(* What a connection of MTPTransfer delivers, for every number of sockets, *)
(* every size of the buffers and every loss, on a network that keeps the   *)
(* order of the datagrams it delivers (Overtake = 0): the two ends of a    *)
(* connection and the datagrams between them agree on what has arrived.    *)
EXTENDS MTPTransferProofs, FunctionTheorems

-----------------------------------------------------------------------------
(* Remainders.                                                             *)

\* A number is its quotient times the divisor, and the remainder.
LEMMA DivMod ==
  ASSUME NEW x \in Int, NEW M \in Nat \ {0}
  PROVE  /\ x % M \in 0..(M - 1) /\ x \div M \in Int /\ x = M * (x \div M) + (x % M)
<1>1. x % M \in 0..(M - 1)
  BY SMT
<1>2. x \div M \in Int
  BY SMT
<1>3. x = M * (x \div M) + (x % M)
  BY SMT
<1> QED BY <1>1, <1>2, <1>3
\* Quotient and remainder are the only ones.
LEMMA QuotientUnique ==
  ASSUME NEW M \in Nat \ {0}, NEW q \in Int, NEW p \in Int, NEW r \in 0..(M - 1),
         NEW t \in 0..(M - 1), M * q + r = M * p + t
  PROVE  r = t /\ q = p
<1>1. CASE q = p
  BY <1>1, SMT
<1>2. CASE q >= p + 1
  <2>1. M * (q - p - 1) >= 0
    BY <1>2, SMT
  <2>2. M * (q - p - 1) = M * q - M * p - M
    BY SMT
  <2> QED BY <2>1, <2>2, SMT
<1>3. CASE p >= q + 1
  <2>1. M * (p - q - 1) >= 0
    BY <1>3, SMT
  <2>2. M * (p - q - 1) = M * p - M * q - M
    BY SMT
  <2> QED BY <2>1, <2>2, SMT
<1> QED BY <1>1, <1>2, <1>3, SMT

\* Taking the remainder before an addition makes no difference after it.
LEMMA ModPlus ==
  ASSUME NEW M \in Nat \ {0}, NEW x \in Int, NEW k \in Int
  PROVE  ((x % M) + k) % M = (x + k) % M
<1> DEFINE r == x % M
           q == x \div M
           t == (r + k) % M
           p == (r + k) \div M
           u == (x + k) % M
           v == (x + k) \div M
<1>1. r \in 0..(M - 1) /\ q \in Int /\ x = M * q + r
  BY DivMod
<1>2. t \in 0..(M - 1) /\ p \in Int /\ r + k = M * p + t
  <2>1. r + k \in Int
    BY <1>1, SMT
  <2> QED BY <2>1, DivMod
<1>3. u \in 0..(M - 1) /\ v \in Int /\ x + k = M * v + u
  <2>1. x + k \in Int
    BY <1>1, SMT
  <2> QED BY <2>1, DivMod
<1> HIDE DEF r, q, t, p, u, v
<1>4. PICK z \in Int : M * z + t = M * v + u
  <2>1. M * (q + p) = M * q + M * p /\ q + p \in Int
    BY <1>1, <1>2, SMT
  <2>2. M * (q + p) + t = M * v + u
    BY <1>1, <1>2, <1>3, <2>1, SMT
  <2> QED BY <2>1, <2>2
<1>5. t = u
  BY <1>2, <1>3, <1>4, QuotientUnique
<1> QED BY <1>5 DEF r, t, u

\* Numbers less than the divisor apart differ when their remainders do.
LEMMA ModUnique ==
  ASSUME NEW M \in Nat \ {0}, NEW x \in Int, NEW y \in Int,
         x % M = y % M, x <= y, y < x + M
  PROVE  x = y
<1> DEFINE r == x % M
           q == x \div M
           p == y \div M
<1>1. r \in 0..(M - 1) /\ q \in Int /\ x = M * q + r
  BY DivMod
<1>2. p \in Int /\ y = M * p + r
  BY DivMod
<1> HIDE DEF r, q, p
<1>3. M * (p - q) = y - x
  BY <1>1, <1>2, SMT
<1>4. y - x \in 0..(M - 1) /\ 0 \in 0..(M - 1) /\ p - q \in Int /\ 0 \in Int /\ M * 0 = 0
  BY SMT, <1>1, <1>2
<1>5. M * (p - q) + 0 = M * 0 + (y - x)
  BY <1>3, <1>4, SMT
<1>6. 0 = y - x
  BY <1>4, <1>5, QuotientUnique
<1> QED BY <1>6, SMT

-----------------------------------------------------------------------------
(* The sequence numbers of the messages.                                   *)

\* The sequence number of the m-th message.
Number(m) == SeqAdd(0, m)

LEMMA NumberType ==
  ASSUME NEW m \in Nat
  PROVE  Number(m) \in SeqNo
BY SeqAddType, BufferAssumption, SMT DEF Number

\* k numbers after that of message m comes that of message m + k.
LEMMA NumberAdd ==
  ASSUME NEW m \in Nat, NEW k \in Nat
  PROVE  SeqAdd(Number(m), k) = Number(m + k)
<1> DEFINE x == 0 - 1 + m
           r == x % MaxSeq
<1>1. MaxSeq \in Nat \ {0} /\ x \in Int /\ k \in Int /\ x + k = 0 - 1 + (m + k)
  BY BufferAssumption, SMT
<1>2. Number(m) = r + 1 /\ Number(m + k) = ((x + k) % MaxSeq) + 1
  BY <1>1 DEF Number, SeqAdd
<1> HIDE DEF x
<1>3. (r + k) % MaxSeq = (x + k) % MaxSeq
  BY <1>1, ModPlus
<1>4. r \in 0..(MaxSeq - 1)
  BY <1>1, DivMod
<1> HIDE DEF r
<1>5. (r + 1) - 1 + k = r + k
  BY <1>1, <1>4, SMT
<1>6. SeqAdd(r + 1, k) = (((r + 1) - 1 + k) % MaxSeq) + 1
  BY DEF SeqAdd
<1>7. SeqAdd(r + 1, k) = ((r + k) % MaxSeq) + 1
  BY <1>5, <1>6
<1> QED BY <1>2, <1>3, <1>7

\* Messages with the same number are at least MaxSeq apart.
LEMMA NumberUnique ==
  ASSUME NEW i \in Nat, NEW j \in Nat, Number(i) = Number(j), i < j + MaxSeq, j < i + MaxSeq
  PROVE  i = j
<1> DEFINE x == 0 - 1 + i
           y == 0 - 1 + j
<1>1. /\ MaxSeq \in Nat \ {0} /\ x \in Int /\ y \in Int
      /\ x % MaxSeq \in Int /\ y % MaxSeq \in Int
  BY BufferAssumption, DivMod, SMT
<1>2. x % MaxSeq = y % MaxSeq
  <2>1. (x % MaxSeq) + 1 = (y % MaxSeq) + 1
    BY DEF Number, SeqAdd
  <2> QED BY <1>1, <2>1, SMT
<1>3. CASE i <= j
  <2>1. x <= y /\ y < x + MaxSeq
    BY <1>1, <1>3, SMT
  <2>2. x = y
    BY <1>1, <1>2, <2>1, ModUnique
  <2> QED BY <2>2, SMT
<1>4. CASE j <= i
  <2>1. y <= x /\ x < y + MaxSeq
    BY <1>1, <1>4, SMT
  <2>2. y = x
    BY <1>1, <1>2, <2>1, ModUnique
  <2> QED BY <2>2, SMT
<1> QED BY <1>3, <1>4, SMT

\* The number before that of message m + 1 is that of message m, also when
\* there is no message m yet.
LEMMA NumberPrev ==
  ASSUME NEW m \in Nat
  PROVE  SeqPrev(Number(m + 1)) = Number(m)
<1>1. Number(m) \in SeqNo /\ MaxSeq \in Nat \ {0} /\ 1 \in 0..MaxSeq
  BY NumberType, BufferAssumption, SMT
<1>2. Number(m + 1) = SeqAdd(Number(m), 1)
  BY NumberAdd
<1>3. Number(m + 1) = IF Number(m) + 1 <= MaxSeq THEN Number(m) + 1 ELSE Number(m) + 1 - MaxSeq
  BY <1>1, <1>2, SeqAddStep
<1> QED BY <1>1, <1>3, SMT DEF SeqPrev, SeqNo

-----------------------------------------------------------------------------
(* The invariant.                                                          *)

\* The send window w holds the n messages after message lo.
Holds(w, lo, n) ==
  /\ SeqAdd(w.last_seq_no, 1) = Number(lo + n + 1)
  /\ \A k \in SendIndex :
       LET slot == w.send_buff[SendSlot(w, k)]
       IN  /\ k < n => slot.ack_no = Number(lo + k + 1) /\ slot.message = lo + k + 1
           /\ ~(k < n) => slot.ack_no = FREE

\* What a receive window has in order once its program has fetched d messages.
InOrder(u, d) == d + RECEIVER_MSG_BUFFER - u.window_size

\* Offset k of the receive window u holds a message that came early.
CameEarly(u, k) == k < u.window_size /\ u.recv_buff[WriteSlot(u, k)].ack_no # FREE

\* The receive window u continues after the d messages fetched: what can be
\* read are the next ones, and what came early is what its place says.
Continues(u, d) ==
  /\ u.next_seq_no = Number(InOrder(u, d) + 1)
  /\ \A k \in RecvIndex :
       /\ k < RECEIVER_MSG_BUFFER - u.window_size => u.recv_buff[ReadSlot(u, k)].message = d + k + 1
       /\ CameEarly(u, k) => u.recv_buff[WriteSlot(u, k)].message = InOrder(u, d) + k + 1

\* The latest messages in hand: the last one in order, and the early ones.
InHand(u, d) == {InOrder(u, d)} \cup {InOrder(u, d) + k + 1 : k \in {j \in RecvIndex : CameEarly(u, j)}}

\* The DATA datagrams of the queue q are messages up to acc and up to edge,
\* with their numbers; neither a message in hand nor one before it in the
\* queue is a receive window or more ahead of any.
DataQueue(q, hand, acc, edge) ==
  \A i \in DOMAIN q : q[i].type = "D" =>
    /\ q[i].body \in 1..acc /\ q[i].body <= edge /\ q[i].seq_no = Number(q[i].body)
    /\ \A m \in hand : m < q[i].body + RECEIVER_MSG_BUFFER
    /\ \A j \in 1..(i - 1) : q[j].type = "D" => q[j].body < q[i].body + RECEIVER_MSG_BUFFER

\* A probe names the last message in order, and no DATA ahead of it in the
\* queue is a newer one.
ProbeQueue(q, last) ==
  \A i \in DOMAIN q : q[i].type = "P" =>
    /\ q[i].seq_no = Number(last)
    /\ \A j \in 1..(i - 1) : q[j].type = "D" => q[j].body <= last

\* The ACKs of the queue q acknowledge the messages up to ord[i], at least
\* lo and at most last; the right edges they advertise lie from edge to top;
\* and neither ever falls along the queue.
AckQueue(q, ord, lo, last, edge, top) ==
  \A i \in DOMAIN q : q[i].type = "A" =>
    /\ q[i].seq_no = Number(ord[i]) /\ q[i].body <= RECEIVER_MSG_BUFFER
    /\ ord[i] \in lo..last
    /\ ord[i] + q[i].body \in edge..top
    /\ \A j \in 1..(i - 1) : q[j].type = "A" =>
         ord[j] <= ord[i] /\ ord[j] + q[j].body <= ord[i] + q[i].body

Acks(q, lo, last, edge, top) ==
  \E ord \in [DOMAIN q -> 0..last] : AckQueue(q, ord, lo, last, edge, top)

\* A send window w, with its timer t, after message lo, and the receive
\* window u of its peer, whose program has fetched d: of acc messages.
Agree(lo, w, t, acc, u, d) ==
  /\ lo <= InOrder(u, d)
  /\ w.window_size <= RECEIVER_MSG_BUFFER
  /\ lo + w.window_size <= d + RECEIVER_MSG_BUFFER
  /\ t.flag > 0 => t.ack_seq_no = Number(lo)
  /\ \A m \in InHand(u, d) : m <= acc /\ m <= lo + w.window_size

\* These, with what the program has fetched, and the datagrams on the way
\* there (data) and back (acks).
LinkedBy(lo, n, w, t, acc, u, dlv, data, acks) ==
  LET d == Len(dlv)
  IN  /\ Holds(w, lo, n)
      /\ Continues(u, d)
      /\ \A i \in 1..d : dlv[i] = i
      /\ Agree(lo, w, t, acc, u, d)
      /\ DataQueue(data, InHand(u, d), acc, lo + w.window_size)
      /\ ProbeQueue(data, InOrder(u, d))
      /\ Acks(acks, lo, InOrder(u, d), lo + w.window_size, d + RECEIVER_MSG_BUFFER)

\* The sender has let go of the first lo of acc messages and holds the others.
Linked(w, t, acc, u, dlv, data, acks) ==
  \E n \in 0..SENDER_MSG_BUFFER, lo \in 0..acc :
    acc = lo + n /\ LinkedBy(lo, n, w, t, acc, u, dlv, data, acks)

\* The messages from s to its peer, wherever they are or count.
Link(s) == Linked(send_window[s], persistence_timer[s], accepted[s],
                  recv_window[Peer[s]], delivered[Peer[s]], udp[Peer[s]], udp[s])

LinkOK == \A s \in Socks : Link(s)

-----------------------------------------------------------------------------
(* Queues: what R takes off the head of one and what is sent to its end.   *)

LEMMA BufferFacts == /\ RECEIVER_MSG_BUFFER \in Nat \ {0} /\ SENDER_MSG_BUFFER \in Nat \ {0}
                     /\ MaxSeq \in Nat \ {0} /\ 2 * RECEIVER_MSG_BUFFER <= MaxSeq
                     /\ RECEIVER_MSG_BUFFER <= SENDER_MSG_BUFFER /\ SENDER_MSG_BUFFER <= MaxSeq
BY BufferAssumption, SMT

\* Without its head a queue is what followed the head.
LEMMA HeadGone ==
  ASSUME NEW q \in Seq(Datagram), 1 \in DOMAIN q
  PROVE  /\ RemoveAt(q, 1) \in Seq(Datagram)
         /\ Len(q) \in Nat \ {0} /\ DOMAIN q = 1..Len(q)
         /\ DOMAIN RemoveAt(q, 1) = 1..(Len(q) - 1)
         /\ \A i \in DOMAIN RemoveAt(q, 1) : i + 1 \in DOMAIN q /\ RemoveAt(q, 1)[i] = q[i + 1]
<1>1. Len(q) \in Nat \ {0} /\ DOMAIN q = 1..Len(q)
  BY LenProperties, SMT
<1>2. SubSeq(q, 1, 0) = << >> /\ Len(SubSeq(q, 1, 0)) = 0 /\ SubSeq(q, 1, 0) \in Seq(Datagram)
  BY SubSeqProperties, SMT
<1>3. /\ SubSeq(q, 2, Len(q)) \in Seq(Datagram) /\ Len(SubSeq(q, 2, Len(q))) = Len(q) - 1
      /\ \A i \in 1..(Len(q) - 1) : SubSeq(q, 2, Len(q))[i] = q[i + 1]
  BY <1>1, SubSeqProperties, SMT
<1>4. RemoveAt(q, 1) = SubSeq(q, 1, 0) \o SubSeq(q, 2, Len(q))
  <2>1. 1 - 1 = 0 /\ 1 + 1 = 2
    BY SMT
  <2> QED BY <2>1, Zenon DEF RemoveAt
<1>5. RemoveAt(q, 1) = SubSeq(q, 2, Len(q))
  BY <1>2, <1>3, <1>4, ConcatEmptySeq
<1>6. DOMAIN RemoveAt(q, 1) = 1..(Len(q) - 1)
  BY <1>3, <1>5, LenProperties
<1>7. \A i \in 1..(Len(q) - 1) : i + 1 \in 1..Len(q)
  BY <1>1, SMT
<1> QED BY <1>1, <1>3, <1>5, <1>6, <1>7

\* What is sent comes after what was queued, as far as there is room.
LEMMA ArriveFifo ==
  ASSUME NEW q \in Seq(Datagram), NEW ds \in Seq(Datagram)
  PROVE  /\ Arrive(q, ds) \in Seq(Datagram)
         /\ Len(q) \in Nat /\ DOMAIN q = 1..Len(q) /\ Len(ds) \in Nat /\ DOMAIN ds = 1..Len(ds)
         /\ \E n \in Nat : DOMAIN Arrive(q, ds) = 1..n
         /\ \A i \in DOMAIN Arrive(q, ds) :
              /\ i <= Len(q) => i \in DOMAIN q /\ Arrive(q, ds)[i] = q[i]
              /\ ~(i <= Len(q)) => i - Len(q) \in DOMAIN ds /\ Arrive(q, ds)[i] = ds[i - Len(q)]
<1> DEFINE p == q \o ds
<1>1. /\ Len(q) \in Nat /\ DOMAIN q = 1..Len(q) /\ Len(ds) \in Nat /\ DOMAIN ds = 1..Len(ds)
      /\ RcvBuf \in Nat \ {0}
  BY LenProperties, BoundAssumption
<1>2. /\ p \in Seq(Datagram) /\ Len(p) = Len(q) + Len(ds) /\ DOMAIN p = 1..(Len(q) + Len(ds))
      /\ \A i \in DOMAIN p : /\ i <= Len(q) => p[i] = q[i]
                             /\ ~(i <= Len(q)) => p[i] = ds[i - Len(q)]
  BY <1>1, ConcatProperties, LenProperties, SMT
<1>3. /\ Arrive(q, ds) \in Seq(Datagram)
      /\ \E n \in Nat : n <= Len(p) /\ DOMAIN Arrive(q, ds) = 1..n
      /\ \A i \in DOMAIN Arrive(q, ds) : Arrive(q, ds)[i] = p[i]
  <2>1. CASE Len(p) <= RcvBuf
    BY <1>1, <1>2, <2>1 DEF Arrive
  <2>2. CASE ~(Len(p) <= RcvBuf)
    <3>1. Arrive(q, ds) = SubSeq(p, 1, RcvBuf)
      BY <2>2 DEF Arrive
    <3>2. \A i \in 1..RcvBuf : p[i] \in Datagram
      BY <1>1, <1>2, <2>2, ElementOfSeq, SMT
    <3>3. /\ SubSeq(p, 1, RcvBuf) \in Seq(Datagram) /\ Len(SubSeq(p, 1, RcvBuf)) = RcvBuf
          /\ \A i \in 1..RcvBuf : SubSeq(p, 1, RcvBuf)[i] = p[i]
      BY <1>1, <1>2, <2>2, <3>2, SubSeqProperties, SMT
    <3>4. DOMAIN SubSeq(p, 1, RcvBuf) = 1..RcvBuf /\ RcvBuf <= Len(p) /\ RcvBuf \in Nat
      BY <1>1, <1>2, <2>2, <3>3, LenProperties, SMT
    <3> QED BY <3>1, <3>3, <3>4
  <2> QED BY <2>1, <2>2
<1> HIDE DEF p
<1>4. PICK n \in Nat : n <= Len(p) /\ DOMAIN Arrive(q, ds) = 1..n
  BY <1>3
<1>5. ASSUME NEW i \in DOMAIN Arrive(q, ds)
      PROVE  /\ i <= Len(q) => i \in DOMAIN q /\ Arrive(q, ds)[i] = q[i]
             /\ ~(i <= Len(q)) => i - Len(q) \in DOMAIN ds /\ Arrive(q, ds)[i] = ds[i - Len(q)]
  <2>1. i \in 1..n /\ i \in DOMAIN p /\ Arrive(q, ds)[i] = p[i]
    BY <1>1, <1>2, <1>3, <1>4, SMT
  <2> QED BY <1>1, <1>2, <2>1, SMT
<1> QED BY <1>1, <1>3, <1>4, <1>5

LEMMA DataWeaker ==
  ASSUME NEW q, NEW hand, NEW more, NEW acc \in Nat, NEW acc2 \in Nat, NEW edge \in Nat, NEW edge2 \in Nat,
         q \in Seq(Datagram), DataQueue(q, more, acc, edge), hand \subseteq more, acc <= acc2, edge <= edge2
  PROVE  DataQueue(q, hand, acc2, edge2)
<1> SUFFICES ASSUME NEW i \in DOMAIN q, q[i].type = "D"
             PROVE  q[i].body \in 1..acc2 /\ q[i].body <= edge2
  BY DEF DataQueue
<1>1. q[i].body \in 1..acc /\ q[i].body <= edge
  BY DEF DataQueue
<1> QED BY <1>1, SMT

\* A DATA datagram in hand takes its place among the messages in hand.
LEMMA DataHeadGone ==
  ASSUME NEW q \in Seq(Datagram), 1 \in DOMAIN q, NEW hand, NEW more, NEW acc \in Nat, NEW edge \in Nat,
         DataQueue(q, hand, acc, edge), \A m \in more : m \in hand \/ (q[1].type = "D" /\ m = q[1].body)
  PROVE  DataQueue(RemoveAt(q, 1), more, acc, edge)
<1> DEFINE p == RemoveAt(q, 1)
<1>1. /\ Len(q) \in Nat \ {0} /\ DOMAIN q = 1..Len(q) /\ DOMAIN p = 1..(Len(q) - 1)
      /\ \A i \in DOMAIN p : i + 1 \in DOMAIN q /\ p[i] = q[i + 1]
  BY HeadGone
<1> HIDE DEF p
<1> SUFFICES ASSUME NEW i \in DOMAIN p, p[i].type = "D"
             PROVE  /\ p[i].body \in 1..acc /\ p[i].body <= edge /\ p[i].seq_no = Number(p[i].body)
                    /\ \A m \in more : m < p[i].body + RECEIVER_MSG_BUFFER
                    /\ \A j \in 1..(i - 1) : p[j].type = "D" => p[j].body < p[i].body + RECEIVER_MSG_BUFFER
  BY DEF DataQueue, p
<1>2. i + 1 \in DOMAIN q /\ p[i] = q[i + 1] /\ 1 \in 1..((i + 1) - 1) /\ i \in Nat
  BY <1>1, SMT
<1>3. /\ q[i + 1].body \in 1..acc /\ q[i + 1].body <= edge /\ q[i + 1].seq_no = Number(q[i + 1].body)
      /\ \A m \in hand : m < q[i + 1].body + RECEIVER_MSG_BUFFER
      /\ \A j \in 1..((i + 1) - 1) : q[j].type = "D" => q[j].body < q[i + 1].body + RECEIVER_MSG_BUFFER
  BY <1>2 DEF DataQueue
<1>4. ASSUME NEW j \in 1..(i - 1) PROVE p[j] = q[j + 1] /\ j + 1 \in 1..((i + 1) - 1)
  BY <1>1, <1>2, SMT
<1> QED BY <1>2, <1>3, <1>4

\* Datagrams of another kind change nothing.
LEMMA DataOthers ==
  ASSUME NEW q \in Seq(Datagram), NEW ds \in Seq(Datagram), NEW hand, NEW acc \in Nat, NEW edge \in Nat,
         DataQueue(q, hand, acc, edge), \A i \in DOMAIN ds : ds[i].type # "D"
  PROVE  DataQueue(Arrive(q, ds), hand, acc, edge)
<1> DEFINE p == Arrive(q, ds)
<1>1. /\ Len(q) \in Nat /\ DOMAIN q = 1..Len(q) /\ \E n \in Nat : DOMAIN p = 1..n
      /\ \A i \in DOMAIN p : /\ i <= Len(q) => i \in DOMAIN q /\ p[i] = q[i]
                             /\ ~(i <= Len(q)) => i - Len(q) \in DOMAIN ds /\ p[i] = ds[i - Len(q)]
  BY ArriveFifo
<1> HIDE DEF p
<1> SUFFICES ASSUME NEW i \in DOMAIN p, p[i].type = "D"
             PROVE  /\ p[i].body \in 1..acc /\ p[i].body <= edge /\ p[i].seq_no = Number(p[i].body)
                    /\ \A m \in hand : m < p[i].body + RECEIVER_MSG_BUFFER
                    /\ \A j \in 1..(i - 1) : p[j].type = "D" => p[j].body < p[i].body + RECEIVER_MSG_BUFFER
  BY DEF DataQueue, p
<1>2. i <= Len(q) /\ i \in DOMAIN q /\ p[i] = q[i] /\ i \in Nat
  BY <1>1
<1>3. ASSUME NEW j \in 1..(i - 1) PROVE p[j] = q[j]
  <2>1. j \in DOMAIN p /\ j <= Len(q)
    BY <1>1, <1>2, SMT
  <2> QED BY <1>1, <2>1
<1> QED BY <1>2, <1>3 DEF DataQueue

\* New messages of the window, sent behind everything that was sent before:
\* all of it lies below edge, the end of the window that starts after lo.
LEMMA DataSent ==
  ASSUME NEW q \in Seq(Datagram), NEW ds \in Seq(Datagram), NEW hand, NEW acc \in Nat, NEW edge \in Nat,
         NEW lo \in Nat, DataQueue(q, hand, acc, edge), edge <= lo + RECEIVER_MSG_BUFFER,
         \A m \in hand : m \in Nat /\ m <= edge,
         \A i \in DOMAIN ds : /\ ds[i].body \in 1..acc /\ ds[i].body <= edge /\ lo < ds[i].body
                              /\ ds[i].seq_no = Number(ds[i].body)
  PROVE  DataQueue(Arrive(q, ds), hand, acc, edge)
<1> DEFINE p == Arrive(q, ds)
<1>1. /\ Len(q) \in Nat /\ DOMAIN q = 1..Len(q) /\ \E n \in Nat : DOMAIN p = 1..n
      /\ \A i \in DOMAIN p : /\ i <= Len(q) => i \in DOMAIN q /\ p[i] = q[i]
                             /\ ~(i <= Len(q)) => i - Len(q) \in DOMAIN ds /\ p[i] = ds[i - Len(q)]
  BY ArriveFifo
<1> HIDE DEF p
<1>2. ASSUME NEW j \in DOMAIN p, p[j].type = "D"
      PROVE  p[j].body \in 1..acc /\ p[j].body <= edge /\ p[j].seq_no = Number(p[j].body)
  BY <1>1, <1>2 DEF DataQueue
<1> SUFFICES ASSUME NEW i \in DOMAIN p, p[i].type = "D"
             PROVE  /\ \A m \in hand : m < p[i].body + RECEIVER_MSG_BUFFER
                    /\ \A j \in 1..(i - 1) : p[j].type = "D" => p[j].body < p[i].body + RECEIVER_MSG_BUFFER
  BY <1>2 DEF DataQueue, p
<1>3. \A j \in 1..(i - 1) : j \in DOMAIN p
  BY <1>1, SMT
<1>4. CASE i <= Len(q)
  <2>1. i \in DOMAIN q /\ p[i] = q[i] /\ i \in Nat /\ \A j \in 1..(i - 1) : j <= Len(q)
    BY <1>1, <1>4, SMT
  <2>2. \A j \in 1..(i - 1) : p[j] = q[j]
    BY <1>1, <1>3, <2>1
  <2> QED BY <2>1, <2>2 DEF DataQueue
<1>5. CASE ~(i <= Len(q))
  <2>1. p[i].body \in 1..acc /\ lo < p[i].body
    BY <1>1, <1>5
  <2>2. edge < p[i].body + RECEIVER_MSG_BUFFER /\ p[i].body + RECEIVER_MSG_BUFFER \in Nat
    BY <2>1, BufferFacts, SMT
  <2>3. \A m \in hand : m < p[i].body + RECEIVER_MSG_BUFFER
    BY <2>2, SMT
  <2>4. ASSUME NEW j \in 1..(i - 1), p[j].type = "D" PROVE p[j].body < p[i].body + RECEIVER_MSG_BUFFER
    <3>1. p[j].body \in 1..acc /\ p[j].body <= edge
      BY <1>2, <1>3, <2>4
    <3> QED BY <2>2, <3>1, SMT
  <2> QED BY <2>3, <2>4
<1> QED BY <1>4, <1>5

LEMMA ProbeHeadGone ==
  ASSUME NEW q \in Seq(Datagram), 1 \in DOMAIN q, NEW last \in Nat, ProbeQueue(q, last)
  PROVE  ProbeQueue(RemoveAt(q, 1), last)
<1> DEFINE p == RemoveAt(q, 1)
<1>1. /\ Len(q) \in Nat \ {0} /\ DOMAIN q = 1..Len(q) /\ DOMAIN p = 1..(Len(q) - 1)
      /\ \A i \in DOMAIN p : i + 1 \in DOMAIN q /\ p[i] = q[i + 1]
  BY HeadGone
<1> HIDE DEF p
<1> SUFFICES ASSUME NEW i \in DOMAIN p, p[i].type = "P"
             PROVE  /\ p[i].seq_no = Number(last)
                    /\ \A j \in 1..(i - 1) : p[j].type = "D" => p[j].body <= last
  BY DEF ProbeQueue, p
<1>2. i + 1 \in DOMAIN q /\ p[i] = q[i + 1] /\ i \in Nat
  BY <1>1, SMT
<1>3. ASSUME NEW j \in 1..(i - 1) PROVE p[j] = q[j + 1] /\ j + 1 \in 1..((i + 1) - 1)
  BY <1>1, <1>2, SMT
<1> QED BY <1>2, <1>3 DEF ProbeQueue

\* The next message is never ahead of a probe: when it was sent the window
\* was open, and when a probe is sent nothing is on the way.
LEMMA NoProbeBehindNext ==
  ASSUME NEW q \in Seq(Datagram), 1 \in DOMAIN q, NEW last \in Nat, ProbeQueue(q, last),
         q[1].type = "D", q[1].body \in Nat, q[1].body > last, NEW any
  PROVE  ProbeQueue(RemoveAt(q, 1), any)
<1> DEFINE p == RemoveAt(q, 1)
<1>1. /\ Len(q) \in Nat \ {0} /\ DOMAIN q = 1..Len(q) /\ DOMAIN p = 1..(Len(q) - 1)
      /\ \A i \in DOMAIN p : i + 1 \in DOMAIN q /\ p[i] = q[i + 1]
  BY HeadGone
<1> HIDE DEF p
<1> SUFFICES ASSUME NEW i \in DOMAIN p, p[i].type = "P" PROVE FALSE
  BY DEF ProbeQueue, p
<1>2. i + 1 \in DOMAIN q /\ q[i + 1].type = "P" /\ 1 \in 1..((i + 1) - 1)
  BY <1>1, SMT
<1>3. q[1].body <= last
  BY <1>2 DEF ProbeQueue
<1> QED BY <1>3, SMT

LEMMA ProbeOthers ==
  ASSUME NEW q \in Seq(Datagram), NEW ds \in Seq(Datagram), NEW last \in Nat,
         ProbeQueue(q, last), \A i \in DOMAIN ds : ds[i].type # "P"
  PROVE  ProbeQueue(Arrive(q, ds), last)
<1> DEFINE p == Arrive(q, ds)
<1>1. /\ Len(q) \in Nat /\ DOMAIN q = 1..Len(q) /\ \E n \in Nat : DOMAIN p = 1..n
      /\ \A i \in DOMAIN p : /\ i <= Len(q) => i \in DOMAIN q /\ p[i] = q[i]
                             /\ ~(i <= Len(q)) => i - Len(q) \in DOMAIN ds /\ p[i] = ds[i - Len(q)]
  BY ArriveFifo
<1> HIDE DEF p
<1> SUFFICES ASSUME NEW i \in DOMAIN p, p[i].type = "P"
             PROVE  /\ p[i].seq_no = Number(last)
                    /\ \A j \in 1..(i - 1) : p[j].type = "D" => p[j].body <= last
  BY DEF ProbeQueue, p
<1>2. i <= Len(q) /\ i \in DOMAIN q /\ p[i] = q[i] /\ i \in Nat
  BY <1>1
<1>3. ASSUME NEW j \in 1..(i - 1) PROVE p[j] = q[j]
  <2>1. j \in DOMAIN p /\ j <= Len(q)
    BY <1>1, <1>2, SMT
  <2> QED BY <1>1, <2>1
<1> QED BY <1>2, <1>3 DEF ProbeQueue

\* A probe sent when no DATA on the way is beyond last.
LEMMA ProbeSent ==
  ASSUME NEW q \in Seq(Datagram), NEW last \in Nat, ProbeQueue(q, last),
         \A i \in DOMAIN q : q[i].type = "D" => q[i].body <= last
  PROVE  ProbeQueue(Arrive(q, <<Probe(Number(last))>>), last)
<1> DEFINE ds == <<Probe(Number(last))>>
           p == Arrive(q, ds)
<1>1. ds \in Seq(Datagram) /\ \A i \in DOMAIN ds : ds[i] = Probe(Number(last))
  <2>1. Probe(Number(last)) \in Datagram
    BY NumberType, BufferFacts, SMT DEF Probe, Datagram, SeqNo
  <2> QED BY <2>1, OneDatagram
<1> HIDE DEF ds
<1>2. /\ Len(q) \in Nat /\ DOMAIN q = 1..Len(q) /\ \E n \in Nat : DOMAIN p = 1..n
      /\ \A i \in DOMAIN p : /\ i <= Len(q) => i \in DOMAIN q /\ p[i] = q[i]
                             /\ ~(i <= Len(q)) => i - Len(q) \in DOMAIN ds /\ p[i] = ds[i - Len(q)]
  BY <1>1, ArriveFifo
<1> HIDE DEF p
<1>3. \A i \in DOMAIN p : p[i].type = "D" => p[i].body <= last
  BY <1>1, <1>2 DEF Probe
<1>4. \A i \in DOMAIN p : p[i].type = "P" => p[i].seq_no = Number(last)
  BY <1>1, <1>2 DEF Probe, ProbeQueue
<1>5. \A i \in DOMAIN p : \A j \in 1..(i - 1) : j \in DOMAIN p
  BY <1>2, SMT
<1> QED BY <1>3, <1>4, <1>5 DEF ProbeQueue, p, ds

-----------------------------------------------------------------------------
(* The acknowledgements on the way back.                                   *)

LEMMA AcksWeaker ==
  ASSUME NEW q, NEW lo \in Nat, NEW last \in Nat, NEW last2 \in Nat, NEW edge \in Nat,
         NEW top \in Nat, NEW top2 \in Nat,
         Acks(q, lo, last, edge, top), last <= last2, top <= top2
  PROVE  Acks(q, lo, last2, edge, top2)
<1>1. PICK ord \in [DOMAIN q -> 0..last] : AckQueue(q, ord, lo, last, edge, top)
  BY DEF Acks
<1>2. 0..last \subseteq 0..last2 /\ lo..last \subseteq lo..last2 /\ edge..top \subseteq edge..top2
  BY SMT
<1>3. ord \in [DOMAIN q -> 0..last2]
  BY <1>2
<1>4. AckQueue(q, ord, lo, last2, edge, top2)
  BY <1>1, <1>2 DEF AckQueue
<1> QED BY <1>3, <1>4 DEF Acks

LEMMA AcksHeadGone ==
  ASSUME NEW q \in Seq(Datagram), 1 \in DOMAIN q, NEW lo \in Nat, NEW last \in Nat, NEW edge \in Nat,
         NEW top \in Nat, Acks(q, lo, last, edge, top)
  PROVE  Acks(RemoveAt(q, 1), lo, last, edge, top)
<1> DEFINE p == RemoveAt(q, 1)
<1>1. PICK ord \in [DOMAIN q -> 0..last] : AckQueue(q, ord, lo, last, edge, top)
  BY DEF Acks
<1>2. /\ Len(q) \in Nat \ {0} /\ DOMAIN q = 1..Len(q) /\ DOMAIN p = 1..(Len(q) - 1)
      /\ \A i \in DOMAIN p : i + 1 \in DOMAIN q /\ p[i] = q[i + 1]
  BY HeadGone
<1> HIDE DEF p
<1> DEFINE rest == [i \in DOMAIN p |-> ord[i + 1]]
<1>3. rest \in [DOMAIN p -> 0..last] /\ \A i \in DOMAIN p : rest[i] = ord[i + 1]
  BY <1>2
<1> HIDE DEF rest
<1>4. ASSUME NEW i \in DOMAIN p, p[i].type = "A"
      PROVE  /\ p[i].seq_no = Number(rest[i]) /\ p[i].body <= RECEIVER_MSG_BUFFER
             /\ rest[i] \in lo..last /\ rest[i] + p[i].body \in edge..top
             /\ \A j \in 1..(i - 1) : p[j].type = "A" =>
                  rest[j] <= rest[i] /\ rest[j] + p[j].body <= rest[i] + p[i].body
  <2>1. i + 1 \in DOMAIN q /\ p[i] = q[i + 1] /\ rest[i] = ord[i + 1]
    BY <1>2, <1>3
  <2>2. ASSUME NEW j \in 1..(i - 1)
        PROVE  p[j] = q[j + 1] /\ rest[j] = ord[j + 1] /\ j + 1 \in 1..((i + 1) - 1)
    <3>1. j \in DOMAIN p /\ j + 1 \in 1..((i + 1) - 1)
      BY <1>2, SMT
    <3> QED BY <1>2, <1>3, <3>1
  <2> QED BY <1>1, <1>4, <2>1, <2>2 DEF AckQueue
<1>5. AckQueue(p, rest, lo, last, edge, top)
  BY <1>4 DEF AckQueue
<1> QED BY <1>3, <1>5 DEF Acks, p

LEMMA AcksOthers ==
  ASSUME NEW q \in Seq(Datagram), NEW ds \in Seq(Datagram), NEW lo \in Nat, NEW last \in Nat, NEW edge \in Nat,
         NEW top \in Nat, Acks(q, lo, last, edge, top), \A i \in DOMAIN ds : ds[i].type # "A"
  PROVE  Acks(Arrive(q, ds), lo, last, edge, top)
<1> DEFINE p == Arrive(q, ds)
<1>1. PICK ord \in [DOMAIN q -> 0..last] : AckQueue(q, ord, lo, last, edge, top)
  BY DEF Acks
<1>2. /\ Len(q) \in Nat /\ DOMAIN q = 1..Len(q) /\ \E n \in Nat : DOMAIN p = 1..n
      /\ \A i \in DOMAIN p : /\ i <= Len(q) => i \in DOMAIN q /\ p[i] = q[i]
                             /\ ~(i <= Len(q)) => i - Len(q) \in DOMAIN ds /\ p[i] = ds[i - Len(q)]
  BY ArriveFifo
<1> HIDE DEF p
<1> DEFINE more == [i \in DOMAIN p |-> IF i <= Len(q) THEN ord[i] ELSE 0]
<1>3. /\ more \in [DOMAIN p -> 0..last]
      /\ \A i \in DOMAIN p : i <= Len(q) => more[i] = ord[i]
  <2>1. 0 \in 0..last
    BY SMT
  <2> QED BY <1>2, <2>1
<1> HIDE DEF more
<1>4. ASSUME NEW i \in DOMAIN p, p[i].type = "A"
      PROVE  /\ p[i].seq_no = Number(more[i]) /\ p[i].body <= RECEIVER_MSG_BUFFER
             /\ more[i] \in lo..last /\ more[i] + p[i].body \in edge..top
             /\ \A j \in 1..(i - 1) : p[j].type = "A" =>
                  more[j] <= more[i] /\ more[j] + p[j].body <= more[i] + p[i].body
  <2>1. i <= Len(q) /\ i \in DOMAIN q /\ p[i] = q[i] /\ more[i] = ord[i]
    BY <1>2, <1>3, <1>4
  <2>2. ASSUME NEW j \in 1..(i - 1) PROVE p[j] = q[j] /\ more[j] = ord[j]
    <3>1. j \in DOMAIN p /\ j <= Len(q)
      BY <1>2, <2>1, SMT
    <3> QED BY <1>2, <1>3, <3>1
  <2> QED BY <1>1, <1>4, <2>1, <2>2 DEF AckQueue
<1>5. AckQueue(p, more, lo, last, edge, top)
  BY <1>4 DEF AckQueue
<1> QED BY <1>3, <1>5 DEF Acks, p

\* An ACK that is sent says exactly what the receiver has in order and how
\* far its buffer reaches, which is no less than any ACK before it said.
LEMMA AcksSent ==
  ASSUME NEW q \in Seq(Datagram), NEW lo \in Nat, NEW last \in Nat, NEW edge \in Nat, NEW size \in Nat,
         Acks(q, lo, last, edge, last + size), lo <= last, edge <= last + size, size <= RECEIVER_MSG_BUFFER
  PROVE  Acks(Arrive(q, <<Ack(Number(last), size)>>), lo, last, edge, last + size)
<1> DEFINE ds == <<Ack(Number(last), size)>>
           p == Arrive(q, ds)
           top == last + size
<1>1. PICK ord \in [DOMAIN q -> 0..last] : AckQueue(q, ord, lo, last, edge, top)
  BY DEF Acks
<1>2. ds \in Seq(Datagram) /\ \A i \in DOMAIN ds : ds[i] = Ack(Number(last), size)
  <2>1. Ack(Number(last), size) \in Datagram
    BY NumberType, BufferFacts, SMT DEF Ack, Datagram, SeqNo
  <2> QED BY <2>1, OneDatagram
<1> HIDE DEF ds
<1>3. /\ Len(q) \in Nat /\ DOMAIN q = 1..Len(q) /\ \E n \in Nat : DOMAIN p = 1..n
      /\ \A i \in DOMAIN p : /\ i <= Len(q) => i \in DOMAIN q /\ p[i] = q[i]
                             /\ ~(i <= Len(q)) => i - Len(q) \in DOMAIN ds /\ p[i] = ds[i - Len(q)]
  BY <1>2, ArriveFifo
<1>4. ds \in Seq(Datagram) /\ Len(ds) = 1
  BY <1>2 DEF ds
<1>5. \A i \in DOMAIN p : ~(i <= Len(q)) => i = Len(q) + 1 /\ p[i] = Ack(Number(last), size)
  <2>1. DOMAIN ds = 1..1
    BY <1>4, LenProperties
  <2> QED BY <1>2, <1>3, <2>1, SMT
<1> HIDE DEF p
<1> DEFINE more == [i \in DOMAIN p |-> IF i <= Len(q) THEN ord[i] ELSE last]
<1>6. /\ more \in [DOMAIN p -> 0..last]
      /\ \A i \in DOMAIN p : more[i] = IF i <= Len(q) THEN ord[i] ELSE last
  <2>1. last \in 0..last
    BY SMT
  <2> QED BY <1>3, <2>1
<1> HIDE DEF more
<1>7. ASSUME NEW i \in DOMAIN p, p[i].type = "A"
      PROVE  /\ p[i].seq_no = Number(more[i]) /\ p[i].body <= RECEIVER_MSG_BUFFER
             /\ more[i] \in lo..last /\ more[i] + p[i].body \in edge..top
  <2>1. CASE i <= Len(q)
    BY <1>1, <1>3, <1>6, <1>7, <2>1 DEF AckQueue
  <2>2. CASE ~(i <= Len(q))
    <3>1. more[i] = last /\ p[i].body = size /\ p[i].seq_no = Number(last)
      BY <1>5, <1>6, <2>2 DEF Ack
    <3>2. last \in lo..last /\ last + size \in edge..top
      BY SMT
    <3> QED BY <3>1, <3>2
  <2> QED BY <2>1, <2>2
<1>8. ASSUME NEW i \in DOMAIN p, p[i].type = "A", NEW j \in 1..(i - 1), p[j].type = "A"
      PROVE  more[j] <= more[i] /\ more[j] + p[j].body <= more[i] + p[i].body
  <2>1. j \in DOMAIN p /\ j \in Nat /\ i \in Nat /\ j < i
    BY <1>3, SMT
  <2>2. CASE i <= Len(q)
    <3>1. j <= Len(q)
      BY <1>3, <2>1, <2>2, SMT
    <3> QED BY <1>1, <1>3, <1>6, <1>8, <2>1, <2>2, <3>1 DEF AckQueue
  <2>3. CASE ~(i <= Len(q))
    <3>1. more[i] = last /\ p[i].body = size
      BY <1>5, <1>6, <2>3 DEF Ack
    <3>2. more[j] \in lo..last /\ more[j] + p[j].body \in edge..top
      BY <1>7, <1>8, <2>1
    <3> QED BY <3>1, <3>2, SMT
  <2> QED BY <2>2, <2>3
<1>9. AckQueue(p, more, lo, last, edge, top)
  BY <1>7, <1>8 DEF AckQueue
<1> QED BY <1>6, <1>9 DEF Acks, p, ds

\* The ACK at the head, and what it leaves of the others: none goes back
\* behind it.
LEMMA AcksFirst ==
  ASSUME NEW q \in Seq(Datagram), 1 \in DOMAIN q, q[1].type = "A", NEW lo \in Nat, NEW last \in Nat,
         NEW edge \in Nat, NEW top \in Nat, Acks(q, lo, last, edge, top)
  PROVE  \E m \in lo..last :
           /\ q[1].seq_no = Number(m) /\ q[1].body \in 0..RECEIVER_MSG_BUFFER
           /\ m + q[1].body \in edge..top
           /\ Acks(RemoveAt(q, 1), m, last, m + q[1].body, top)
<1> DEFINE p == RemoveAt(q, 1)
<1>1. PICK ord \in [DOMAIN q -> 0..last] : AckQueue(q, ord, lo, last, edge, top)
  BY DEF Acks
<1>2. /\ Len(q) \in Nat \ {0} /\ DOMAIN q = 1..Len(q) /\ DOMAIN p = 1..(Len(q) - 1)
      /\ \A i \in DOMAIN p : i + 1 \in DOMAIN q /\ p[i] = q[i + 1]
  BY HeadGone
<1> HIDE DEF p
<1>3. /\ q[1].seq_no = Number(ord[1]) /\ q[1].body \in 0..RECEIVER_MSG_BUFFER
      /\ ord[1] \in lo..last /\ ord[1] + q[1].body \in edge..top
  <2>1. q[1] \in Datagram
    BY ElementOfSeq, <1>2
  <2>2. q[1].body \in Nat
    BY <2>1 DEF Datagram
  <2> QED BY <1>1, <2>2, BufferFacts, SMT DEF AckQueue
<1> DEFINE rest == [i \in DOMAIN p |-> ord[i + 1]]
<1>4. rest \in [DOMAIN p -> 0..last] /\ \A i \in DOMAIN p : rest[i] = ord[i + 1]
  BY <1>2
<1> HIDE DEF rest
<1>5. ASSUME NEW i \in DOMAIN p, p[i].type = "A"
      PROVE  /\ p[i].seq_no = Number(rest[i]) /\ p[i].body <= RECEIVER_MSG_BUFFER
             /\ rest[i] \in ord[1]..last /\ rest[i] + p[i].body \in (ord[1] + q[1].body)..top
             /\ \A j \in 1..(i - 1) : p[j].type = "A" =>
                  rest[j] <= rest[i] /\ rest[j] + p[j].body <= rest[i] + p[i].body
  <2>1. /\ i + 1 \in DOMAIN q /\ p[i] = q[i + 1] /\ rest[i] = ord[i + 1]
        /\ 1 \in 1..((i + 1) - 1)
    BY <1>2, <1>4, SMT
  <2>2. ASSUME NEW j \in 1..(i - 1)
        PROVE  p[j] = q[j + 1] /\ rest[j] = ord[j + 1] /\ j + 1 \in 1..((i + 1) - 1)
    <3>1. j \in DOMAIN p /\ j + 1 \in 1..((i + 1) - 1)
      BY <1>2, SMT
    <3> QED BY <1>2, <1>4, <3>1
  <2>3. /\ q[i + 1].seq_no = Number(ord[i + 1]) /\ q[i + 1].body <= RECEIVER_MSG_BUFFER
        /\ ord[i + 1] \in lo..last /\ ord[i + 1] + q[i + 1].body \in edge..top
        /\ \A j \in 1..((i + 1) - 1) : q[j].type = "A" =>
             ord[j] <= ord[i + 1] /\ ord[j] + q[j].body <= ord[i + 1] + q[i + 1].body
    BY <1>1, <1>5, <2>1 DEF AckQueue
  <2>4. ord[1] <= ord[i + 1] /\ ord[1] + q[1].body <= ord[i + 1] + q[i + 1].body
    BY <2>1, <2>3
  <2>5. ord[i + 1] \in ord[1]..last /\ ord[i + 1] + q[i + 1].body \in (ord[1] + q[1].body)..top
    BY <1>3, <2>3, <2>4, SMT
  <2> QED BY <2>1, <2>2, <2>3, <2>5
<1>6. AckQueue(p, rest, ord[1], last, ord[1] + q[1].body, top)
  BY <1>5 DEF AckQueue
<1> QED BY <1>3, <1>4, <1>6 DEF Acks, p

-----------------------------------------------------------------------------
(* The send window.                                                        *)

LEMMA NumberUsed ==
  ASSUME NEW m \in Nat
  PROVE  Number(m) # FREE /\ Number(m) \in 0..MaxSeq
<1>1. Number(m) \in 1..MaxSeq /\ MaxSeq \in Nat
  BY NumberType, BufferFacts DEF SeqNo
<1> QED BY <1>1, SMT DEF FREE

\* The slots of w that are in use; they are those of the n messages.
Held(w) == Cardinality({i \in SendIndex : w.send_buff[i].ack_no # FREE})

LEMMA HeldIs ==
  ASSUME NEW w \in SendWindow, NEW n \in 0..SENDER_MSG_BUFFER,
         \A k \in SendIndex : w.send_buff[SendSlot(w, k)].ack_no # FREE <=> k < n
  PROVE  Held(w) = n
<1> DEFINE N == SENDER_MSG_BUFFER
           x == w.window_start_index
           S == {i \in SendIndex : w.send_buff[i].ack_no # FREE}
           f == [k \in 1..n |-> SendSlot(w, k - 1)]
<1>1. /\ N \in Nat \ {0} /\ x \in 0..(N - 1) /\ SendIndex = 0..(N - 1) /\ n \in Nat
      /\ \A k \in SendIndex : SendSlot(w, k) \in SendIndex
      /\ \A j, k \in SendIndex : SendSlot(w, j) = SendSlot(w, k) => j = k
  BY SendFields, SMT DEF SendIndex
<1>2. \A k \in 1..n : k - 1 \in SendIndex /\ k - 1 < n
  BY <1>1, SMT
<1>3. f \in [1..n -> S]
  BY <1>1, <1>2
<1>4. ASSUME NEW j \in 1..n, NEW k \in 1..n, f[j] = f[k] PROVE j = k
  <2>1. j - 1 = k - 1
    BY <1>1, <1>2, <1>4
  <2> QED BY <2>1, SMT
<1>5. ASSUME NEW i \in SendIndex PROVE \E k \in SendIndex : i = SendSlot(w, k)
  <2> DEFINE k == IF i >= x THEN i - x ELSE i - x + N
  <2>1. k \in SendIndex /\ k \in 0..N
    BY <1>1, SMT
  <2>2. SendSlot(w, k) = IF x + k < N THEN x + k ELSE x + k - N
    BY <2>1, SendSlotStep
  <2>3. (IF x + k < N THEN x + k ELSE x + k - N) = i
    <3>1. i \in 0..(N - 1)
      BY <1>1
    <3>2. CASE i >= x
      BY <1>1, <3>1, <3>2, SMT
    <3>3. CASE ~(i >= x)
      BY <1>1, <3>1, <3>3, SMT
    <3> QED BY <3>2, <3>3
  <2> QED BY <2>1, <2>2, <2>3
<1>6. ASSUME NEW i \in S PROVE \E k \in 1..n : f[k] = i
  <2>1. PICK k \in SendIndex : i = SendSlot(w, k)
    BY <1>5
  <2>2. k < n
    BY <2>1
  <2>3. k + 1 \in 1..n /\ (k + 1) - 1 = k
    BY <1>1, <2>2, SMT
  <2>4. f[k + 1] = SendSlot(w, k)
    BY <2>3
  <2> QED BY <2>1, <2>3, <2>4
<1> HIDE DEF f, S
<1>7. f \in Bijection(1..n, S)
  BY <1>3, <1>4, <1>6, Fun_IsBij
<1>8. Cardinality(S) = n
  <2>1. ExistsBijection(1..n, S)
    BY <1>7 DEF ExistsBijection
  <2> QED BY <1>1, <2>1, FS_CountingElements
<1> QED BY <1>8 DEF Held, S

\* What Holds says of the slots.
SlotsHold(w, lo, n) ==
  /\ SeqAdd(w.last_seq_no, 1) = Number(lo + n + 1)
  /\ \A k \in SendIndex :
       /\ k < n => /\ w.send_buff[SendSlot(w, k)].ack_no = Number(lo + k + 1)
                   /\ w.send_buff[SendSlot(w, k)].message = lo + k + 1
                   /\ lo + k + 1 \in Nat
       /\ ~(k < n) => w.send_buff[SendSlot(w, k)].ack_no = FREE
       /\ w.send_buff[SendSlot(w, k)].ack_no # FREE <=> k < n

LEMMA HoldsSlots ==
  ASSUME NEW w, NEW lo \in Nat, NEW n \in Nat, Holds(w, lo, n)
  PROVE  SlotsHold(w, lo, n)
<1>1. \A k \in SendIndex : lo + k + 1 \in Nat
  BY BufferFacts, SMT DEF SendIndex
<1> QED BY <1>1, NumberUsed DEF Holds, SlotsHold

LEMMA HoldsBy ==
  ASSUME NEW w, NEW lo \in Nat, NEW n \in Nat,
         SeqAdd(w.last_seq_no, 1) = Number(lo + n + 1),
         \A k \in SendIndex :
           /\ k < n => /\ w.send_buff[SendSlot(w, k)].ack_no = Number(lo + k + 1)
                       /\ w.send_buff[SendSlot(w, k)].message = lo + k + 1
           /\ ~(k < n) => w.send_buff[SendSlot(w, k)].ack_no = FREE
  PROVE  Holds(w, lo, n)
BY DEF Holds

\* m_sendto numbers a message and puts it behind those the window holds.
LEMMA HoldsEnqueue ==
  ASSUME NEW w \in SendWindow, NEW lo \in Nat, NEW n \in Nat, Holds(w, lo, n),
         NEW k \in SendIndex, w.send_buff[SendSlot(w, k)].ack_no = FREE,
         \A j \in 0..(k - 1) : w.send_buff[SendSlot(w, j)].ack_no # FREE
  PROVE  /\ k = n /\ n + 1 <= SENDER_MSG_BUFFER
         /\ Holds(Enqueue(w, k, lo + n + 1), lo, n + 1)
<1> DEFINE N == SENDER_MSG_BUFFER
           u == Enqueue(w, k, lo + n + 1)
<1>h. SlotsHold(w, lo, n)
  BY HoldsSlots
<1>1. /\ N \in Nat \ {0} /\ k \in 0..(N - 1) /\ SendIndex = 0..(N - 1) /\ lo + n + 1 \in Nat
  BY BufferFacts, SMT DEF SendIndex
<1>2. k = n
  <2>1. ~(k < n)
    BY <1>h DEF SlotsHold
  <2>2. SUFFICES ASSUME k > n PROVE FALSE
    BY <1>1, <2>1, SMT
  <2>3. n \in 0..(k - 1) /\ n \in SendIndex /\ ~(n < n)
    BY <1>1, <2>2, SMT
  <2> QED BY <2>3, <1>h DEF SlotsHold
<1>3. /\ u.last_seq_no = SeqAdd(w.last_seq_no, 1)
      /\ u.window_start_index = w.window_start_index
      /\ u.send_buff[SendSlot(w, k)].ack_no = SeqAdd(w.last_seq_no, 1)
      /\ u.send_buff[SendSlot(w, k)].message = lo + n + 1
      /\ \A j \in SendIndex : j # k => u.send_buff[SendSlot(w, j)] = w.send_buff[SendSlot(w, j)]
  BY SendFields DEF Enqueue, SendWindow
<1> HIDE DEF u
<1>4. \A j : SendSlot(u, j) = SendSlot(w, j)
  BY <1>3 DEF SendSlot
<1>5. SeqAdd(u.last_seq_no, 1) = Number(lo + (n + 1) + 1)
  <2>1. u.last_seq_no = Number(lo + n + 1)
    BY <1>3, <1>h DEF SlotsHold
  <2>2. SeqAdd(Number(lo + n + 1), 1) = Number(lo + n + 1 + 1)
    BY <1>1, NumberAdd
  <2>3. lo + n + 1 + 1 = lo + (n + 1) + 1
    BY SMT
  <2> QED BY <2>1, <2>2, <2>3
<1>6. ASSUME NEW j \in SendIndex, j < n + 1
      PROVE  /\ u.send_buff[SendSlot(u, j)].ack_no = Number(lo + j + 1)
             /\ u.send_buff[SendSlot(u, j)].message = lo + j + 1
  <2>1. CASE j = k
    BY <1>2, <1>3, <1>4, <2>1, <1>h DEF SlotsHold
  <2>2. CASE j # k
    <3>1. j < n
      BY <1>1, <1>2, <1>6, <2>2, SMT
    <3> QED BY <1>3, <1>4, <2>2, <3>1, <1>h DEF SlotsHold
  <2> QED BY <2>1, <2>2
<1>7. ASSUME NEW j \in SendIndex, ~(j < n + 1)
      PROVE  u.send_buff[SendSlot(u, j)].ack_no = FREE
  <2>1. ~(j < n) /\ j # k
    BY <1>1, <1>2, <1>7, SMT
  <2> QED BY <1>3, <1>4, <2>1, <1>h DEF SlotsHold
<1>8. n + 1 \in Nat /\ n + 1 <= N
  BY <1>1, <1>2, SMT
<1>9. Holds(u, lo, n + 1)
  BY <1>5, <1>6, <1>7, <1>8, HoldsBy
<1> QED BY <1>2, <1>8, <1>9 DEF u

\* The window size and the sent marks play no part.
LEMMA HoldsSame ==
  ASSUME NEW w, NEW u, NEW lo \in Nat, NEW n \in Nat, Holds(w, lo, n),
         u.last_seq_no = w.last_seq_no, u.window_start_index = w.window_start_index,
         \A k \in SendIndex : /\ u.send_buff[SendSlot(w, k)].ack_no = w.send_buff[SendSlot(w, k)].ack_no
                              /\ u.send_buff[SendSlot(w, k)].message = w.send_buff[SendSlot(w, k)].message
  PROVE  Holds(u, lo, n)
<1>h. SlotsHold(w, lo, n)
  BY HoldsSlots
<1>1. \A k : SendSlot(u, k) = SendSlot(w, k)
  BY DEF SendSlot
<1> QED BY <1>1, <1>h, HoldsBy DEF SlotsHold

LEMMA HoldsMark ==
  ASSUME NEW w \in SendWindow, NEW lo \in Nat, NEW n \in Nat, Holds(w, lo, n), NEW q
  PROVE  Holds(MarkSent(w, q), lo, n)
<1> DEFINE u == MarkSent(w, q)
<1>1. \A k \in SendIndex : SendSlot(w, k) \in SendIndex
  BY SendFields
<1>2. /\ u.last_seq_no = w.last_seq_no /\ u.window_start_index = w.window_start_index
      /\ \A k \in SendIndex : /\ u.send_buff[SendSlot(w, k)].ack_no = w.send_buff[SendSlot(w, k)].ack_no
                              /\ u.send_buff[SendSlot(w, k)].message = w.send_buff[SendSlot(w, k)].message
  BY <1>1 DEF MarkSent, SendWindow
<1> HIDE DEF u
<1>3. Holds(u, lo, n)
  BY <1>2, HoldsSame
<1> QED BY <1>3 DEF u

LEMMA HoldsSize ==
  ASSUME NEW w \in SendWindow, NEW lo \in Nat, NEW n \in Nat, Holds(w, lo, n), NEW size
  PROVE  Holds([w EXCEPT !.window_size = size], lo, n)
<1> DEFINE u == [w EXCEPT !.window_size = size]
<1>1. /\ u.last_seq_no = w.last_seq_no /\ u.window_start_index = w.window_start_index
      /\ u.send_buff = w.send_buff
  BY DEF SendWindow
<1> HIDE DEF u
<1>2. Holds(u, lo, n)
  BY <1>1, HoldsSame
<1> QED BY <1>2 DEF u

\* The open offsets are those of messages held that the window lets out.
LEMMA OpenHolds ==
  ASSUME NEW w \in SendWindow, NEW lo \in Nat, NEW n \in Nat, Holds(w, lo, n)
  PROVE  \A k \in SendIndex : k \in OpenOffsets(w) <=> k < n /\ k < w.window_size
<1>h. SlotsHold(w, lo, n)
  BY HoldsSlots
<1>1. SENDER_MSG_BUFFER \in Nat \ {0} /\ SendIndex = 0..(SENDER_MSG_BUFFER - 1)
  BY BufferFacts DEF SendIndex
<1>2. ASSUME NEW k \in SendIndex, k \in OpenOffsets(w) PROVE k < n /\ k < w.window_size
  <2>1. k \in 0..k
    BY <1>1, SMT
  <2> QED BY <1>2, <2>1, <1>h DEF SlotsHold, OpenOffsets
<1>3. ASSUME NEW k \in SendIndex, k < n, k < w.window_size PROVE k \in OpenOffsets(w)
  <2>1. \A j \in 0..k : j \in SendIndex /\ j < n
    BY <1>1, <1>3, SMT
  <2> QED BY <1>3, <2>1, <1>h DEF SlotsHold, OpenOffsets
<1> QED BY <1>2, <1>3

\* An ACK for the message at offset k takes k + 1 messages off the front.
LEMMA HoldsSlide ==
  ASSUME NEW w \in SendWindow, NEW lo \in Nat, NEW n \in 0..SENDER_MSG_BUFFER, Holds(w, lo, n),
         NEW k \in OpenOffsets(w)
  PROVE  Holds(SlidePast(w, k), lo + k + 1, n - k - 1)
<1> DEFINE N == SENDER_MSG_BUFFER
           u == SlidePast(w, k)
<1>h. SlotsHold(w, lo, n)
  BY HoldsSlots
<1>1. AfterSlide(u, w, k)
  BY SlideSlots
<1> HIDE DEF u
<1>2. k \in SendIndex
  BY DEF OpenOffsets
<1>0. n \in Nat
  BY SMT
<1>3. k < n
  BY <1>0, <1>2, OpenHolds
<1>4. /\ N \in Nat \ {0} /\ k \in 0..(N - 1) /\ SendIndex = 0..(N - 1)
      /\ lo + k + 1 \in Nat /\ n - k - 1 \in Nat /\ (lo + k + 1) + (n - k - 1) + 1 = lo + n + 1
  BY <1>2, <1>3, BufferFacts, SMT DEF SendIndex
<1>5. SeqAdd(u.last_seq_no, 1) = Number((lo + k + 1) + (n - k - 1) + 1)
  <2>1. u.last_seq_no = w.last_seq_no
    BY <1>1 DEF AfterSlide
  <2> QED BY <1>4, <2>1, <1>h DEF SlotsHold
<1>6. ASSUME NEW j \in SendIndex, j < n - k - 1
      PROVE  /\ u.send_buff[SendSlot(u, j)].ack_no = Number((lo + k + 1) + j + 1)
             /\ u.send_buff[SendSlot(u, j)].message = (lo + k + 1) + j + 1
  <2>1. /\ k + 1 + j < n /\ lo + (k + 1 + j) + 1 = (lo + k + 1) + j + 1
    BY <1>4, <1>6, SMT
  <2>2. CASE k + 1 + j < N
    <3>1. k + 1 + j \in SendIndex /\ u.send_buff[SendSlot(u, j)] = w.send_buff[SendSlot(w, k + 1 + j)]
      BY <1>1, <2>2 DEF AfterSlide
    <3> QED BY <2>1, <3>1, <1>h DEF SlotsHold
  <2>3. k + 1 + j < N
    BY <1>4, <2>1, SMT
  <2> QED BY <2>2, <2>3
<1>7. ASSUME NEW j \in SendIndex, ~(j < n - k - 1)
      PROVE  u.send_buff[SendSlot(u, j)].ack_no = FREE
  <2>1. CASE k + 1 + j < N
    <3>1. ~(k + 1 + j < n)
      BY <1>4, <1>7, SMT
    <3>2. k + 1 + j \in SendIndex /\ u.send_buff[SendSlot(u, j)] = w.send_buff[SendSlot(w, k + 1 + j)]
      BY <1>1, <2>1 DEF AfterSlide
    <3> QED BY <3>1, <3>2, <1>h DEF SlotsHold
  <2>2. CASE ~(k + 1 + j < N)
    BY <1>1, <2>2 DEF AfterSlide
  <2> QED BY <2>1, <2>2
<1>8. Holds(u, lo + k + 1, n - k - 1)
  BY <1>4, <1>5, <1>6, <1>7, HoldsBy
<1> QED BY <1>8 DEF u

\* An ACK with the number of message a, from the last one let go of up to the
\* last one the window lets out, is for that message and for no other.
LEMMA AckMeans ==
  ASSUME NEW w \in SendWindow, NEW lo \in Nat, NEW n \in 0..SENDER_MSG_BUFFER, Holds(w, lo, n),
         w.window_size <= RECEIVER_MSG_BUFFER, NEW a \in lo..(lo + n), a <= lo + w.window_size
  PROVE  /\ a = lo => AckedAt(w, Number(a)) = {}
         /\ a > lo => a - lo - 1 \in OpenOffsets(w) /\ AckedAt(w, Number(a)) = {a - lo - 1}
<1> DEFINE N == SENDER_MSG_BUFFER
<1>h. SlotsHold(w, lo, n)
  BY HoldsSlots
<1>1. /\ N \in Nat \ {0} /\ SendIndex = 0..(N - 1) /\ n \in Nat /\ w.window_size \in Nat /\ a \in Nat
      /\ RECEIVER_MSG_BUFFER < MaxSeq /\ MaxSeq \in Nat
  BY BufferFacts, SMT DEF SendIndex, SendWindow
<1>2. ASSUME NEW k \in OpenOffsets(w), w.send_buff[SendSlot(w, k)].ack_no = Number(a)
      PROVE  k = a - lo - 1 /\ a > lo
  <2>1. k \in SendIndex /\ k < n /\ k < w.window_size
    BY <1>1, OpenHolds DEF OpenOffsets
  <2>2. Number(lo + k + 1) = Number(a) /\ lo + k + 1 \in Nat
    BY <1>1, <1>2, <2>1, <1>h DEF SlotsHold
  <2>3. lo + k + 1 < a + MaxSeq /\ a < lo + k + 1 + MaxSeq /\ k \in Nat
    BY <1>1, <2>1, BufferFacts, SMT
  <2>4. lo + k + 1 = a
    BY <1>1, <2>2, <2>3, NumberUnique
  <2> QED BY <1>1, <2>3, <2>4, SMT
<1>3. CASE a = lo
  <2>1. ~(a > lo)
    BY <1>3, SMT
  <2> QED BY <1>2, <1>3, <2>1 DEF AckedAt
<1>4. CASE a > lo
  <2> DEFINE k == a - lo - 1
  <2>1. k \in SendIndex /\ k < n /\ k < w.window_size /\ lo + k + 1 = a /\ k \in Nat
    BY <1>1, <1>4, SMT
  <2> HIDE DEF k
  <2>2. k \in OpenOffsets(w) /\ w.send_buff[SendSlot(w, k)].ack_no = Number(a)
    BY <1>1, <2>1, OpenHolds, <1>h DEF SlotsHold
  <2>3. ASSUME NEW j \in 0..(k - 1) PROVE w.send_buff[SendSlot(w, j)].ack_no # Number(a)
    <3>1. j \in SendIndex /\ j < n /\ j < w.window_size /\ j # k
      BY <1>1, <2>1, SMT
    <3>2. j \in OpenOffsets(w)
      BY <1>1, <3>1, OpenHolds
    <3> QED BY <1>2, <3>1, <3>2 DEF k
  <2>4. AckedAt(w, Number(a)) = {k}
    BY <1>2, <2>2, <2>3 DEF AckedAt, k
  <2>5. a # lo
    BY <1>4, SMT
  <2> QED BY <2>2, <2>4, <2>5 DEF k
<1>5. a = lo \/ a > lo
  BY <1>1, SMT
<1> QED BY <1>3, <1>4, <1>5

-----------------------------------------------------------------------------
(* The receive window.                                                     *)

LEMMA InOrderType ==
  ASSUME NEW w \in RecvWindow, ReceiveRing(w), NEW d \in Nat
  PROVE  /\ InOrder(w, d) \in Nat /\ d <= InOrder(w, d) /\ InOrder(w, d) <= d + RECEIVER_MSG_BUFFER
         /\ InOrder(w, d) + w.window_size = d + RECEIVER_MSG_BUFFER
         /\ w.window_size \in 0..RECEIVER_MSG_BUFFER
         /\ \A m \in InHand(w, d) : m \in Nat
<1>1. w.window_size \in 0..RECEIVER_MSG_BUFFER /\ RECEIVER_MSG_BUFFER \in Nat
  BY RecvFields, SMT DEF ReceiveRing
<1>2. /\ InOrder(w, d) \in Nat /\ d <= InOrder(w, d) /\ InOrder(w, d) <= d + RECEIVER_MSG_BUFFER
      /\ InOrder(w, d) + w.window_size = d + RECEIVER_MSG_BUFFER
  BY <1>1, SMT DEF InOrder
<1>3. \A k \in RecvIndex : InOrder(w, d) + k + 1 \in Nat
  BY <1>1, <1>2, SMT DEF RecvIndex
<1> QED BY <1>1, <1>2, <1>3 DEF InHand

\* What is sent as an ACK of what is in order says just that.
LEMMA SnapshotOf ==
  ASSUME NEW w \in RecvWindow, ReceiveRing(w), NEW d \in Nat, Continues(w, d)
  PROVE  AckInOrder(w) = Ack(Number(InOrder(w, d)), w.window_size)
BY InOrderType, NumberPrev DEF Continues, AckInOrder

\* m_recvfrom returns the next message, and what is in order stays so.
LEMMA ContinuesDequeue ==
  ASSUME NEW w \in RecvWindow, ReceiveRing(w), w.recv_buff[w.index_to_read].ack_no # FREE,
         NEW d \in Nat, Continues(w, d)
  PROVE  /\ w.recv_buff[w.index_to_read].message = d + 1
         /\ InOrder(Dequeue(w), d + 1) = InOrder(w, d) /\ d + 1 <= InOrder(w, d)
         /\ InHand(Dequeue(w), d + 1) \subseteq InHand(w, d)
         /\ Continues(Dequeue(w), d + 1)
<1> DEFINE B == RECEIVER_MSG_BUFFER
           u == Dequeue(w)
<1>1. AfterDequeue(u, w)
  BY DequeueSlots
<1> HIDE DEF u
<1>2. /\ B \in Nat \ {0} /\ w.window_size \in Nat /\ w.window_size < B /\ u.window_size = w.window_size + 1
      /\ RecvIndex = 0..(B - 1) /\ 0 \in RecvIndex /\ w.index_to_read \in 0..(B - 1)
  BY <1>1, RecvFields, SMT DEF AfterDequeue, RecvIndex
<1>3. InOrder(u, d + 1) = InOrder(w, d) /\ d + 1 <= InOrder(w, d)
  BY <1>2, SMT DEF InOrder
<1>4. w.recv_buff[w.index_to_read].message = d + 1
  <2>1. ReadSlot(w, 0) = w.index_to_read
    <3>1. 0 \in 0..B
      BY <1>2, SMT
    <3>2. ReadSlot(w, 0) = IF w.index_to_read + 0 < B THEN w.index_to_read + 0 ELSE w.index_to_read + 0 - B
      BY <3>1, RecvSlotStep
    <3> QED BY <1>2, <3>2, SMT
  <2>2. 0 < B - w.window_size /\ d + 0 + 1 = d + 1
    BY <1>2, SMT
  <2>3. w.recv_buff[ReadSlot(w, 0)].message = d + 0 + 1
    BY <1>2, <2>2 DEF Continues
  <2> QED BY <2>1, <2>2, <2>3
<1>5. \A k \in RecvIndex : CameEarly(u, k) =>
        CameEarly(w, k) /\ u.recv_buff[WriteSlot(u, k)] = w.recv_buff[WriteSlot(w, k)]
  BY <1>1 DEF AfterDequeue, CameEarly
<1>6. InHand(u, d + 1) \subseteq InHand(w, d)
  BY <1>3, <1>5 DEF InHand
<1>7. u.next_seq_no = Number(InOrder(u, d + 1) + 1)
  BY <1>1, <1>3 DEF Continues, AfterDequeue
<1>8. ASSUME NEW k \in RecvIndex, k < B - u.window_size
      PROVE  u.recv_buff[ReadSlot(u, k)].message = (d + 1) + k + 1
  <2>1. /\ k + 1 \in RecvIndex /\ k + 1 < B - w.window_size
        /\ u.recv_buff[ReadSlot(u, k)] = w.recv_buff[ReadSlot(w, k + 1)]
    BY <1>1, <1>8 DEF AfterDequeue
  <2>2. d + (k + 1) + 1 = (d + 1) + k + 1
    BY <1>2, SMT
  <2> QED BY <2>1, <2>2 DEF Continues
<1>9. ASSUME NEW k \in RecvIndex, CameEarly(u, k)
      PROVE  u.recv_buff[WriteSlot(u, k)].message = InOrder(u, d + 1) + k + 1
  BY <1>3, <1>5, <1>9 DEF Continues
<1>10. Continues(u, d + 1)
  BY <1>7, <1>8, <1>9 DEF Continues
<1> QED BY <1>3, <1>4, <1>6, <1>10 DEF u

\* The next message, and those that follow it and came early, are in order
\* when it has come, and are acknowledged as that.
LEMMA ContinuesStore ==
  ASSUME NEW w \in RecvWindow, ReceiveRing(w), NEW d \in Nat, Continues(w, d),
         NEW m \in Nat, m = InOrder(w, d) + 1, NEW n \in InOrderRuns(w)
  PROVE  /\ n \in 1..w.window_size
         /\ InOrder(StoreInOrder(w, m, n), d) = InOrder(w, d) + n
         /\ StoreInOrder(w, m, n).window_size = w.window_size - n
         /\ \A i \in InHand(StoreInOrder(w, m, n), d) : i \in InHand(w, d) \/ i = m
         /\ Continues(StoreInOrder(w, m, n), d)
         /\ AckRun(w, n) = Ack(Number(InOrder(w, d) + n), w.window_size - n)
<1> DEFINE B == RECEIVER_MSG_BUFFER
           u == StoreInOrder(w, m, n)
           unread == B - w.window_size
           r == InOrder(w, d)
<1>1. AfterStore(u, w, m, n)
  BY StoreSlots
<1> HIDE DEF u
<1>2. /\ B \in Nat \ {0} /\ w.window_size \in 0..B /\ n \in 1..w.window_size /\ n \in 1..B
      /\ u.window_size = w.window_size - n
      /\ RecvIndex = 0..(B - 1) /\ r \in Nat /\ unread \in 0..B /\ r = d + unread
  <2>1. /\ n \in 1..B /\ n <= w.window_size /\ w.window_size <= B /\ u.window_size = w.window_size - n
    BY <1>1 DEF AfterStore
  <2> QED BY <2>1, RecvFields, InOrderType, SMT DEF RecvIndex, InOrder
<1>3. InOrder(u, d) = r + n
  BY <1>2, SMT DEF InOrder
\* What came early in the new window did so in the old one, further on.
<1>4. ASSUME NEW k \in RecvIndex, CameEarly(u, k)
      PROVE  /\ n + k \in RecvIndex /\ CameEarly(w, n + k)
             /\ u.recv_buff[WriteSlot(u, k)] = w.recv_buff[WriteSlot(w, n + k)]
             /\ InOrder(u, d) + k + 1 = r + (n + k) + 1
  <2>1. k < u.window_size
    BY <1>4 DEF CameEarly
  <2>2. /\ n + k \in RecvIndex /\ n + k < w.window_size
        /\ u.recv_buff[WriteSlot(u, k)] = w.recv_buff[WriteSlot(w, n + k)]
    BY <1>1, <2>1 DEF AfterStore
  <2>3. r + n + k + 1 = r + (n + k) + 1
    BY <1>2, SMT
  <2> QED BY <1>3, <1>4, <2>2, <2>3 DEF CameEarly
\* The run came early, but for its first message.
<1>5. ASSUME NEW j \in 1..(n - 1)
      PROVE  /\ j \in RecvIndex /\ CameEarly(w, j) /\ unread + j \in RecvIndex
             /\ u.recv_buff[ReadSlot(u, unread + j)].message = r + j + 1
  BY <1>1, <1>5 DEF AfterStore, CameEarly, Continues
<1>6. ASSUME NEW i \in InHand(u, d) PROVE i \in InHand(w, d) \/ i = m
  <2>1. CASE i = InOrder(u, d)
    <3>1. CASE n = 1
      BY <1>3, <2>1, <3>1
    <3>2. CASE n # 1
      <4>1. n - 1 \in 1..(n - 1) /\ r + n = r + (n - 1) + 1
        <5>1. n \in Nat /\ n > 1 /\ r \in Nat
          BY <1>2, <3>2, SMT
        <5> QED BY <5>1, SMT
      <4>2. n - 1 \in RecvIndex /\ CameEarly(w, n - 1)
        BY <1>5, <4>1
      <4> QED BY <1>3, <2>1, <4>1, <4>2 DEF InHand
    <3> QED BY <3>1, <3>2
  <2>2. CASE \E k \in RecvIndex : CameEarly(u, k) /\ i = InOrder(u, d) + k + 1
    <3>1. PICK k \in RecvIndex : CameEarly(u, k) /\ i = InOrder(u, d) + k + 1
      BY <2>2
    <3> QED BY <1>4, <3>1 DEF InHand
  <2> QED BY <2>1, <2>2 DEF InHand
<1>7. u.next_seq_no = Number(InOrder(u, d) + 1)
  <2>1. u.next_seq_no = SeqAdd(Number(r + 1), n)
    BY <1>1 DEF AfterStore, Continues
  <2>2. SeqAdd(Number(r + 1), n) = Number(r + 1 + n)
    <3>1. r + 1 \in Nat /\ n \in Nat
      BY <1>2, SMT
    <3> QED BY <3>1, NumberAdd
  <2>3. r + 1 + n = r + n + 1
    BY <1>2, SMT
  <2> QED BY <1>3, <2>1, <2>2, <2>3
<1>8. ASSUME NEW k \in RecvIndex, k < B - u.window_size
      PROVE  u.recv_buff[ReadSlot(u, k)].message = d + k + 1
  <2>1. CASE k < unread
    <3>1. u.recv_buff[ReadSlot(u, k)] = w.recv_buff[ReadSlot(w, k)]
      BY <1>1, <2>1 DEF AfterStore
    <3> QED BY <2>1, <3>1 DEF Continues
  <2>2. CASE k = unread
    <3>1. u.recv_buff[ReadSlot(u, k)] = [ack_no |-> w.next_seq_no, message |-> m]
      BY <1>1, <2>2 DEF AfterStore
    <3>2. u.recv_buff[ReadSlot(u, k)].message = m
      BY <3>1
    <3> QED BY <1>2, <2>2, <3>2
  <2>3. CASE k > unread
    <3> DEFINE j == k - unread
    <3>1. j \in 1..(n - 1) /\ k = unread + j /\ r + j + 1 = d + k + 1
      <4>1. /\ k \in Nat /\ unread \in Nat /\ k < unread + n /\ n \in Nat
            /\ r = d + unread
        BY <1>2, <1>8, SMT
      <4> HIDE DEF unread, r
      <4> QED BY <2>3, <4>1, SMT
    <3> HIDE DEF j
    <3> QED BY <1>5, <3>1
  <2> QED BY <1>2, <2>1, <2>2, <2>3, SMT
<1>9. ASSUME NEW k \in RecvIndex, CameEarly(u, k)
      PROVE  u.recv_buff[WriteSlot(u, k)].message = InOrder(u, d) + k + 1
  BY <1>4, <1>9 DEF Continues
<1>10. Continues(u, d)
  BY <1>7, <1>8, <1>9 DEF Continues
<1>11. AckRun(w, n) = Ack(Number(r + n), w.window_size - n)
  <2>1. r + 1 \in Nat /\ n - 1 \in Nat /\ r + 1 + (n - 1) = r + n
    BY <1>2, SMT
  <2>2. SeqAdd(Number(r + 1), n - 1) = Number(r + n)
    BY <2>1, NumberAdd
  <2> QED BY <2>2 DEF AckRun, Continues
<1> QED BY <1>2, <1>3, <1>6, <1>10, <1>11 DEF u

\* A message that came early keeps to its place.
LEMMA ContinuesEarly ==
  ASSUME NEW w \in RecvWindow, ReceiveRing(w), NEW d \in Nat, Continues(w, d),
         NEW g \in Datagram, NEW k \in ExpectedAt(w, g), g.body = InOrder(w, d) + k + 1
  PROVE  /\ InOrder(StoreEarly(w, g, k), d) = InOrder(w, d)
         /\ StoreEarly(w, g, k).window_size = w.window_size
         /\ \A i \in InHand(StoreEarly(w, g, k), d) : i \in InHand(w, d) \/ i = g.body
         /\ Continues(StoreEarly(w, g, k), d)
<1> DEFINE u == StoreEarly(w, g, k)
<1>1. CASE w.recv_buff[WriteSlot(w, k)].ack_no = g.seq_no
  BY <1>1 DEF StoreEarly
<1>2. CASE w.recv_buff[WriteSlot(w, k)].ack_no # g.seq_no
  <2>1. AfterEarly(u, w, g, k)
    BY <1>2, EarlySlots
  <2> HIDE DEF u
  <2>2. u.window_size = w.window_size /\ u.next_seq_no = w.next_seq_no
    BY <2>1 DEF AfterEarly
  <2>3. InOrder(u, d) = InOrder(w, d)
    BY <2>2 DEF InOrder
  <2>4. ASSUME NEW j \in RecvIndex, CameEarly(u, j), j # k
        PROVE  CameEarly(w, j) /\ u.recv_buff[WriteSlot(u, j)] = w.recv_buff[WriteSlot(w, j)]
    BY <2>1, <2>2, <2>4 DEF AfterEarly, CameEarly
  <2>5. u.recv_buff[WriteSlot(u, k)].message = g.body
    BY <2>1 DEF AfterEarly
  <2>6. ASSUME NEW i \in InHand(u, d) PROVE i \in InHand(w, d) \/ i = g.body
    BY <2>3, <2>4 DEF InHand
  <2>7. ASSUME NEW j \in RecvIndex, j < RECEIVER_MSG_BUFFER - u.window_size
        PROVE  u.recv_buff[ReadSlot(u, j)].message = d + j + 1
    BY <2>1, <2>2, <2>7 DEF AfterEarly, Continues
  <2>8. ASSUME NEW j \in RecvIndex, CameEarly(u, j)
        PROVE  u.recv_buff[WriteSlot(u, j)].message = InOrder(u, d) + j + 1
    BY <2>3, <2>4, <2>5, <2>8 DEF Continues
  <2>9. Continues(u, d)
    BY <2>2, <2>3, <2>7, <2>8 DEF Continues
  <2> QED BY <2>2, <2>3, <2>6, <2>9 DEF u
<1> QED BY <1>1, <1>2

\* A number the window accepts is that of one message only: message b when b
\* is within the buffer and less than a buffer behind what is in order.
LEMMA NumberExpected ==
  ASSUME NEW w \in RecvWindow, ReceiveRing(w), NEW d \in Nat, Continues(w, d),
         NEW b \in Nat, b <= d + RECEIVER_MSG_BUFFER, InOrder(w, d) < b + RECEIVER_MSG_BUFFER,
         NEW k \in Nat, k < w.window_size, Number(b) = SeqAdd(w.next_seq_no, k)
  PROVE  b = InOrder(w, d) + k + 1
<1> DEFINE r == InOrder(w, d)
<1>1. /\ r \in Nat /\ r + w.window_size = d + RECEIVER_MSG_BUFFER
      /\ w.window_size \in 0..RECEIVER_MSG_BUFFER /\ r + 1 \in Nat
  BY InOrderType, SMT
<1>2. w.next_seq_no = Number(r + 1)
  BY DEF Continues
<1> HIDE DEF r
<1>3. Number(b) = Number(r + 1 + k)
  BY <1>1, <1>2, NumberAdd
<1>4. r + 1 + k \in Nat /\ b < r + 1 + k + MaxSeq /\ r + 1 + k < b + MaxSeq
  BY <1>1, BufferFacts, SMT DEF r
<1>5. b = r + 1 + k
  BY <1>3, <1>4, NumberUnique
<1>6. b = r + k + 1
  BY <1>1, <1>5, SMT
<1> QED BY <1>6 DEF r

-----------------------------------------------------------------------------
(* How each operation moves a link from agreement to agreement.            *)

LinkType(w, t, acc, u, dlv, data, acks) ==
  /\ w \in SendWindow /\ t \in [flag : 0..4, ack_seq_no : 0..MaxSeq] /\ acc \in Nat
  /\ u \in RecvWindow /\ ReceiveRing(u) /\ dlv \in Seq(Nat)
  /\ data \in Seq(Datagram) /\ acks \in Seq(Datagram)
  /\ w.window_size = 0 <=> t.flag > 0

\* What follows from LinkedBy and the types, with the last message in order
\* (r) and the right edges of the sender (edge) and of the receiver (top).
Parts(lo, n, d, r, edge, top, w, t, acc, u, dlv, data, acks) ==
  /\ lo \in Nat /\ n \in 0..SENDER_MSG_BUFFER /\ acc \in Nat /\ acc = lo + n
  /\ d \in Nat /\ d = Len(dlv) /\ r \in Nat /\ r = InOrder(u, d) /\ edge \in Nat /\ top \in Nat
  /\ edge = lo + w.window_size /\ top = d + RECEIVER_MSG_BUFFER
  /\ w.window_size \in 0..RECEIVER_MSG_BUFFER /\ u.window_size \in 0..RECEIVER_MSG_BUFFER
  /\ r + u.window_size = top /\ d <= r
  /\ lo <= r /\ r <= acc /\ r <= edge /\ edge <= top
  /\ \A m \in InHand(u, d) : m \in Nat /\ m <= acc /\ m <= edge
  /\ t.flag > 0 => t.ack_seq_no = Number(lo)
  /\ Holds(w, lo, n) /\ Continues(u, d)
  /\ \A i \in 1..d : dlv[i] = i
  /\ DataQueue(data, InHand(u, d), acc, edge)
  /\ ProbeQueue(data, r)
  /\ Acks(acks, lo, r, edge, top)

LEMMA LinkedParts ==
  ASSUME NEW w, NEW t, NEW acc, NEW u, NEW dlv, NEW data, NEW acks,
         LinkType(w, t, acc, u, dlv, data, acks), Linked(w, t, acc, u, dlv, data, acks)
  PROVE  \E lo, n, d, r, edge, top : Parts(lo, n, d, r, edge, top, w, t, acc, u, dlv, data, acks)
<1>1. PICK n \in 0..SENDER_MSG_BUFFER, lo \in 0..acc :
        acc = lo + n /\ LinkedBy(lo, n, w, t, acc, u, dlv, data, acks)
  BY DEF Linked
<1> DEFINE d == Len(dlv)
           r == InOrder(u, d)
           edge == lo + w.window_size
           top == d + RECEIVER_MSG_BUFFER
<1>2. d \in Nat
  BY LenProperties DEF LinkType
<1>3. /\ r \in Nat /\ d <= r /\ r + u.window_size = top /\ u.window_size \in 0..RECEIVER_MSG_BUFFER
      /\ \A m \in InHand(u, d) : m \in Nat
  BY <1>2, InOrderType DEF LinkType
<1>4. w.window_size \in Nat /\ acc \in Nat
  BY DEF LinkType, SendWindow
<1>5. lo \in Nat /\ edge \in Nat /\ top \in Nat
  BY <1>2, <1>4, BufferFacts, SMT
<1>6. /\ lo <= r /\ w.window_size <= RECEIVER_MSG_BUFFER /\ edge <= top
      /\ t.flag > 0 => t.ack_seq_no = Number(lo)
      /\ \A m \in InHand(u, d) : m <= acc /\ m <= edge
      /\ Holds(w, lo, n) /\ Continues(u, d)
      /\ \A i \in 1..d : dlv[i] = i
      /\ DataQueue(data, InHand(u, d), acc, edge)
      /\ ProbeQueue(data, r)
      /\ Acks(acks, lo, r, edge, top)
  BY <1>1 DEF LinkedBy, Agree
<1>7. r \in InHand(u, d)
  BY DEF InHand
<1>8. w.window_size \in 0..RECEIVER_MSG_BUFFER
  BY <1>4, <1>6, BufferFacts, SMT
<1> HIDE DEF d, r, edge, top
<1>9. d = Len(dlv) /\ r = InOrder(u, d) /\ edge = lo + w.window_size /\ top = d + RECEIVER_MSG_BUFFER
  BY DEF d, r, edge, top
<1>10. Parts(lo, n, d, r, edge, top, w, t, acc, u, dlv, data, acks)
  BY <1>1, <1>2, <1>3, <1>4, <1>5, <1>6, <1>7, <1>8, <1>9 DEF Parts
<1> QED BY <1>10

\* What it takes to be linked.
Enough(lo, n, d, r, edge, top, w, t, acc, u, dlv, data, acks) ==
  /\ lo \in Nat /\ n \in 0..SENDER_MSG_BUFFER /\ acc = lo + n
  /\ d = Len(dlv) /\ r = InOrder(u, d) /\ edge = lo + w.window_size /\ top = d + RECEIVER_MSG_BUFFER
  /\ w.window_size <= RECEIVER_MSG_BUFFER /\ lo <= r /\ edge <= top
  /\ \A m \in InHand(u, d) : m <= acc /\ m <= edge
  /\ t.flag > 0 => t.ack_seq_no = Number(lo)
  /\ Holds(w, lo, n) /\ Continues(u, d) /\ \A i \in 1..d : dlv[i] = i
  /\ DataQueue(data, InHand(u, d), acc, edge) /\ ProbeQueue(data, r) /\ Acks(acks, lo, r, edge, top)

LEMMA EnoughLinked ==
  ASSUME NEW w, NEW t, NEW acc, NEW u, NEW dlv, NEW data, NEW acks,
         NEW lo, NEW n, NEW d, NEW r, NEW edge, NEW top,
         Enough(lo, n, d, r, edge, top, w, t, acc, u, dlv, data, acks)
  PROVE  Linked(w, t, acc, u, dlv, data, acks)
<1>1. lo \in 0..acc
  BY SMT DEF Enough
<1>2. LinkedBy(lo, n, w, t, acc, u, dlv, data, acks)
  BY DEF LinkedBy, Agree, Enough
<1> QED BY <1>1, <1>2 DEF Linked, Enough

LEMMA PartsEnough ==
  ASSUME NEW w, NEW t, NEW acc, NEW u, NEW dlv, NEW data, NEW acks,
         NEW lo, NEW n, NEW d, NEW r, NEW edge, NEW top,
         Parts(lo, n, d, r, edge, top, w, t, acc, u, dlv, data, acks)
  PROVE  Enough(lo, n, d, r, edge, top, w, t, acc, u, dlv, data, acks)
<1>1. w.window_size <= RECEIVER_MSG_BUFFER
  BY BufferFacts, SMT DEF Parts
<1> QED BY <1>1, Zenon DEF Parts, Enough

\* A datagram of no concern to the link is taken off either queue.
LEMMA LinkedTake ==
  ASSUME NEW w, NEW t, NEW acc, NEW u, NEW dlv, NEW data, NEW acks,
         LinkType(w, t, acc, u, dlv, data, acks), Linked(w, t, acc, u, dlv, data, acks)
  PROVE  /\ 1 \in DOMAIN data => Linked(w, t, acc, u, dlv, RemoveAt(data, 1), acks)
         /\ 1 \in DOMAIN acks => Linked(w, t, acc, u, dlv, data, RemoveAt(acks, 1))
<1>1. PICK lo, n, d, r, edge, top : Parts(lo, n, d, r, edge, top, w, t, acc, u, dlv, data, acks)
  BY LinkedParts
<1>e. Enough(lo, n, d, r, edge, top, w, t, acc, u, dlv, data, acks)
  BY <1>1, PartsEnough
<1> USE DEF Parts
<1>2. data \in Seq(Datagram) /\ acks \in Seq(Datagram)
  BY DEF LinkType
<1>3. ASSUME 1 \in DOMAIN data PROVE Linked(w, t, acc, u, dlv, RemoveAt(data, 1), acks)
  <2>1. DataQueue(RemoveAt(data, 1), InHand(u, d), acc, edge)
    BY <1>1, <1>2, <1>3, DataHeadGone
  <2>2. ProbeQueue(RemoveAt(data, 1), r)
    BY <1>1, <1>2, <1>3, ProbeHeadGone
  <2>3. Enough(lo, n, d, r, edge, top, w, t, acc, u, dlv, RemoveAt(data, 1), acks)
    BY <1>e, <2>1, <2>2, Zenon DEF Enough
  <2> QED BY <2>3, EnoughLinked
<1>4. ASSUME 1 \in DOMAIN acks PROVE Linked(w, t, acc, u, dlv, data, RemoveAt(acks, 1))
  <2>1. Acks(RemoveAt(acks, 1), lo, r, edge, top)
    BY <1>1, <1>2, <1>4, AcksHeadGone
  <2>2. Enough(lo, n, d, r, edge, top, w, t, acc, u, dlv, data, RemoveAt(acks, 1))
    BY <1>e, <2>1, Zenon DEF Enough
  <2> QED BY <2>2, EnoughLinked
<1> QED BY <1>3, <1>4

\* Datagrams of the other direction are sent along either queue.
LEMMA LinkedOthers ==
  ASSUME NEW w, NEW t, NEW acc, NEW u, NEW dlv, NEW data, NEW acks,
         LinkType(w, t, acc, u, dlv, data, acks), Linked(w, t, acc, u, dlv, data, acks),
         NEW ds \in Seq(Datagram)
  PROVE  /\ (\A i \in DOMAIN ds : ds[i].type = "A") => Linked(w, t, acc, u, dlv, Arrive(data, ds), acks)
         /\ (\A i \in DOMAIN ds : ds[i].type # "A") => Linked(w, t, acc, u, dlv, data, Arrive(acks, ds))
<1>1. PICK lo, n, d, r, edge, top : Parts(lo, n, d, r, edge, top, w, t, acc, u, dlv, data, acks)
  BY LinkedParts
<1>e. Enough(lo, n, d, r, edge, top, w, t, acc, u, dlv, data, acks)
  BY <1>1, PartsEnough
<1> USE DEF Parts
<1>2. data \in Seq(Datagram) /\ acks \in Seq(Datagram)
  BY DEF LinkType
<1>3. ASSUME \A i \in DOMAIN ds : ds[i].type = "A" PROVE Linked(w, t, acc, u, dlv, Arrive(data, ds), acks)
  <2>1. \A i \in DOMAIN ds : ds[i].type # "D" /\ ds[i].type # "P"
    BY <1>3
  <2>2. DataQueue(Arrive(data, ds), InHand(u, d), acc, edge)
    BY <1>1, <1>2, <2>1, DataOthers
  <2>3. ProbeQueue(Arrive(data, ds), r)
    BY <1>1, <1>2, <2>1, ProbeOthers
  <2>4. Enough(lo, n, d, r, edge, top, w, t, acc, u, dlv, Arrive(data, ds), acks)
    BY <1>e, <2>2, <2>3, Zenon DEF Enough
  <2> QED BY <2>4, EnoughLinked
<1>4. ASSUME \A i \in DOMAIN ds : ds[i].type # "A" PROVE Linked(w, t, acc, u, dlv, data, Arrive(acks, ds))
  <2>1. Acks(Arrive(acks, ds), lo, r, edge, top)
    BY <1>1, <1>2, <1>4, AcksOthers
  <2>2. Enough(lo, n, d, r, edge, top, w, t, acc, u, dlv, data, Arrive(acks, ds))
    BY <1>e, <2>1, Zenon DEF Enough
  <2> QED BY <2>2, EnoughLinked
<1> QED BY <1>3, <1>4

\* An acknowledgement of what is in order, with the room there is.
LEMMA LinkedAnswer ==
  ASSUME NEW w, NEW t, NEW acc, NEW u, NEW dlv, NEW data, NEW acks,
         LinkType(w, t, acc, u, dlv, data, acks), Linked(w, t, acc, u, dlv, data, acks),
         NEW g, g = Ack(Number(InOrder(u, Len(dlv))), u.window_size)
  PROVE  Linked(w, t, acc, u, dlv, data, Arrive(acks, <<g>>))
<1>1. PICK lo, n, d, r, edge, top : Parts(lo, n, d, r, edge, top, w, t, acc, u, dlv, data, acks)
  BY LinkedParts
<1>e. Enough(lo, n, d, r, edge, top, w, t, acc, u, dlv, data, acks)
  BY <1>1, PartsEnough
<1>2. acks \in Seq(Datagram)
  BY DEF LinkType
<1> DEFINE size == u.window_size
<1>3. /\ lo \in Nat /\ r \in Nat /\ edge \in Nat /\ size \in Nat /\ top = r + size
      /\ lo <= r /\ edge <= r + size /\ size <= RECEIVER_MSG_BUFFER
      /\ Acks(acks, lo, r, edge, r + size) /\ g = Ack(Number(r), size)
  <2>1. size \in 0..RECEIVER_MSG_BUFFER /\ r + size = top
    BY <1>1 DEF Parts
  <2>2. size \in Nat /\ size <= RECEIVER_MSG_BUFFER
    BY <2>1, BufferFacts, SMT
  <2> QED BY <1>1, <2>1, <2>2 DEF Parts
<1>4. Acks(Arrive(acks, <<g>>), lo, r, edge, top)
  BY <1>2, <1>3, AcksSent
<1>5. Enough(lo, n, d, r, edge, top, w, t, acc, u, dlv, data, Arrive(acks, <<g>>))
  BY <1>e, <1>4, Zenon DEF Enough
<1> QED BY <1>5, EnoughLinked

\* The flag nospace plays no part.
LEMMA LinkedNospace ==
  ASSUME NEW w, NEW t, NEW acc, NEW u, NEW dlv, NEW data, NEW acks,
         LinkType(w, t, acc, u, dlv, data, acks), Linked(w, t, acc, u, dlv, data, acks)
  PROVE  Linked(w, t, acc, [u EXCEPT !.nospace = 0], dlv, data, acks)
<1> DEFINE v == [u EXCEPT !.nospace = 0]
<1>1. PICK lo, n, d, r, edge, top : Parts(lo, n, d, r, edge, top, w, t, acc, u, dlv, data, acks)
  BY LinkedParts
<1>e. Enough(lo, n, d, r, edge, top, w, t, acc, u, dlv, data, acks)
  BY <1>1, PartsEnough
<1>2. /\ v.recv_buff = u.recv_buff /\ v.index_to_read = u.index_to_read /\ v.index_to_write = u.index_to_write
      /\ v.next_seq_no = u.next_seq_no /\ v.window_size = u.window_size
  BY DEF LinkType, RecvWindow
<1> HIDE DEF v
<1>3. InOrder(v, d) = InOrder(u, d) /\ \A k : CameEarly(v, k) = CameEarly(u, k)
  BY <1>2 DEF InOrder, CameEarly, WriteSlot
<1>4. InHand(v, d) = InHand(u, d)
  BY <1>3 DEF InHand
<1>5. Continues(v, d)
  BY <1>e, <1>2, <1>3 DEF Continues, Enough, ReadSlot, WriteSlot
<1>6. Enough(lo, n, d, r, edge, top, w, t, acc, v, dlv, data, acks)
  BY <1>e, <1>3, <1>4, <1>5 DEF Enough
<1>7. Linked(w, t, acc, v, dlv, data, acks)
  BY <1>6, EnoughLinked
<1> QED BY <1>7 DEF v

\* m_sendto.
LEMMA LinkedEnqueue ==
  ASSUME NEW w, NEW t, NEW acc, NEW u, NEW dlv, NEW data, NEW acks,
         LinkType(w, t, acc, u, dlv, data, acks), Linked(w, t, acc, u, dlv, data, acks),
         NEW k \in SendIndex, w.send_buff[SendSlot(w, k)].ack_no = FREE,
         \A j \in 0..(k - 1) : w.send_buff[SendSlot(w, j)].ack_no # FREE
  PROVE  /\ Linked(Enqueue(w, k, acc + 1), t, acc + 1, u, dlv, data, acks)
         /\ acc - Len(dlv) < SENDER_MSG_BUFFER + RECEIVER_MSG_BUFFER
<1> DEFINE v == Enqueue(w, k, acc + 1)
<1>1. PICK lo, n, d, r, edge, top : Parts(lo, n, d, r, edge, top, w, t, acc, u, dlv, data, acks)
  BY LinkedParts
<1>e. Enough(lo, n, d, r, edge, top, w, t, acc, u, dlv, data, acks)
  BY <1>1, PartsEnough
<1>2. w \in SendWindow /\ data \in Seq(Datagram)
  BY DEF LinkType
<1>3. v.window_size = w.window_size
  BY <1>2 DEF Enqueue, SendWindow
<1>4. /\ lo \in Nat /\ n \in 0..SENDER_MSG_BUFFER /\ n \in Nat /\ acc \in Nat /\ acc = lo + n
      /\ acc + 1 = lo + n + 1 /\ acc + 1 = lo + (n + 1) /\ acc <= acc + 1 /\ acc + 1 \in Nat
      /\ edge \in Nat /\ edge <= edge /\ d \in Nat /\ r \in Nat /\ lo <= r /\ edge <= top /\ top = d + RECEIVER_MSG_BUFFER
      /\ r + u.window_size = top /\ u.window_size \in Nat
  BY <1>1, BufferFacts, SMT DEF Parts
<1>5. /\ n + 1 <= SENDER_MSG_BUFFER
      /\ Holds(Enqueue(w, k, lo + n + 1), lo, n + 1)
  BY <1>1, <1>2, <1>4, HoldsEnqueue DEF Parts
<1>6. Holds(v, lo, n + 1) /\ n + 1 \in 0..SENDER_MSG_BUFFER
  <2>1. n + 1 \in 0..SENDER_MSG_BUFFER
    BY <1>4, <1>5, SMT
  <2> QED BY <1>4, <1>5, <2>1
<1> HIDE DEF v
<1>7. DataQueue(data, InHand(u, d), acc + 1, edge)
  BY <1>1, <1>2, <1>4, DataWeaker DEF Parts
<1>8. \A m \in InHand(u, d) : m <= acc + 1 /\ m <= edge
  <2>1. \A m \in InHand(u, d) : m \in Nat /\ m <= acc /\ m <= edge
    BY <1>1 DEF Parts
  <2> QED BY <1>4, <2>1, SMT
<1>9. Enough(lo, n + 1, d, r, edge, top, v, t, acc + 1, u, dlv, data, acks)
  BY <1>e, <1>3, <1>4, <1>6, <1>7, <1>8, Zenon DEF Enough
<1>10. Linked(v, t, acc + 1, u, dlv, data, acks)
  BY <1>9, EnoughLinked
<1>11. acc - d < SENDER_MSG_BUFFER + RECEIVER_MSG_BUFFER
  BY <1>4, <1>5, BufferFacts, SMT
<1>12. d = Len(dlv)
  BY <1>1 DEF Parts
<1> QED BY <1>10, <1>11, <1>12 DEF v

\* m_recvfrom.
LEMMA LinkedDequeue ==
  ASSUME NEW w, NEW t, NEW acc, NEW u, NEW dlv, NEW data, NEW acks,
         LinkType(w, t, acc, u, dlv, data, acks), Linked(w, t, acc, u, dlv, data, acks),
         u.recv_buff[u.index_to_read].ack_no # FREE
  PROVE  /\ u.recv_buff[u.index_to_read].message = Len(dlv) + 1 /\ Len(dlv) < acc
         /\ Linked(w, t, acc, Dequeue(u), Append(dlv, Len(dlv) + 1), data, acks)
<1> DEFINE v == Dequeue(u)
           more == Append(dlv, Len(dlv) + 1)
<1>1. PICK lo, n, d, r, edge, top : Parts(lo, n, d, r, edge, top, w, t, acc, u, dlv, data, acks)
  BY LinkedParts
<1>e. Enough(lo, n, d, r, edge, top, w, t, acc, u, dlv, data, acks)
  BY <1>1, PartsEnough
<1>2. u \in RecvWindow /\ ReceiveRing(u) /\ data \in Seq(Datagram) /\ dlv \in Seq(Nat)
  BY DEF LinkType
<1>3. /\ lo \in Nat /\ acc \in Nat /\ d \in Nat /\ r \in Nat /\ edge \in Nat /\ edge <= edge /\ acc <= acc
      /\ top \in Nat /\ top = d + RECEIVER_MSG_BUFFER /\ top + 1 = (d + 1) + RECEIVER_MSG_BUFFER
      /\ edge <= top + 1 /\ top <= top + 1 /\ top + 1 \in Nat /\ r <= r /\ r <= acc
  BY <1>1, BufferFacts, SMT DEF Parts
<1>4. /\ u.recv_buff[u.index_to_read].message = d + 1
      /\ InOrder(v, d + 1) = InOrder(u, d) /\ d + 1 <= InOrder(u, d)
      /\ InHand(v, d + 1) \subseteq InHand(u, d)
      /\ Continues(v, d + 1)
  BY <1>1, <1>2, <1>3, ContinuesDequeue DEF Parts
<1> HIDE DEF v
<1>5. /\ Len(more) = d + 1 /\ \A i \in 1..(d + 1) : more[i] = i
  <2>1. d = Len(dlv) /\ \A i \in 1..d : dlv[i] = i
    BY <1>1 DEF Parts
  <2>2. Len(more) = d + 1 /\ (\A i \in 1..d : more[i] = dlv[i]) /\ more[d + 1] = d + 1
    BY <1>2, <1>3, <2>1, AppendProperties
  <2>3. \A i \in 1..(d + 1) : i \in 1..d \/ i = d + 1
    BY <1>3, SMT
  <2> QED BY <2>1, <2>2, <2>3
<1> HIDE DEF more
<1>6. DataQueue(data, InHand(v, d + 1), acc, edge)
  BY <1>1, <1>2, <1>3, <1>4, DataWeaker DEF Parts
<1>7. Acks(acks, lo, r, edge, top + 1)
  BY <1>1, <1>3, AcksWeaker DEF Parts
<1>8. Enough(lo, n, d + 1, r, edge, top + 1, w, t, acc, v, more, data, acks)
  <2>1. r = InOrder(v, d + 1) /\ \A m \in InHand(v, d + 1) : m <= acc /\ m <= edge
    BY <1>1, <1>4 DEF Parts
  <2> QED BY <1>e, <1>3, <1>4, <1>5, <1>6, <1>7, <2>1, Zenon DEF Enough
<1>9. Linked(w, t, acc, v, more, data, acks)
  BY <1>8, EnoughLinked
<1>10. d < acc /\ d = Len(dlv)
  <2>1. d = Len(dlv) /\ r = InOrder(u, d)
    BY <1>1 DEF Parts
  <2> QED BY <1>3, <1>4, <2>1, SMT
<1> QED BY <1>4, <1>9, <1>10 DEF v, more

\* What the pass q over the window w sends.
Sent(w, q) == [j \in DOMAIN q |-> Data(w.send_buff[SendSlot(w, q[j])])]

\* A pass of thread S over the window: what it sends is in the send buffer,
\* after all that the sender has let go of, and within the window.
LEMMA LinkedSend ==
  ASSUME NEW w, NEW t, NEW acc, NEW u, NEW dlv, NEW data, NEW acks,
         LinkType(w, t, acc, u, dlv, data, acks), Linked(w, t, acc, u, dlv, data, acks),
         NEW q \in Passes(w)
  PROVE  /\ Sent(w, q) \in Seq(Datagram) /\ \A i \in DOMAIN Sent(w, q) : Sent(w, q)[i].type # "A"
         /\ Linked(MarkSent(w, q), t, acc, u, dlv, Arrive(data, Sent(w, q)), acks)
<1> DEFINE v == MarkSent(w, q)
           ds == Sent(w, q)
<1>1. PICK lo, n, d, r, edge, top : Parts(lo, n, d, r, edge, top, w, t, acc, u, dlv, data, acks)
  BY LinkedParts
<1>e. Enough(lo, n, d, r, edge, top, w, t, acc, u, dlv, data, acks)
  BY <1>1, PartsEnough
<1>2. w \in SendWindow /\ data \in Seq(Datagram)
  BY DEF LinkType
<1>3. v.window_size = w.window_size
  BY <1>2 DEF MarkSent, SendWindow
<1>4. /\ lo \in Nat /\ n \in 0..SENDER_MSG_BUFFER /\ n \in Nat /\ acc \in Nat /\ acc = lo + n
      /\ edge \in Nat /\ edge = lo + w.window_size /\ edge <= lo + RECEIVER_MSG_BUFFER
      /\ Holds(w, lo, n)
  BY <1>1, BufferFacts, SMT DEF Parts
<1>5. Holds(v, lo, n)
  BY <1>2, <1>4, HoldsMark
<1> HIDE DEF v
<1>6. PICK l \in Nat : q \in [1..l -> OpenOffsets(w)]
  BY <1>2, PassType
<1>7. \A i \in 1..l : ds[i] = Data(w.send_buff[SendSlot(w, q[i])]) /\ q[i] \in OpenOffsets(w)
  BY <1>6 DEF Sent
<1>8. ds \in Seq(Datagram) /\ DOMAIN ds = 1..l
  <2>1. \A i \in 1..l : ds[i] \in Datagram
    BY <1>2, <1>7, DataType
  <2>2. ds = [i \in 1..l |-> ds[i]]
    BY <1>6 DEF Sent
  <2> HIDE DEF ds
  <2> QED BY <2>1, <2>2, IsASeq
<1> HIDE DEF ds
<1>9. ASSUME NEW i \in DOMAIN ds
      PROVE  /\ ds[i].type = "D" /\ ds[i].body \in 1..acc /\ ds[i].body <= edge /\ lo < ds[i].body
             /\ ds[i].seq_no = Number(ds[i].body)
  <2>1. PICK k \in SendIndex : k \in OpenOffsets(w) /\ ds[i] = Data(w.send_buff[SendSlot(w, k)])
    BY <1>7, <1>8 DEF OpenOffsets
  <2>2. k < n /\ k < w.window_size
    BY <1>2, <1>4, <2>1, OpenHolds
  <2>3. /\ w.send_buff[SendSlot(w, k)].ack_no = Number(lo + k + 1)
        /\ w.send_buff[SendSlot(w, k)].message = lo + k + 1
    <3>1. SlotsHold(w, lo, n)
      BY <1>4, HoldsSlots
    <3> QED BY <2>2, <3>1 DEF SlotsHold
  <2>4. ds[i].type = "D" /\ ds[i].body = lo + k + 1 /\ ds[i].seq_no = Number(lo + k + 1)
    BY <2>1, <2>3 DEF Data
  <2>5. lo + k + 1 \in 1..acc /\ lo + k + 1 <= edge /\ lo < lo + k + 1
    <3>1. k \in Nat /\ w.window_size \in Nat
      BY <1>2, BufferFacts, SMT DEF SendIndex, SendWindow
    <3> QED BY <1>4, <2>2, <3>1, SMT
  <2> QED BY <2>4, <2>5
<1>10. DataQueue(Arrive(data, ds), InHand(u, d), acc, edge)
  BY <1>1, <1>2, <1>4, <1>8, <1>9, DataSent DEF Parts
<1>11. ProbeQueue(Arrive(data, ds), r)
  BY <1>1, <1>2, <1>8, <1>9, ProbeOthers DEF Parts
<1>12. Enough(lo, n, d, r, edge, top, v, t, acc, u, dlv, Arrive(data, ds), acks)
  BY <1>e, <1>3, <1>5, <1>10, <1>11, Zenon DEF Enough
<1>13. Linked(v, t, acc, u, dlv, Arrive(data, ds), acks)
  BY <1>12, EnoughLinked
<1>14. \A i \in DOMAIN ds : ds[i].type # "A"
  BY <1>9
<1> QED BY <1>8, <1>13, <1>14 DEF v, ds

\* A probe: the window is closed, so that the receiver has in order exactly
\* what the sender has let go of, and nothing newer is on the way.
LEMMA LinkedProbe ==
  ASSUME NEW w, NEW t, NEW acc, NEW u, NEW dlv, NEW data, NEW acks,
         LinkType(w, t, acc, u, dlv, data, acks), Linked(w, t, acc, u, dlv, data, acks),
         t.flag > 0
  PROVE  Linked(w, [t EXCEPT !.flag = Backoff(@)], acc, u, dlv, Arrive(data, <<Probe(t.ack_seq_no)>>), acks)
<1> DEFINE ds == <<Probe(t.ack_seq_no)>>
           z == [t EXCEPT !.flag = Backoff(@)]
<1>1. PICK lo, n, d, r, edge, top : Parts(lo, n, d, r, edge, top, w, t, acc, u, dlv, data, acks)
  BY LinkedParts
<1>e. Enough(lo, n, d, r, edge, top, w, t, acc, u, dlv, data, acks)
  BY <1>1, PartsEnough
<1>2. /\ w.window_size = 0 /\ data \in Seq(Datagram) /\ Probe(t.ack_seq_no) \in Datagram
      /\ z.ack_seq_no = t.ack_seq_no
  <2>1. t \in [flag : 0..4, ack_seq_no : 0..MaxSeq]
    BY DEF LinkType
  <2>2. Probe(t.ack_seq_no) \in Datagram
    BY <2>1 DEF Probe, Datagram
  <2> QED BY <2>1, <2>2 DEF LinkType
<1>3. r = lo /\ edge = lo
  <2>1. lo \in Nat /\ r \in Nat /\ lo <= r /\ r <= edge /\ edge = lo + 0
    BY <1>1, <1>2 DEF Parts
  <2> QED BY <2>1, SMT
<1>4. t.ack_seq_no = Number(r) /\ r \in Nat
  BY <1>1, <1>3 DEF Parts
<1>5. ProbeQueue(Arrive(data, ds), r)
  <2>1. \A i \in DOMAIN data : data[i].type = "D" => data[i].body <= r
    BY <1>1, <1>3 DEF Parts, DataQueue
  <2>2. ProbeQueue(Arrive(data, <<Probe(Number(r))>>), r)
    BY <1>1, <1>2, <1>4, <2>1, ProbeSent DEF Parts
  <2> QED BY <1>4, <2>2
<1>6. DataQueue(Arrive(data, ds), InHand(u, d), acc, edge)
  <2>1. ds \in Seq(Datagram) /\ \A i \in DOMAIN ds : ds[i] = Probe(t.ack_seq_no)
    BY <1>2
  <2>2. \A i \in DOMAIN ds : ds[i].type # "D"
    BY <2>1 DEF Probe
  <2> HIDE DEF ds
  <2> QED BY <1>1, <1>2, <2>1, <2>2, DataOthers DEF Parts
<1> HIDE DEF ds, z
<1>7. Enough(lo, n, d, r, edge, top, w, z, acc, u, dlv, Arrive(data, ds), acks)
  <2>1. z.ack_seq_no = Number(lo)
    BY <1>2, <1>3, <1>4
  <2> QED BY <1>e, <1>5, <1>6, <2>1, Zenon DEF Enough
<1>8. Linked(w, z, acc, u, dlv, Arrive(data, ds), acks)
  BY <1>7, EnoughLinked
<1> QED BY <1>8 DEF z, ds

\* Thread R takes the next message from the head of the queue.
LEMMA LinkedStore ==
  ASSUME NEW w, NEW t, NEW acc, NEW u, NEW dlv, NEW data, NEW acks,
         LinkType(w, t, acc, u, dlv, data, acks), Linked(w, t, acc, u, dlv, data, acks),
         1 \in DOMAIN data, data[1].type = "D", IsNext(u, data[1]), NEW k \in InOrderRuns(u)
  PROVE  /\ LinkType(w, t, acc, StoreInOrder(u, data[1].body, k), dlv, RemoveAt(data, 1), acks)
         /\ Linked(w, t, acc, StoreInOrder(u, data[1].body, k), dlv, RemoveAt(data, 1), acks)
         /\ AckRun(u, k) = Ack(Number(InOrder(StoreInOrder(u, data[1].body, k), Len(dlv))),
                               StoreInOrder(u, data[1].body, k).window_size)
<1> DEFINE b == data[1].body
           v == StoreInOrder(u, b, k)
<1>1. PICK lo, n, d, r, edge, top : Parts(lo, n, d, r, edge, top, w, t, acc, u, dlv, data, acks)
  BY LinkedParts
<1>e. Enough(lo, n, d, r, edge, top, w, t, acc, u, dlv, data, acks)
  BY <1>1, PartsEnough
<1>2. u \in RecvWindow /\ ReceiveRing(u) /\ data \in Seq(Datagram) /\ acks \in Seq(Datagram)
  BY DEF LinkType
<1>3. /\ lo \in Nat /\ acc \in Nat /\ d \in Nat /\ r \in Nat /\ edge \in Nat /\ top \in Nat
      /\ edge <= top /\ top = d + RECEIVER_MSG_BUFFER /\ lo <= r /\ r = InOrder(u, d) /\ d = Len(dlv)
  BY <1>1 DEF Parts
<1>4. b \in Nat /\ b <= acc /\ b <= edge /\ b <= top /\ data[1].seq_no = Number(b) /\ r < b + RECEIVER_MSG_BUFFER
  <2>1. DataQueue(data, InHand(u, d), acc, edge) /\ r \in InHand(u, d)
    BY <1>1, <1>3 DEF Parts, InHand
  <2>2. b \in 1..acc /\ b <= edge /\ data[1].seq_no = Number(b) /\ r < b + RECEIVER_MSG_BUFFER
    BY <2>1 DEF DataQueue
  <2> QED BY <1>3, <2>2, SMT
<1>5. b = r + 1
  <2>1. 0 < u.window_size /\ data[1].seq_no = u.next_seq_no /\ u.next_seq_no = Number(r + 1)
    BY <1>1, SMT DEF IsNext, Parts, Continues
  <2>2. SeqAdd(u.next_seq_no, 0) = u.next_seq_no
    <3>1. r + 1 \in Nat /\ 0 \in Nat /\ r + 1 + 0 = r + 1
      BY <1>3, SMT
    <3>2. SeqAdd(Number(r + 1), 0) = Number(r + 1 + 0)
      BY <3>1, NumberAdd
    <3> QED BY <2>1, <3>1, <3>2
  <2>3. Number(b) = SeqAdd(u.next_seq_no, 0) /\ b <= d + RECEIVER_MSG_BUFFER
    BY <1>3, <1>4, <2>1, <2>2
  <2>4. Continues(u, d) /\ 0 \in Nat /\ InOrder(u, d) < b + RECEIVER_MSG_BUFFER
    BY <1>1, <1>3, <1>4 DEF Parts
  <2>5. b = InOrder(u, d) + 0 + 1
    BY <1>2, <1>3, <1>4, <2>1, <2>3, <2>4, NumberExpected
  <2> QED BY <1>3, <2>5, SMT
<1>6. /\ k \in 1..u.window_size /\ InOrder(v, d) = r + k /\ v.window_size = u.window_size - k
      /\ \A i \in InHand(v, d) : i \in InHand(u, d) \/ i = b
      /\ Continues(v, d) /\ AckRun(u, k) = Ack(Number(r + k), u.window_size - k)
  <2>1. Continues(u, d) /\ b = InOrder(u, d) + 1
    BY <1>1, <1>3, <1>5 DEF Parts
  <2> HIDE DEF b
  <2> QED BY <1>2, <1>3, <1>4, <2>1, ContinuesStore
<1>7. v \in RecvWindow /\ ReceiveRing(v)
  BY <1>2, <1>4, RecvWindowType, StoreInOrderRing
<1> DEFINE rest == RemoveAt(data, 1)
<1>8. rest \in Seq(Datagram)
  BY <1>2, HeadGone
<1>9. LinkType(w, t, acc, v, dlv, rest, acks)
  BY <1>7, <1>8 DEF LinkType
<1> HIDE DEF v
<1>10. DataQueue(rest, InHand(v, d), acc, edge)
  <2>1. \A m \in InHand(v, d) : m \in InHand(u, d) \/ (data[1].type = "D" /\ m = data[1].body)
    BY <1>6
  <2> QED BY <1>1, <1>2, <1>3, <2>1, DataHeadGone DEF Parts
<1>11. ProbeQueue(rest, r + k)
  <2>1. b > r /\ ProbeQueue(data, r)
    BY <1>1, <1>3, <1>5, SMT DEF Parts
  <2> QED BY <1>2, <1>3, <1>4, <2>1, NoProbeBehindNext
<1>12. r + k \in Nat /\ r <= r + k /\ lo <= r + k /\ top <= top
  <2>1. u.window_size \in Nat
    BY <1>2, RecvFields
  <2> QED BY <1>3, <1>6, <2>1, SMT
<1>13. Acks(acks, lo, r + k, edge, top)
  BY <1>1, <1>3, <1>12, AcksWeaker DEF Parts
<1>14. \A m \in InHand(v, d) : m <= acc /\ m <= edge
  BY <1>1, <1>4, <1>6 DEF Parts
<1> HIDE DEF rest
<1>15. Enough(lo, n, d, r + k, edge, top, w, t, acc, v, dlv, rest, acks)
  BY <1>e, <1>6, <1>10, <1>11, <1>12, <1>13, <1>14, Zenon DEF Enough
<1>16. Linked(w, t, acc, v, dlv, rest, acks)
  BY <1>15, EnoughLinked
<1> QED BY <1>3, <1>6, <1>9, <1>16 DEF v, rest

\* Thread R takes a later message from the head of the queue.
LEMMA LinkedEarly ==
  ASSUME NEW w, NEW t, NEW acc, NEW u, NEW dlv, NEW data, NEW acks,
         LinkType(w, t, acc, u, dlv, data, acks), Linked(w, t, acc, u, dlv, data, acks),
         1 \in DOMAIN data, data[1].type = "D", NEW k \in ExpectedAt(u, data[1])
  PROVE  /\ LinkType(w, t, acc, StoreEarly(u, data[1], k), dlv, RemoveAt(data, 1), acks)
         /\ Linked(w, t, acc, StoreEarly(u, data[1], k), dlv, RemoveAt(data, 1), acks)
         /\ AckInOrder(u) = Ack(Number(InOrder(StoreEarly(u, data[1], k), Len(dlv))),
                                StoreEarly(u, data[1], k).window_size)
<1> DEFINE g == data[1]
           v == StoreEarly(u, g, k)
<1>1. PICK lo, n, d, r, edge, top : Parts(lo, n, d, r, edge, top, w, t, acc, u, dlv, data, acks)
  BY LinkedParts
<1>e. Enough(lo, n, d, r, edge, top, w, t, acc, u, dlv, data, acks)
  BY <1>1, PartsEnough
<1>2. u \in RecvWindow /\ ReceiveRing(u) /\ data \in Seq(Datagram) /\ acks \in Seq(Datagram)
  BY DEF LinkType
<1>3. /\ acc \in Nat /\ d \in Nat /\ r \in Nat /\ edge \in Nat /\ top \in Nat
      /\ edge <= top /\ top = d + RECEIVER_MSG_BUFFER /\ r = InOrder(u, d) /\ d = Len(dlv)
      /\ Continues(u, d) /\ DataQueue(data, InHand(u, d), acc, edge)
  BY <1>1 DEF Parts
<1>4. /\ g \in Datagram /\ g.body \in Nat /\ g.body <= acc /\ g.body <= edge /\ g.body <= d + RECEIVER_MSG_BUFFER
      /\ g.seq_no = Number(g.body) /\ InOrder(u, d) < g.body + RECEIVER_MSG_BUFFER
  <2>1. r \in InHand(u, d) /\ g \in Datagram
    BY <1>2, <1>3, HeadGone, ElementOfSeq, SMT DEF InHand
  <2>2. g.body \in 1..acc /\ g.body <= edge /\ g.seq_no = Number(g.body) /\ r < g.body + RECEIVER_MSG_BUFFER
    BY <1>3, <2>1 DEF DataQueue
  <2> QED BY <1>3, <2>1, <2>2, SMT
<1>5. k \in Nat /\ k < u.window_size /\ g.seq_no = SeqAdd(u.next_seq_no, k)
  BY BufferFacts, SMT DEF ExpectedAt
<1>6. g.body = InOrder(u, d) + k + 1
  <2>1. Number(g.body) = SeqAdd(u.next_seq_no, k)
    BY <1>4, <1>5
  <2> HIDE DEF g
  <2> QED BY <1>2, <1>3, <1>4, <1>5, <2>1, NumberExpected
<1>7. /\ InOrder(v, d) = InOrder(u, d) /\ v.window_size = u.window_size
      /\ \A i \in InHand(v, d) : i \in InHand(u, d) \/ i = g.body
      /\ Continues(v, d)
  BY <1>2, <1>3, <1>4, <1>6, ContinuesEarly
<1>8. v \in RecvWindow /\ ReceiveRing(v)
  BY <1>2, <1>4, RecvWindowType, StoreEarlyRing
<1> DEFINE rest == RemoveAt(data, 1)
<1>9. rest \in Seq(Datagram)
  BY <1>2, HeadGone
<1>10. LinkType(w, t, acc, v, dlv, rest, acks)
  BY <1>8, <1>9 DEF LinkType
<1> HIDE DEF v
<1>11. DataQueue(rest, InHand(v, d), acc, edge)
  <2>1. \A m \in InHand(v, d) : m \in InHand(u, d) \/ (data[1].type = "D" /\ m = data[1].body)
    BY <1>7
  <2> QED BY <1>2, <1>3, <2>1, DataHeadGone
<1>12. ProbeQueue(rest, r)
  BY <1>1, <1>2, <1>3, ProbeHeadGone DEF Parts
<1>13. \A m \in InHand(v, d) : m <= acc /\ m <= edge
  BY <1>1, <1>4, <1>7 DEF Parts
<1> HIDE DEF rest
<1>14. Enough(lo, n, d, r, edge, top, w, t, acc, v, dlv, rest, acks)
  BY <1>e, <1>3, <1>7, <1>11, <1>12, <1>13, Zenon DEF Enough
<1>15. Linked(w, t, acc, v, dlv, rest, acks)
  BY <1>14, EnoughLinked
<1>16. AckInOrder(u) = Ack(Number(InOrder(v, Len(dlv))), v.window_size)
  BY <1>2, <1>3, <1>7, SnapshotOf
<1> QED BY <1>10, <1>15, <1>16 DEF v, rest

\* What lo stands for.
Released(w, acc) == acc - Held(w)

LEMMA ReleasedIs ==
  ASSUME NEW w \in SendWindow, NEW lo \in Nat, NEW n \in 0..SENDER_MSG_BUFFER, Holds(w, lo, n)
  PROVE  Released(w, lo + n) = lo
<1>1. n \in Nat
  BY SMT
<1>2. SlotsHold(w, lo, n)
  BY <1>1, HoldsSlots
<1>3. Held(w) = n
  BY <1>2, HeldIs DEF SlotsHold
<1> QED BY <1>1, <1>3, SMT DEF Released

\* Thread R takes an ACK from the head of the queue: the sender lets go of
\* what it acknowledges, and the right edge of its window does not go back.
LEMMA LinkedAck ==
  ASSUME NEW w, NEW t, NEW acc, NEW u, NEW dlv, NEW data, NEW acks,
         LinkType(w, t, acc, u, dlv, data, acks), Linked(w, t, acc, u, dlv, data, acks),
         1 \in DOMAIN acks, acks[1].type = "A", NEW v,
         \/ \E k \in AckedAt(w, acks[1].seq_no) : v = [SlidePast(w, k) EXCEPT !.window_size = acks[1].body]
         \/ /\ AckedAt(w, acks[1].seq_no) = {}
            /\ v = [w EXCEPT !.window_size = acks[1].body]
  PROVE  /\ Linked(v, TimerAfter(t, acks[1].seq_no, acks[1].body), acc, u, dlv, data, RemoveAt(acks, 1))
         /\ Released(v, acc) + v.window_size >= Released(w, acc) + w.window_size
<1> DEFINE size == acks[1].body
           z == TimerAfter(t, acks[1].seq_no, size)
<1>1. PICK lo, n, d, r, edge, top : Parts(lo, n, d, r, edge, top, w, t, acc, u, dlv, data, acks)
  BY LinkedParts
<1>e. Enough(lo, n, d, r, edge, top, w, t, acc, u, dlv, data, acks)
  BY <1>1, PartsEnough
<1>2. /\ w \in SendWindow /\ data \in Seq(Datagram) /\ acks \in Seq(Datagram)
      /\ t \in [flag : 0..4, ack_seq_no : 0..MaxSeq]
  BY DEF LinkType
<1>3. /\ lo \in Nat /\ n \in 0..SENDER_MSG_BUFFER /\ n \in Nat /\ acc \in Nat /\ acc = lo + n
      /\ r \in Nat /\ edge \in Nat /\ top \in Nat
      /\ edge = lo + w.window_size /\ w.window_size \in 0..RECEIVER_MSG_BUFFER
      /\ r <= acc /\ r <= edge /\ Holds(w, lo, n) /\ Acks(acks, lo, r, edge, top)
  BY <1>1, SMT DEF Parts
<1>4. PICK a \in lo..r : /\ acks[1].seq_no = Number(a) /\ size \in 0..RECEIVER_MSG_BUFFER
                         /\ a + size \in edge..top
                         /\ Acks(RemoveAt(acks, 1), a, r, a + size, top)
  BY <1>2, <1>3, AcksFirst
<1> HIDE DEF size
<1>5. /\ a \in Nat /\ a \in lo..(lo + n) /\ a <= lo + w.window_size /\ w.window_size <= RECEIVER_MSG_BUFFER
      /\ size \in Nat /\ size <= RECEIVER_MSG_BUFFER /\ a <= r /\ a + size \in Nat
      /\ edge <= a + size /\ a + size <= top /\ acc - a \in 0..SENDER_MSG_BUFFER /\ acc = a + (acc - a)
      /\ acc <= acc
  BY <1>3, <1>4, BufferFacts, SMT
<1>6. /\ a = lo => AckedAt(w, acks[1].seq_no) = {}
      /\ a > lo => /\ a - lo - 1 \in OpenOffsets(w)
                   /\ AckedAt(w, acks[1].seq_no) = {a - lo - 1}
  BY <1>2, <1>3, <1>4, <1>5, AckMeans
<1>7. Holds(v, a, acc - a) /\ v \in SendWindow /\ v.window_size = size
  <2>1. CASE a = lo
    <3>1. v = [w EXCEPT !.window_size = size] /\ acc - a = n
      BY <1>3, <1>6, <2>1, SMT DEF size
    <3>2. v \in SendWindow /\ v.window_size = size
      BY <1>2, <1>5, <3>1 DEF SendWindow
    <3> QED BY <1>2, <1>3, <2>1, <3>1, <3>2, HoldsSize
  <2>2. CASE a > lo
    <3> DEFINE k == a - lo - 1
    <3>1. k \in OpenOffsets(w) /\ v = [SlidePast(w, k) EXCEPT !.window_size = size]
      <4>1. AckedAt(w, acks[1].seq_no) = {k} /\ k \in OpenOffsets(w)
        BY <1>6, <2>2
      <4> HIDE DEF k
      <4> QED BY <4>1 DEF size
    <3>2. lo + k + 1 = a /\ n - k - 1 = acc - a /\ acc - a \in Nat
      BY <1>3, <1>5, <2>2, SMT
    <3> HIDE DEF k
    <3>3. Holds(SlidePast(w, k), a, acc - a)
      <4>1. Holds(SlidePast(w, k), lo + k + 1, n - k - 1)
        BY <1>2, <1>3, <3>1, HoldsSlide
      <4> QED BY <3>2, <4>1
    <3>4. SlidePast(w, k) \in SendWindow /\ v \in SendWindow
      <4>1. \A s \in Nat : [SlidePast(w, k) EXCEPT !.window_size = s] \in SendWindow
        BY <1>2, <3>1, SendWindowType
      <4>2. w.window_size \in Nat
        BY <1>2 DEF SendWindow
      <4>3. [SlidePast(w, k) EXCEPT !.window_size = w.window_size] = SlidePast(w, k)
        BY <1>2 DEF SlidePast, SendWindow
      <4> QED BY <1>5, <3>1, <4>1, <4>2, <4>3
    <3>5. v.window_size = size
      BY <3>1, <3>4 DEF SendWindow
    <3> QED BY <1>5, <3>1, <3>2, <3>3, <3>4, <3>5, HoldsSize
  <2> QED BY <1>3, <1>5, <2>1, <2>2, SMT
<1>8. z.flag > 0 => z.ack_seq_no = Number(a)
  <2>1. CASE size > 0
    <3>1. z.flag = 0
      BY <1>2, <2>1 DEF TimerAfter
    <3> QED BY <3>1, SMT
  <2>2. CASE ~(size > 0)
    BY <1>4, <2>2 DEF TimerAfter
  <2> QED BY <2>1, <2>2
<1> HIDE DEF z
<1> DEFINE rest == RemoveAt(acks, 1)
           far == a + size
<1>9. DataQueue(data, InHand(u, d), acc, far)
  <2>1. DataQueue(data, InHand(u, d), acc, edge) /\ InHand(u, d) \subseteq InHand(u, d)
    BY <1>1 DEF Parts
  <2> HIDE DEF far
  <2> QED BY <1>2, <1>3, <1>5, <2>1, DataWeaker DEF far
<1>10. \A m \in InHand(u, d) : m <= acc /\ m <= far
  <2>1. \A m \in InHand(u, d) : m \in Nat /\ m <= acc /\ m <= edge
    BY <1>1 DEF Parts
  <2> QED BY <1>3, <1>5, <2>1, SMT
<1>11. Acks(rest, a, r, far, top)
  BY <1>4
<1>12. far = a + v.window_size /\ v.window_size <= RECEIVER_MSG_BUFFER /\ far <= top
  BY <1>5, <1>7
<1> HIDE DEF rest, far
<1>13. Enough(a, acc - a, d, r, far, top, v, z, acc, u, dlv, data, rest)
  BY <1>e, <1>5, <1>7, <1>8, <1>9, <1>10, <1>11, <1>12, Zenon DEF Enough
<1>14. Linked(v, z, acc, u, dlv, data, rest)
  BY <1>13, EnoughLinked
<1>15. Released(v, acc) + v.window_size >= Released(w, acc) + w.window_size
  <2>1. Released(w, acc) = lo
    BY <1>2, <1>3, ReleasedIs
  <2>2. Released(v, acc) = a
    BY <1>5, <1>7, ReleasedIs
  <2> QED BY <1>3, <1>5, <1>7, <2>1, <2>2, SMT
<1> QED BY <1>14, <1>15 DEF z, rest, size

-----------------------------------------------------------------------------
(* The actions.                                                            *)

LinkInv == TypeOK /\ ReceiveRingOK /\ ClosedWindowIsProbed /\ LinkOK

LEMMA PeerFacts ==
  ASSUME NEW s \in Socks
  PROVE  /\ Peer[s] \in Socks /\ Peer[s] # s /\ Peer[Peer[s]] = s
         /\ \A z \in Socks : z = s \/ z = Peer[s] \/ (Peer[z] # s /\ Peer[z] # Peer[s])
BY PeerAssumption

\* The types of what links s to its peer.
LinkTyped(s) == LinkType(send_window[s], persistence_timer[s], accepted[s],
                         recv_window[Peer[s]], delivered[Peer[s]], udp[Peer[s]], udp[s])

LEMMA LinkTypeOf ==
  ASSUME LinkInv, NEW s \in Socks
  PROVE  LinkTyped(s) /\ Link(s)
<1>1. Peer[s] \in Socks
  BY PeerFacts
<1> QED BY <1>1 DEF LinkInv, TypeOK, ReceiveRingOK, ClosedWindowIsProbed, LinkOK, LinkTyped, LinkType

\* An action that leaves everything between z and its peer alone.
LEMMA LinkFrame ==
  ASSUME LinkInv, NEW z \in Socks,
         send_window'[z] = send_window[z], persistence_timer'[z] = persistence_timer[z],
         accepted'[z] = accepted[z],
         recv_window'[Peer[z]] = recv_window[Peer[z]], delivered'[Peer[z]] = delivered[Peer[z]],
         udp'[Peer[z]] = udp[Peer[z]], udp'[z] = udp[z]
  PROVE  Link(z)'
<1>1. Link(z)
  BY DEF LinkInv, LinkOK
<1> QED BY <1>1 DEF Link

\* On a network that keeps the order R takes the head of a queue.
LEMMA ArrivedHead ==
  ASSUME Overtake = 0, TypeOK, NEW s \in Socks, NEW i \in Arrived(s)
  PROVE  i = 1 /\ 1 \in DOMAIN udp[s] /\ udp[s] \in Seq(Datagram) /\ udp[s][1] \in Datagram
<1>1. udp[s] \in Seq(Datagram)
  BY DEF TypeOK
<1>2. i \in 1..(1 + 0) /\ i <= Len(udp[s]) /\ Len(udp[s]) \in Nat /\ DOMAIN udp[s] = 1..Len(udp[s])
  BY <1>1, LenProperties DEF Arrived
<1>3. i = 1 /\ 1 \in 1..Len(udp[s])
  BY <1>2, SMT
<1> QED BY <1>1, <1>2, <1>3, ElementOfSeq

LEMMA LinkInit == Init => LinkOK
<1> SUFFICES ASSUME Init, NEW s \in Socks PROVE Link(s)
  BY DEF LinkOK
<1> DEFINE w == NewSendWindow
           u == NewRecvWindow
           t == [flag |-> 0, ack_seq_no |-> 0]
<1>1. /\ send_window[s] = w /\ persistence_timer[s] = t /\ accepted[s] = 0
      /\ recv_window[Peer[s]] = u /\ delivered[Peer[s]] = << >> /\ udp[Peer[s]] = << >> /\ udp[s] = << >>
  BY PeerFacts DEF Init
<1>2. w.window_size = RECEIVER_MSG_BUFFER /\ w.last_seq_no = 0 /\ w.window_start_index = 0
  BY DEF NewSendWindow
<1>3. \A i \in SendIndex : w.send_buff[i].ack_no = FREE
  BY DEF NewSendWindow
<1>4. w \in SendWindow /\ u \in RecvWindow
  BY <1>1, TypeInit, PeerFacts DEF TypeOK
<1>5. /\ u.window_size = RECEIVER_MSG_BUFFER /\ u.next_seq_no = 1
      /\ \A i \in RecvIndex : u.recv_buff[i].ack_no = FREE
  BY DEF NewRecvWindow
<1> HIDE DEF w, u
<1>6. Number(1) = 1
  <2>1. 0 - 1 + 1 = 0 /\ 0 % MaxSeq = 0 /\ 0 + 1 = 1
    BY BufferFacts, SMT
  <2> QED BY <2>1 DEF Number, SeqAdd
<1>7. Holds(w, 0, 0)
  <2>1. SeqAdd(w.last_seq_no, 1) = Number(0 + 0 + 1)
    <3>1. 0 + 0 + 1 = 1
      BY SMT
    <3> QED BY <1>2, <3>1 DEF Number
  <2>2. \A k \in SendIndex : ~(k < 0) /\ w.send_buff[SendSlot(w, k)].ack_no = FREE
    <3>1. \A k \in SendIndex : SendSlot(w, k) \in SendIndex
      BY <1>4, SendFields
    <3>2. \A k \in SendIndex : ~(k < 0)
      BY SMT DEF SendIndex
    <3> QED BY <1>3, <3>1, <3>2
  <2>3. 0 \in Nat
    OBVIOUS
  <2> QED BY <2>1, <2>2, <2>3, HoldsBy
<1>8. InOrder(u, 0) = 0 /\ 0 + RECEIVER_MSG_BUFFER = RECEIVER_MSG_BUFFER
  BY <1>5, BufferFacts, SMT DEF InOrder
<1>9. \A k \in RecvIndex : ~CameEarly(u, k)
  <2>1. \A k \in RecvIndex : WriteSlot(u, k) \in RecvIndex
    <3>1. \A k \in RecvIndex : k \in 0..RECEIVER_MSG_BUFFER
      BY BufferFacts, SMT DEF RecvIndex
    <3> QED BY <1>4, <3>1, RecvSlotStep
  <2> QED BY <1>5, <2>1 DEF CameEarly
<1>10. Continues(u, 0)
  <2>1. u.next_seq_no = Number(InOrder(u, 0) + 1)
    BY <1>5, <1>6, <1>8
  <2>2. \A k \in RecvIndex : ~(k < RECEIVER_MSG_BUFFER - u.window_size)
    BY <1>5, BufferFacts, SMT DEF RecvIndex
  <2> QED BY <1>9, <2>1, <2>2 DEF Continues
<1>11. \A m \in InHand(u, 0) : m = 0
  BY <1>8, <1>9 DEF InHand
<1>12. Len(<< >>) = 0 /\ DOMAIN << >> = {} /\ 1..0 = {}
  <2>1. 1..0 = {}
    BY SMT
  <2> QED BY <2>1, EmptySeq, LenProperties
<1>13. /\ DataQueue(<< >>, InHand(u, 0), 0, RECEIVER_MSG_BUFFER) /\ ProbeQueue(<< >>, 0)
       /\ Acks(<< >>, 0, 0, RECEIVER_MSG_BUFFER, RECEIVER_MSG_BUFFER)
  <2>1. \A ord : AckQueue(<< >>, ord, 0, 0, RECEIVER_MSG_BUFFER, RECEIVER_MSG_BUFFER)
    BY <1>12 DEF AckQueue
  <2>2. [i \in DOMAIN << >> |-> 0] \in [DOMAIN << >> -> 0..0]
    BY SMT
  <2> QED BY <1>12, <2>1, <2>2 DEF DataQueue, ProbeQueue, Acks
<1>14. Enough(0, 0, 0, 0, RECEIVER_MSG_BUFFER, RECEIVER_MSG_BUFFER, w, t, 0, u, << >>, << >>, << >>)
  <2>1. /\ 0 \in Nat /\ 0 \in 0..SENDER_MSG_BUFFER /\ 0 = 0 + 0 /\ 0 <= 0 /\ 0 <= RECEIVER_MSG_BUFFER
        /\ RECEIVER_MSG_BUFFER <= RECEIVER_MSG_BUFFER
    BY BufferFacts, SMT
  <2>2. ~(t.flag > 0)
    BY SMT
  <2>3. \A i \in 1..0 : << >>[i] = i
    BY <1>12
  <2>4. \A m \in InHand(u, 0) : m <= 0 /\ m <= RECEIVER_MSG_BUFFER
    BY <1>11, <2>1
  <2> HIDE DEF t
  <2> QED BY <1>2, <1>7, <1>8, <1>10, <1>12, <1>13, <2>1, <2>2, <2>3, <2>4 DEF Enough
<1> QED BY <1>1, <1>14, EnoughLinked DEF Link

LEMMA SendLink ==
  ASSUME LinkInv, NEW s \in Socks, m_sendto(s)
  PROVE  LinkOK' /\ accepted[s] - Len(delivered[Peer[s]]) < SENDER_MSG_BUFFER + RECEIVER_MSG_BUFFER
<1>1. LinkTyped(s) /\ Link(s)
  BY LinkTypeOf
<1>2. PICK k \in SendIndex :
        /\ send_window[s].send_buff[SendSlot(send_window[s], k)].ack_no = FREE
        /\ \A j \in 0..(k - 1) : send_window[s].send_buff[SendSlot(send_window[s], j)].ack_no # FREE
        /\ send_window' = [send_window EXCEPT ![s] = Enqueue(@, k, accepted[s] + 1)]
  BY DEF m_sendto
<1>3. /\ send_window'[s] = Enqueue(send_window[s], k, accepted[s] + 1)
      /\ \A z \in Socks : z # s => send_window'[z] = send_window[z]
      /\ accepted'[s] = accepted[s] + 1 /\ \A z \in Socks : z # s => accepted'[z] = accepted[z]
      /\ UNCHANGED <<recv_window, persistence_timer, udp, delivered>>
  BY <1>2 DEF m_sendto, LinkInv, TypeOK
<1>4. /\ Linked(Enqueue(send_window[s], k, accepted[s] + 1), persistence_timer[s], accepted[s] + 1,
                recv_window[Peer[s]], delivered[Peer[s]], udp[Peer[s]], udp[s])
      /\ accepted[s] - Len(delivered[Peer[s]]) < SENDER_MSG_BUFFER + RECEIVER_MSG_BUFFER
  BY <1>1, <1>2, LinkedEnqueue DEF LinkTyped, Link
<1>5. Link(s)'
  BY <1>3, <1>4 DEF Link
<1>6. ASSUME NEW z \in Socks, z # s PROVE Link(z)'
  BY <1>3, <1>6, LinkFrame
<1> QED BY <1>4, <1>5, <1>6 DEF LinkOK

LEMMA RecvLink ==
  ASSUME LinkInv, NEW s \in Socks, m_recvfrom(s)
  PROVE  /\ LinkOK'
         /\ Len(delivered[s]) < accepted[Peer[s]]
         /\ delivered' = [delivered EXCEPT ![s] = Append(@, Len(@) + 1)]
<1> DEFINE p == Peer[s]
           u == recv_window[s]
<1>0. p \in Socks /\ p # s /\ Peer[p] = s
  BY PeerFacts
<1>1. LinkTyped(p) /\ Link(p)
  BY <1>0, LinkTypeOf
<1>2. u.recv_buff[u.index_to_read].ack_no # FREE
  BY DEF m_recvfrom
<1>3. /\ u.recv_buff[u.index_to_read].message = Len(delivered[s]) + 1 /\ Len(delivered[s]) < accepted[p]
      /\ Linked(send_window[p], persistence_timer[p], accepted[p],
                Dequeue(u), Append(delivered[s], Len(delivered[s]) + 1), udp[s], udp[p])
  BY <1>0, <1>1, <1>2, LinkedDequeue DEF LinkTyped, Link
<1>4. delivered' = [delivered EXCEPT ![s] = Append(@, Len(@) + 1)]
  BY <1>3 DEF m_recvfrom
<1>5. /\ delivered'[s] = Append(delivered[s], Len(delivered[s]) + 1)
      /\ \A z \in Socks : z # s => delivered'[z] = delivered[z]
      /\ recv_window'[s] = Dequeue(u) /\ \A z \in Socks : z # s => recv_window'[z] = recv_window[z]
      /\ UNCHANGED <<send_window, persistence_timer, udp, accepted>>
  BY <1>4 DEF m_recvfrom, LinkInv, TypeOK
<1>6. Link(p)'
  BY <1>0, <1>3, <1>5 DEF Link
<1>7. ASSUME NEW z \in Socks, z # p PROVE Link(z)'
  <2>1. Peer[z] \in Socks /\ Peer[z] # s
    BY <1>7, PeerFacts
  <2> QED BY <1>5, <2>1, LinkFrame
<1> QED BY <1>3, <1>4, <1>6, <1>7 DEF LinkOK

\* What thread S sends from s to its peer leaves the other direction alone.
LEMMA SentElsewhere ==
  ASSUME LinkInv, NEW s \in Socks, NEW ds \in Seq(Datagram), \A i \in DOMAIN ds : ds[i].type # "A",
         udp' = [udp EXCEPT ![Peer[s]] = Arrive(@, ds)],
         \A z \in Socks : z # s => /\ send_window'[z] = send_window[z]
                                   /\ persistence_timer'[z] = persistence_timer[z],
         UNCHANGED <<recv_window, accepted, delivered>>
  PROVE  /\ udp'[Peer[s]] = Arrive(udp[Peer[s]], ds) /\ udp'[s] = udp[s]
         /\ \A z \in Socks : z # s => Link(z)'
<1> DEFINE p == Peer[s]
<1>0. p \in Socks /\ p # s /\ Peer[p] = s
  BY PeerFacts
<1>1. udp'[p] = Arrive(udp[p], ds) /\ \A z \in Socks : z # p => udp'[z] = udp[z]
  BY <1>0 DEF LinkInv, TypeOK
<1>2. LinkTyped(p) /\ Link(p)
  BY <1>0, LinkTypeOf
<1>3. Linked(send_window[p], persistence_timer[p], accepted[p], recv_window[s], delivered[s], udp[s],
             Arrive(udp[p], ds))
  BY <1>0, <1>2, LinkedOthers DEF LinkTyped, Link
<1>4. Link(p)'
  BY <1>0, <1>1, <1>3 DEF Link
<1>5. ASSUME NEW z \in Socks, z # s, z # p PROVE Link(z)'
  <2>1. Peer[z] # s /\ Peer[z] # p /\ Peer[z] \in Socks
    BY <1>5, PeerFacts
  <2> QED BY <1>1, <1>5, <2>1, LinkFrame
<1> QED BY <1>0, <1>1, <1>4, <1>5

LEMMA ProbeLink ==
  ASSUME LinkInv, NEW s \in Socks, SendProbe(s)
  PROVE  LinkOK'
<1> DEFINE t == persistence_timer[s]
           ds == <<Probe(t.ack_seq_no)>>
<1>1. LinkTyped(s) /\ Link(s) /\ t.flag > 0
  BY LinkTypeOf DEF SendProbe
<1>2. /\ persistence_timer'[s] = [t EXCEPT !.flag = Backoff(@)]
      /\ \A z \in Socks : z # s => persistence_timer'[z] = persistence_timer[z]
      /\ udp' = [udp EXCEPT ![Peer[s]] = Arrive(@, ds)]
      /\ UNCHANGED <<send_window, recv_window, accepted, delivered>>
  BY DEF SendProbe, LinkInv, TypeOK
<1>3. ds \in Seq(Datagram) /\ \A i \in DOMAIN ds : ds[i].type # "A"
  <2>1. t \in [flag : 0..4, ack_seq_no : 0..MaxSeq]
    BY DEF LinkInv, TypeOK
  <2>2. Probe(t.ack_seq_no) \in Datagram /\ Probe(t.ack_seq_no).type # "A"
    BY <2>1 DEF Probe, Datagram
  <2>3. \A i \in DOMAIN ds : ds[i] = Probe(t.ack_seq_no)
    BY <2>2, OneDatagram
  <2> QED BY <2>2, <2>3, OneDatagram
<1>4. Linked(send_window[s], [t EXCEPT !.flag = Backoff(@)], accepted[s],
             recv_window[Peer[s]], delivered[Peer[s]], Arrive(udp[Peer[s]], ds), udp[s])
  BY <1>1, LinkedProbe DEF LinkTyped, Link
<1> HIDE DEF ds
<1>5. /\ udp'[Peer[s]] = Arrive(udp[Peer[s]], ds) /\ udp'[s] = udp[s]
      /\ \A z \in Socks : z # s => Link(z)'
  BY <1>2, <1>3, SentElsewhere
<1>6. Link(s)'
  BY <1>2, <1>4, <1>5 DEF Link
<1> QED BY <1>5, <1>6 DEF LinkOK

LEMMA PassLink ==
  ASSUME LinkInv, NEW s \in Socks, NEW q \in Passes(send_window[s]), SendPass(s, q)
  PROVE  LinkOK'
<1> DEFINE ds == Sent(send_window[s], q)
<1>1. LinkTyped(s) /\ Link(s)
  BY LinkTypeOf
<1>2. /\ send_window'[s] = MarkSent(send_window[s], q)
      /\ \A z \in Socks : z # s => send_window'[z] = send_window[z]
      /\ udp' = [udp EXCEPT ![Peer[s]] = Arrive(@, ds)]
      /\ UNCHANGED <<persistence_timer, recv_window, accepted, delivered>>
  BY DEF SendPass, Sent, LinkInv, TypeOK
<1>3. /\ ds \in Seq(Datagram) /\ \A i \in DOMAIN ds : ds[i].type # "A"
      /\ Linked(MarkSent(send_window[s], q), persistence_timer[s], accepted[s],
                recv_window[Peer[s]], delivered[Peer[s]], Arrive(udp[Peer[s]], ds), udp[s])
  BY <1>1, LinkedSend DEF LinkTyped, Link
<1> HIDE DEF ds
<1>4. /\ udp'[Peer[s]] = Arrive(udp[Peer[s]], ds) /\ udp'[s] = udp[s]
      /\ \A z \in Socks : z # s => Link(z)'
  BY <1>2, <1>3, SentElsewhere
<1>5. Link(s)'
  BY <1>2, <1>3, <1>4 DEF Link
<1> QED BY <1>4, <1>5 DEF LinkOK

\* Taking the head of the queue of s and answering it with an ACK leaves all
\* but what comes from the peer of s alone.
LEMMA AnswerElsewhere ==
  ASSUME LinkInv, NEW s \in Socks, 1 \in DOMAIN udp[s], NEW g \in Datagram, g.type = "A", Answer(s, 1, g),
         \A z \in Socks : z # s => recv_window'[z] = recv_window[z],
         UNCHANGED <<send_window, persistence_timer, accepted, delivered>>
  PROVE  /\ udp'[s] = RemoveAt(udp[s], 1) /\ udp'[Peer[s]] = Arrive(udp[Peer[s]], <<g>>)
         /\ \A z \in Socks : z # Peer[s] => Link(z)'
<1> DEFINE p == Peer[s]
           acks == RemoveAt(udp[s], 1)
           ds == <<g>>
<1>0. p \in Socks /\ p # s /\ Peer[p] = s
  BY PeerFacts
<1>1. /\ udp'[s] = acks /\ udp'[p] = Arrive(udp[p], ds)
      /\ \A z \in Socks : z # s /\ z # p => udp'[z] = udp[z]
  BY <1>0 DEF Answer, LinkInv, TypeOK
<1>2. LinkTyped(s) /\ Link(s) /\ udp[s] \in Seq(Datagram)
  BY LinkTypeOf DEF LinkInv, TypeOK
<1>3. acks \in Seq(Datagram)
  BY <1>2, HeadGone
<1>4. ds \in Seq(Datagram) /\ \A i \in DOMAIN ds : ds[i].type = "A"
  <2>1. \A i \in DOMAIN ds : ds[i] = g
    BY OneDatagram
  <2> QED BY <2>1, OneDatagram
<1> HIDE DEF ds
<1>5. /\ LinkType(send_window[s], persistence_timer[s], accepted[s], recv_window[p], delivered[p], udp[p], acks)
      /\ Linked(send_window[s], persistence_timer[s], accepted[s], recv_window[p], delivered[p], udp[p], acks)
  BY <1>2, <1>3, LinkedTake DEF LinkTyped, Link, LinkType
<1>6. Linked(send_window[s], persistence_timer[s], accepted[s], recv_window[p], delivered[p],
             Arrive(udp[p], ds), acks)
  BY <1>4, <1>5, LinkedOthers
<1>7. Link(s)'
  BY <1>0, <1>1, <1>6 DEF Link
<1>8. ASSUME NEW z \in Socks, z # s, z # p PROVE Link(z)'
  <2>1. Peer[z] # s /\ Peer[z] # p /\ Peer[z] \in Socks
    BY <1>8, PeerFacts
  <2> QED BY <1>1, <1>8, <2>1, LinkFrame
<1> QED BY <1>1, <1>7, <1>8 DEF ds

\* The answer tells the peer of s what s has in order.
LEMMA AnswerLink ==
  ASSUME LinkInv, NEW s \in Socks, 1 \in DOMAIN udp[s], NEW g, Answer(s, 1, g),
         NEW u, recv_window' = [recv_window EXCEPT ![s] = u],
         UNCHANGED <<send_window, persistence_timer, accepted, delivered>>,
         g = Ack(Number(InOrder(u, Len(delivered[s]))), u.window_size),
         LET p == Peer[s]
         IN  /\ LinkType(send_window[p], persistence_timer[p], accepted[p], u, delivered[s],
                         RemoveAt(udp[s], 1), udp[p])
             /\ Linked(send_window[p], persistence_timer[p], accepted[p], u, delivered[s],
                       RemoveAt(udp[s], 1), udp[p])
  PROVE  LinkOK'
<1> DEFINE p == Peer[s]
<1>0. p \in Socks /\ p # s /\ Peer[p] = s
  BY PeerFacts
<1>1. recv_window'[s] = u /\ \A z \in Socks : z # s => recv_window'[z] = recv_window[z]
  BY DEF LinkInv, TypeOK
<1>2. g \in Datagram /\ g.type = "A"
  <2>1. Len(delivered[s]) \in Nat /\ u \in RecvWindow /\ ReceiveRing(u)
    BY LenProperties DEF LinkType
  <2>2. InOrder(u, Len(delivered[s])) \in Nat /\ u.window_size \in Nat
    BY <2>1, InOrderType, RecvFields
  <2>3. Number(InOrder(u, Len(delivered[s]))) \in 0..MaxSeq
    BY <2>2, NumberUsed
  <2> QED BY <2>2, <2>3 DEF Ack, Datagram
<1>3. /\ udp'[s] = RemoveAt(udp[s], 1) /\ udp'[p] = Arrive(udp[p], <<g>>)
      /\ \A z \in Socks : z # p => Link(z)'
  BY <1>1, <1>2, AnswerElsewhere
<1>4. Linked(send_window[p], persistence_timer[p], accepted[p], u, delivered[s],
             RemoveAt(udp[s], 1), Arrive(udp[p], <<g>>))
  BY LinkedAnswer
<1>5. Link(p)'
  BY <1>0, <1>1, <1>3, <1>4 DEF Link
<1> QED BY <1>3, <1>5 DEF LinkOK

\* What the peer of s sends, seen from s.
LEMMA IncomingLink ==
  ASSUME LinkInv, NEW s \in Socks
  PROVE  /\ LinkType(send_window[Peer[s]], persistence_timer[Peer[s]], accepted[Peer[s]],
                     recv_window[s], delivered[s], udp[s], udp[Peer[s]])
         /\ Linked(send_window[Peer[s]], persistence_timer[Peer[s]], accepted[Peer[s]],
                   recv_window[s], delivered[s], udp[s], udp[Peer[s]])
<1>1. Peer[s] \in Socks /\ Peer[Peer[s]] = s
  BY PeerFacts
<1> QED BY <1>1, LinkTypeOf DEF LinkTyped, Link

LEMMA InOrderLink ==
  ASSUME LinkInv, NEW s \in Socks, 1 \in DOMAIN udp[s], ReceiveInOrder(s, 1)
  PROVE  LinkOK'
<1> DEFINE u == recv_window[s]
           g == udp[s][1]
<1>1. PICK n \in InOrderRuns(u) :
        recv_window' = [recv_window EXCEPT ![s] = StoreInOrder(u, g.body, n)] /\ Answer(s, 1, AckRun(u, n))
  BY DEF ReceiveInOrder
<1>2. g.type = "D" /\ IsNext(u, g) /\ UNCHANGED <<send_window, persistence_timer, accepted, delivered>>
  BY DEF ReceiveInOrder
<1> DEFINE v == StoreInOrder(u, g.body, n)
           p == Peer[s]
<1>3. /\ LinkType(send_window[p], persistence_timer[p], accepted[p], v, delivered[s], RemoveAt(udp[s], 1), udp[p])
      /\ Linked(send_window[p], persistence_timer[p], accepted[p], v, delivered[s], RemoveAt(udp[s], 1), udp[p])
      /\ AckRun(u, n) = Ack(Number(InOrder(v, Len(delivered[s]))), v.window_size)
  BY <1>2, IncomingLink, LinkedStore
<1> HIDE DEF v, u, g
<1> QED BY <1>1, <1>2, <1>3, AnswerLink DEF v

LEMMA EarlyLink ==
  ASSUME LinkInv, NEW s \in Socks, 1 \in DOMAIN udp[s], ReceiveEarly(s, 1)
  PROVE  LinkOK'
<1> DEFINE u == recv_window[s]
           g == udp[s][1]
<1>1. PICK k \in ExpectedAt(u, g) : recv_window' = [recv_window EXCEPT ![s] = StoreEarly(u, g, k)]
  BY DEF ReceiveEarly
<1>2. /\ g.type = "D" /\ Answer(s, 1, AckInOrder(u))
      /\ UNCHANGED <<send_window, persistence_timer, accepted, delivered>>
  BY DEF ReceiveEarly
<1> DEFINE v == StoreEarly(u, g, k)
           p == Peer[s]
<1>3. /\ LinkType(send_window[p], persistence_timer[p], accepted[p], v, delivered[s], RemoveAt(udp[s], 1), udp[p])
      /\ Linked(send_window[p], persistence_timer[p], accepted[p], v, delivered[s], RemoveAt(udp[s], 1), udp[p])
      /\ AckInOrder(u) = Ack(Number(InOrder(v, Len(delivered[s]))), v.window_size)
  BY <1>2, IncomingLink, LinkedEarly
<1> HIDE DEF v, u, g
<1> QED BY <1>1, <1>2, <1>3, AnswerLink DEF v

\* A datagram that changes nothing but is answered.
LEMMA RepeatLink ==
  ASSUME LinkInv, NEW s \in Socks, 1 \in DOMAIN udp[s],
         \/ ReceiveOutside(s, 1)
         \/ ReceiveProbe(s, 1)
  PROVE  LinkOK'
<1> DEFINE u == recv_window[s]
           p == Peer[s]
           g == Ack(Number(InOrder(u, Len(delivered[s]))), u.window_size)
<1>1. /\ LinkType(send_window[p], persistence_timer[p], accepted[p], u, delivered[s], udp[s], udp[p])
      /\ Linked(send_window[p], persistence_timer[p], accepted[p], u, delivered[s], udp[s], udp[p])
  BY IncomingLink
<1>2. PICK lo, n, d, r, edge, top :
        Parts(lo, n, d, r, edge, top, send_window[p], persistence_timer[p], accepted[p], u, delivered[s],
              udp[s], udp[p])
  BY <1>1, LinkedParts
<1>3. u \in RecvWindow /\ ReceiveRing(u) /\ udp[s] \in Seq(Datagram)
  BY <1>1 DEF LinkType
<1>4. d \in Nat /\ d = Len(delivered[s]) /\ r = InOrder(u, d) /\ Continues(u, d) /\ ProbeQueue(udp[s], r)
  BY <1>2 DEF Parts
<1>5. Answer(s, 1, g)
  <2>1. CASE ReceiveOutside(s, 1)
    <3>1. AckInOrder(u) = g
      BY <1>3, <1>4, SnapshotOf
    <3> QED BY <2>1, <3>1 DEF ReceiveOutside
  <2>2. CASE ReceiveProbe(s, 1)
    <3>1. udp[s][1].type = "P" /\ Answer(s, 1, Ack(udp[s][1].seq_no, u.window_size))
      BY <2>2 DEF ReceiveProbe
    <3>2. udp[s][1].seq_no = Number(r)
      BY <1>4, <3>1 DEF ProbeQueue
    <3> QED BY <1>4, <3>1, <3>2
  <2> QED BY <2>1, <2>2
<1>6. /\ recv_window' = [recv_window EXCEPT ![s] = u]
      /\ UNCHANGED <<send_window, persistence_timer, accepted, delivered>>
  BY DEF ReceiveOutside, ReceiveProbe, LinkInv, TypeOK
<1>7. /\ LinkType(send_window[p], persistence_timer[p], accepted[p], u, delivered[s], RemoveAt(udp[s], 1), udp[p])
      /\ Linked(send_window[p], persistence_timer[p], accepted[p], u, delivered[s], RemoveAt(udp[s], 1), udp[p])
  <2>1. RemoveAt(udp[s], 1) \in Seq(Datagram)
    BY <1>3, HeadGone
  <2> QED BY <1>1, <2>1, LinkedTake DEF LinkType
<1> HIDE DEF u, g
<1> QED BY <1>5, <1>6, <1>7, AnswerLink DEF g

\* What s has let go of, as the runs name it.
LEMMA AckedIs ==
  ASSUME NEW s \in Socks
  PROVE  /\ Acked(s) = Released(send_window[s], accepted[s])
         /\ Acked(s)' = Released(send_window'[s], accepted'[s])
BY DEF Acked, Unacked, Released, Held

LEMMA AckLink ==
  ASSUME LinkInv, NEW s \in Socks, 1 \in DOMAIN udp[s], ReceiveAck(s, 1)
  PROVE  /\ LinkOK'
         /\ Acked(s)' + send_window'[s].window_size >= Acked(s) + send_window[s].window_size
<1> DEFINE p == Peer[s]
           w == send_window[s]
           g == udp[s][1]
           v == send_window'[s]
           t == TimerAfter(persistence_timer[s], g.seq_no, g.body)
           rest == RemoveAt(udp[s], 1)
<1>0. p \in Socks /\ p # s /\ Peer[p] = s
  BY PeerFacts
<1>1. /\ g.type = "A" /\ persistence_timer'[s] = t /\ udp'[s] = rest
      /\ \A z \in Socks : z # s => /\ persistence_timer'[z] = persistence_timer[z] /\ udp'[z] = udp[z]
                                   /\ send_window'[z] = send_window[z]
      /\ UNCHANGED <<recv_window, accepted, delivered>>
  BY DEF ReceiveAck, Consume, LinkInv, TypeOK
<1>2. \/ \E k \in AckedAt(w, g.seq_no) : v = [SlidePast(w, k) EXCEPT !.window_size = g.body]
      \/ AckedAt(w, g.seq_no) = {} /\ v = [w EXCEPT !.window_size = g.body]
  BY DEF ReceiveAck, LinkInv, TypeOK
<1>3. LinkTyped(s) /\ Link(s)
  BY LinkTypeOf
<1> HIDE DEF v
<1>4. /\ Linked(v, t, accepted[s], recv_window[p], delivered[p], udp[p], rest)
      /\ Released(v, accepted[s]) + v.window_size >= Released(w, accepted[s]) + w.window_size
  BY <1>1, <1>2, <1>3, LinkedAck DEF LinkTyped, Link
<1> HIDE DEF t, rest
<1>5. Link(s)'
  BY <1>0, <1>1, <1>4 DEF Link, v
<1>6. Link(p)'
  <2>1. Linked(send_window[p], persistence_timer[p], accepted[p], recv_window[s], delivered[s], rest, udp[p])
    BY IncomingLink, LinkedTake DEF rest
  <2> QED BY <1>0, <1>1, <2>1 DEF Link
<1>7. ASSUME NEW z \in Socks, z # s, z # p PROVE Link(z)'
  <2>1. Peer[z] # s /\ Peer[z] \in Socks
    BY <1>7, PeerFacts
  <2> QED BY <1>1, <1>7, <2>1, LinkFrame
<1>8. Acked(s)' + v.window_size >= Acked(s) + w.window_size
  BY <1>1, <1>4, AckedIs DEF v
<1> QED BY <1>5, <1>6, <1>7, <1>8 DEF LinkOK, v

LEMMA DropLink ==
  ASSUME LinkInv, NEW s \in Socks, 1 \in DOMAIN udp[s], DropMessage(s, 1)
  PROVE  LinkOK'
<1> DEFINE p == Peer[s]
           rest == RemoveAt(udp[s], 1)
<1>0. p \in Socks /\ p # s /\ Peer[p] = s
  BY PeerFacts
<1>1. /\ udp'[s] = rest /\ \A z \in Socks : z # s => udp'[z] = udp[z]
      /\ UNCHANGED <<send_window, persistence_timer, recv_window, accepted, delivered>>
  BY DEF DropMessage, Consume, LinkInv, TypeOK
<1>2. Linked(send_window[s], persistence_timer[s], accepted[s], recv_window[p], delivered[p], udp[p], rest)
  BY LinkTypeOf, LinkedTake DEF LinkTyped, Link
<1>3. Linked(send_window[p], persistence_timer[p], accepted[p], recv_window[s], delivered[s], rest, udp[p])
  BY IncomingLink, LinkedTake
<1> HIDE DEF rest
<1>4. Link(s)' /\ Link(p)'
  BY <1>0, <1>1, <1>2, <1>3 DEF Link
<1>5. ASSUME NEW z \in Socks, z # s, z # p PROVE Link(z)'
  <2>1. Peer[z] # s /\ Peer[z] \in Socks
    BY <1>5, PeerFacts
  <2> QED BY <1>1, <1>5, <2>1, LinkFrame
<1> QED BY <1>4, <1>5 DEF LinkOK

LEMMA UpdateLink ==
  ASSUME LinkInv, NEW s \in Socks, WindowUpdate(s)
  PROVE  LinkOK'
<1> DEFINE p == Peer[s]
           u == recv_window[s]
           v == [u EXCEPT !.nospace = 0]
           g == AckInOrder(u)
           d == Len(delivered[s])
<1>0. p \in Socks /\ p # s /\ Peer[p] = s
  BY PeerFacts
<1>1. /\ udp'[p] = Arrive(udp[p], <<g>>) /\ \A z \in Socks : z # p => udp'[z] = udp[z]
      /\ recv_window'[s] = v /\ \A z \in Socks : z # s => recv_window'[z] = recv_window[z]
      /\ UNCHANGED <<send_window, persistence_timer, accepted, delivered>>
  BY <1>0 DEF WindowUpdate, LinkInv, TypeOK
<1>2. /\ LinkType(send_window[p], persistence_timer[p], accepted[p], u, delivered[s], udp[s], udp[p])
      /\ Linked(send_window[p], persistence_timer[p], accepted[p], u, delivered[s], udp[s], udp[p])
  BY IncomingLink
<1>3. u \in RecvWindow /\ ReceiveRing(u) /\ d \in Nat
  BY <1>2, LenProperties DEF LinkType
<1>4. Continues(u, d)
  <2>1. PICK lo, n, e, r, edge, top :
          Parts(lo, n, e, r, edge, top, send_window[p], persistence_timer[p], accepted[p], u, delivered[s],
                udp[s], udp[p])
    BY <1>2, LinkedParts
  <2> QED BY <2>1 DEF Parts
<1>5. g = Ack(Number(InOrder(u, d)), u.window_size)
  BY <1>3, <1>4, SnapshotOf
<1>6. Linked(send_window[p], persistence_timer[p], accepted[p], u, delivered[s], udp[s], Arrive(udp[p], <<g>>))
  BY <1>2, <1>5, LinkedAnswer
<1>7. LinkType(send_window[p], persistence_timer[p], accepted[p], u, delivered[s], udp[s], Arrive(udp[p], <<g>>))
  <2>1. g \in Datagram
    BY <1>3, AckInOrderType
  <2>2. <<g>> \in Seq(Datagram)
    BY <2>1, OneDatagram
  <2> HIDE DEF g, u
  <2> QED BY <1>2, <2>2, ArriveFifo DEF LinkType
<1>8. Linked(send_window[p], persistence_timer[p], accepted[p], v, delivered[s], udp[s], Arrive(udp[p], <<g>>))
  BY <1>6, <1>7, LinkedNospace
<1>9. <<g>> \in Seq(Datagram) /\ \A i \in DOMAIN <<g>> : <<g>>[i].type = "A"
  <2>1. g \in Datagram /\ g.type = "A"
    BY <1>3, AckInOrderType DEF AckInOrder, Ack
  <2>2. \A i \in DOMAIN <<g>> : <<g>>[i] = g
    BY <2>1, OneDatagram
  <2> QED BY <2>1, <2>2, OneDatagram
<1> HIDE DEF v, g, u, d
<1>10. Link(p)'
  BY <1>0, <1>1, <1>8 DEF Link
<1>11. Link(s)'
  <2>1. Linked(send_window[s], persistence_timer[s], accepted[s], recv_window[p], delivered[p],
               Arrive(udp[p], <<g>>), udp[s])
    BY <1>9, LinkTypeOf, LinkedOthers DEF LinkTyped, Link
  <2> QED BY <1>0, <1>1, <2>1 DEF Link
<1>12. ASSUME NEW z \in Socks, z # s, z # p PROVE Link(z)'
  <2>1. Peer[z] # s /\ Peer[z] # p /\ Peer[z] \in Socks
    BY <1>12, PeerFacts
  <2> QED BY <1>1, <1>12, <2>1, LinkFrame
<1> QED BY <1>10, <1>11, <1>12 DEF LinkOK

\* LinkOK is inductive with the invariants of MTPTransferProofs.
LEMMA LinkNext ==
  ASSUME Overtake = 0
  PROVE  LinkInv /\ [Next]_vars => LinkInv'
<1> SUFFICES ASSUME LinkInv, [Next]_vars PROVE LinkInv'
  OBVIOUS
<1>1. TypeOK' /\ ReceiveRingOK' /\ ClosedWindowIsProbed'
  BY TypeNext, ReceiveRingNext, ClosedNext DEF LinkInv
<1>2. CASE UNCHANGED vars
  <2>1. \A z \in Socks : Link(z)'
    <3>1. \A z \in Socks : Link(z)
      BY DEF LinkInv, LinkOK
    <3> QED BY <1>2, <3>1 DEF Link, vars
  <2> QED BY <1>1, <2>1 DEF LinkInv, LinkOK
<1>3. CASE Next
  <2>1. PICK s \in Socks : m_sendto(s) \/ m_recvfrom(s) \/ thread_S(s) \/ thread_R(s)
    BY <1>3 DEF Next
  <2>2. CASE m_sendto(s)
    BY <1>1, <2>2, SendLink DEF LinkInv
  <2>3. CASE m_recvfrom(s)
    BY <1>1, <2>3, RecvLink DEF LinkInv
  <2>4. CASE thread_S(s)
    BY <1>1, <2>4, ProbeLink, PassLink DEF LinkInv, thread_S
  <2>5. CASE WindowUpdate(s)
    BY <1>1, <2>5, UpdateLink DEF LinkInv
  <2>6. ASSUME NEW i \in Arrived(s), HandleDatagram(s, i) PROVE LinkInv'
    <3>1. TypeOK
      BY DEF LinkInv
    <3>2. 1 \in DOMAIN udp[s] /\ HandleDatagram(s, 1)
      BY <2>6, <3>1, ArrivedHead
    <3>3. LinkOK'
      BY <3>2, InOrderLink, EarlyLink, RepeatLink, AckLink, DropLink DEF HandleDatagram
    <3> QED BY <1>1, <3>3 DEF LinkInv
  <2> QED BY <2>1, <2>2, <2>3, <2>4, <2>5, <2>6 DEF thread_R
<1> QED BY <1>2, <1>3

LEMMA LinkInvInit == Init => LinkInv
BY TypeInit, ReceiveRingInit, ClosedInit, LinkInit DEF LinkInv

-----------------------------------------------------------------------------
(* What follows.                                                           *)

\* What LinkOK says of the messages that come to s, in the terms of the runs.
LEMMA IncomingParts ==
  ASSUME LinkInv, NEW s \in Socks
  PROVE  LET p == Peer[s]
             d == Len(delivered[s])
             r == InOrder(recv_window[s], d)
         IN  /\ d \in Nat /\ r \in Nat /\ d <= r /\ r <= accepted[p] /\ r = ReceivedInOrder(s)
             /\ \A i \in 1..d : delivered[s][i] = i
             /\ Acked(p) \in Nat /\ Acked(p) <= r
             /\ Acked(p) + send_window[p].window_size <= d + RECEIVER_MSG_BUFFER
             /\ Continues(recv_window[s], d)
             /\ DataQueue(udp[s], InHand(recv_window[s], d), accepted[p],
                          Acked(p) + send_window[p].window_size)
<1> DEFINE p == Peer[s]
           u == recv_window[s]
           w == send_window[p]
<1>0. p \in Socks
  BY PeerFacts
<1>1. /\ LinkType(w, persistence_timer[p], accepted[p], u, delivered[s], udp[s], udp[p])
      /\ Linked(w, persistence_timer[p], accepted[p], u, delivered[s], udp[s], udp[p])
  BY IncomingLink
<1>2. PICK lo, n, d, r, edge, top :
        Parts(lo, n, d, r, edge, top, w, persistence_timer[p], accepted[p], u, delivered[s], udp[s], udp[p])
  BY <1>1, LinkedParts
<1>3. Acked(p) = lo
  <2>1. w \in SendWindow /\ lo \in Nat /\ n \in 0..SENDER_MSG_BUFFER /\ Holds(w, lo, n) /\ accepted[p] = lo + n
    BY <1>1, <1>2 DEF LinkType, Parts
  <2>2. Released(w, accepted[p]) = lo
    BY <2>1, ReleasedIs
  <2> QED BY <1>0, <2>2, AckedIs
<1>4. InOrder(u, Len(delivered[s])) = ReceivedInOrder(s)
  BY DEF InOrder, ReceivedInOrder, Unread
<1> HIDE DEF w, u, p
<1>5. QED BY <1>2, <1>3, <1>4 DEF Parts, p, u, w

LEMMA DeliveryOf == LinkInv => InOrderDelivery
<1> SUFFICES ASSUME LinkInv, NEW s \in Socks
             PROVE  /\ Len(delivered[s]) <= accepted[Peer[s]]
                    /\ \A n \in DOMAIN delivered[s] : delivered[s][n] = n
  BY DEF InOrderDelivery
<1>1. delivered[s] \in Seq(Nat) /\ accepted[Peer[s]] \in Nat
  BY PeerFacts DEF LinkInv, TypeOK
<1>2. DOMAIN delivered[s] = 1..Len(delivered[s])
  BY <1>1, LenProperties
<1>3. /\ Len(delivered[s]) \in Nat /\ InOrder(recv_window[s], Len(delivered[s])) \in Nat
      /\ Len(delivered[s]) <= InOrder(recv_window[s], Len(delivered[s]))
      /\ InOrder(recv_window[s], Len(delivered[s])) <= accepted[Peer[s]]
      /\ \A i \in 1..Len(delivered[s]) : delivered[s][i] = i
  BY IncomingParts
<1>4. Len(delivered[s]) <= accepted[Peer[s]]
  BY <1>1, <1>3, SMT
<1> QED BY <1>2, <1>3, <1>4

LEMMA NoLossOf == LinkInv => NoLossAfterAck
<1> SUFFICES ASSUME LinkInv, NEW s \in Socks PROVE Acked(s) <= ReceivedInOrder(Peer[s])
  BY DEF NoLossAfterAck
<1>1. Peer[s] \in Socks /\ Peer[Peer[s]] = s
  BY PeerFacts
<1> QED BY <1>1, IncomingParts

LEMMA WindowFitsOf == LinkInv => WindowFitsReceiver
<1> SUFFICES ASSUME LinkInv, NEW s \in Socks
             PROVE  Acked(s) + send_window[s].window_size <= Len(delivered[Peer[s]]) + RECEIVER_MSG_BUFFER
  BY DEF WindowFitsReceiver
<1>1. Peer[s] \in Socks /\ Peer[Peer[s]] = s
  BY PeerFacts
<1> QED BY <1>1, IncomingParts

LEMMA NoStaleOf == LinkInv => NoStaleNumberAccepted
<1> SUFFICES ASSUME LinkInv, NEW s \in Socks, NEW i \in DOMAIN udp[s], udp[s][i].type = "D",
                    NEW k \in 0..(recv_window[s].window_size - 1),
                    udp[s][i].seq_no = SeqAdd(recv_window[s].next_seq_no, k)
             PROVE  udp[s][i].body = ReceivedInOrder(s) + k + 1
  BY DEF NoStaleNumberAccepted
<1> DEFINE p == Peer[s]
           u == recv_window[s]
           d == Len(delivered[s])
           r == InOrder(u, d)
           b == udp[s][i].body
           edge == Acked(p) + send_window[p].window_size
<1>1. /\ u \in RecvWindow /\ ReceiveRing(u) /\ p \in Socks /\ accepted[p] \in Nat
      /\ send_window[p].window_size \in Nat
  BY PeerFacts DEF LinkInv, TypeOK, ReceiveRingOK, SendWindow
<1>2. /\ d \in Nat /\ r \in Nat /\ r = ReceivedInOrder(s) /\ Acked(p) \in Nat
      /\ edge <= d + RECEIVER_MSG_BUFFER /\ Continues(u, d) /\ DataQueue(udp[s], InHand(u, d), accepted[p], edge)
  BY IncomingParts
<1>3. r \in InHand(u, d)
  BY DEF InHand
<1>4. b \in 1..accepted[p] /\ b <= edge /\ udp[s][i].seq_no = Number(b) /\ r < b + RECEIVER_MSG_BUFFER
  BY <1>2, <1>3 DEF DataQueue
<1>5. edge \in Nat
  BY <1>1, <1>2, SMT
<1> HIDE DEF edge
<1>6. b \in Nat /\ b <= d + RECEIVER_MSG_BUFFER /\ k \in Nat /\ k < u.window_size
  <2>1. u.window_size \in Nat
    BY <1>1, RecvFields
  <2>2. k \in Nat /\ k < u.window_size
    BY <2>1, SMT
  <2> QED BY <1>1, <1>2, <1>4, <1>5, <2>2, BufferFacts, SMT
<1>7. Number(b) = SeqAdd(u.next_seq_no, k)
  BY <1>4
<1> HIDE DEF b, d, u
<1>8. b = r + k + 1
  BY <1>1, <1>2, <1>4, <1>6, <1>7, NumberExpected
<1> QED BY <1>2, <1>8 DEF b

-----------------------------------------------------------------------------
(* The right edge of the send window.                                      *)

RightEdge(s) == Acked(s) + send_window[s].window_size

\* An action that leaves the send window of s alone.
LEMMA EdgeKept ==
  ASSUME LinkInv, NEW s \in Socks, send_window'[s] = send_window[s], accepted'[s] = accepted[s]
  PROVE  RightEdge(s)' >= RightEdge(s)
<1>1. Peer[s] \in Socks /\ Peer[Peer[s]] = s
  BY PeerFacts
<1>2. Acked(s) \in Nat
  BY <1>1, IncomingParts
<1>3. send_window[s].window_size \in Nat
  BY DEF LinkInv, TypeOK, SendWindow
<1>4. Acked(s)' = Acked(s)
  BY AckedIs
<1>5. Acked(s) + send_window[s].window_size >= Acked(s) + send_window[s].window_size
  BY <1>2, <1>3, SMT
<1> QED BY <1>4, <1>5 DEF RightEdge

\* An action that leaves the size of the window of s alone, and what s has
\* let go of.
LEMMA EdgeSame ==
  ASSUME LinkInv, NEW s \in Socks, send_window'[s].window_size = send_window[s].window_size,
         NEW lo \in Nat, NEW n \in 0..SENDER_MSG_BUFFER, NEW k \in 0..SENDER_MSG_BUFFER,
         Holds(send_window[s], lo, n), accepted[s] = lo + n, send_window[s] \in SendWindow,
         Holds(send_window'[s], lo, k), accepted'[s] = lo + k, send_window'[s] \in SendWindow
  PROVE  RightEdge(s)' >= RightEdge(s)
<1>1. Acked(s) = lo
  BY AckedIs, ReleasedIs
<1>2. Acked(s)' = lo
  BY AckedIs, ReleasedIs
<1>3. send_window[s].window_size \in Nat
  BY DEF SendWindow
<1>4. lo + send_window[s].window_size >= lo + send_window[s].window_size
  BY <1>3, SMT
<1> QED BY <1>1, <1>2, <1>4 DEF RightEdge

\* What the window of s holds.
LEMMA HeldBySender ==
  ASSUME LinkInv, NEW s \in Socks
  PROVE  /\ send_window[s] \in SendWindow
         /\ \E lo \in Nat, n \in 0..SENDER_MSG_BUFFER :
              Holds(send_window[s], lo, n) /\ accepted[s] = lo + n
<1>1. LinkTyped(s) /\ Link(s)
  BY LinkTypeOf
<1>2. PICK lo, n, d, r, edge, top :
        Parts(lo, n, d, r, edge, top, send_window[s], persistence_timer[s], accepted[s],
              recv_window[Peer[s]], delivered[Peer[s]], udp[Peer[s]], udp[s])
  BY <1>1, LinkedParts DEF LinkTyped, Link
<1>3. lo \in Nat /\ n \in 0..SENDER_MSG_BUFFER /\ Holds(send_window[s], lo, n) /\ accepted[s] = lo + n
  BY <1>2 DEF Parts
<1> QED BY <1>1, <1>3 DEF LinkTyped, LinkType

LEMMA SendEdge ==
  ASSUME LinkInv, TypeOK', NEW s \in Socks, m_sendto(s)
  PROVE  \A z \in Socks : RightEdge(z)' >= RightEdge(z)
<1>1. PICK k \in SendIndex :
        /\ send_window[s].send_buff[SendSlot(send_window[s], k)].ack_no = FREE
        /\ \A j \in 0..(k - 1) : send_window[s].send_buff[SendSlot(send_window[s], j)].ack_no # FREE
        /\ send_window' = [send_window EXCEPT ![s] = Enqueue(@, k, accepted[s] + 1)]
  BY DEF m_sendto
<1>2. /\ send_window'[s] = Enqueue(send_window[s], k, accepted[s] + 1)
      /\ accepted'[s] = accepted[s] + 1
      /\ \A z \in Socks : z # s => send_window'[z] = send_window[z] /\ accepted'[z] = accepted[z]
  BY <1>1 DEF m_sendto, LinkInv, TypeOK
<1>3. send_window[s] \in SendWindow /\ send_window'[s] \in SendWindow
  BY HeldBySender DEF TypeOK
<1>4. PICK lo \in Nat, n \in 0..SENDER_MSG_BUFFER : Holds(send_window[s], lo, n) /\ accepted[s] = lo + n
  BY HeldBySender
<1>5. n \in Nat /\ accepted[s] + 1 = lo + n + 1 /\ accepted[s] + 1 = lo + (n + 1)
  BY <1>4, SMT
<1>6. n + 1 <= SENDER_MSG_BUFFER /\ Holds(Enqueue(send_window[s], k, lo + n + 1), lo, n + 1)
  BY <1>1, <1>3, <1>4, <1>5, HoldsEnqueue
<1>7. n + 1 \in 0..SENDER_MSG_BUFFER
  BY <1>5, <1>6, BufferFacts, SMT
<1>8. send_window'[s].window_size = send_window[s].window_size
  BY <1>2, <1>3 DEF Enqueue, SendWindow
<1>9. RightEdge(s)' >= RightEdge(s)
  <2>1. Holds(send_window'[s], lo, n + 1) /\ accepted'[s] = lo + (n + 1)
    BY <1>2, <1>5, <1>6
  <2> QED BY <1>3, <1>4, <1>7, <1>8, <2>1, EdgeSame
<1> QED BY <1>2, <1>9, EdgeKept

LEMMA PassEdge ==
  ASSUME LinkInv, TypeOK', NEW s \in Socks, NEW q, SendPass(s, q)
  PROVE  \A z \in Socks : RightEdge(z)' >= RightEdge(z)
<1>1. /\ send_window'[s] = MarkSent(send_window[s], q)
      /\ \A z \in Socks : z # s => send_window'[z] = send_window[z]
      /\ accepted' = accepted
  BY DEF SendPass, LinkInv, TypeOK
<1>2. send_window[s] \in SendWindow /\ send_window'[s] \in SendWindow
  BY HeldBySender DEF TypeOK
<1>3. PICK lo \in Nat, n \in 0..SENDER_MSG_BUFFER : Holds(send_window[s], lo, n) /\ accepted[s] = lo + n
  BY HeldBySender
<1>4. Holds(MarkSent(send_window[s], q), lo, n)
  <2>1. n \in Nat
    BY SMT
  <2> QED BY <1>2, <1>3, <2>1, HoldsMark
<1>5. send_window'[s].window_size = send_window[s].window_size
  BY <1>1, <1>2 DEF MarkSent, SendWindow
<1>6. RightEdge(s)' >= RightEdge(s)
  <2>1. Holds(send_window'[s], lo, n) /\ accepted'[s] = lo + n
    BY <1>1, <1>3, <1>4
  <2> QED BY <1>2, <1>3, <1>5, <2>1, EdgeSame
<1> QED BY <1>1, <1>6, EdgeKept

LEMMA AckEdge ==
  ASSUME LinkInv, NEW s \in Socks, 1 \in DOMAIN udp[s], ReceiveAck(s, 1)
  PROVE  \A z \in Socks : RightEdge(z)' >= RightEdge(z)
<1>1. /\ \A z \in Socks : z # s => send_window'[z] = send_window[z]
      /\ accepted' = accepted
  BY DEF ReceiveAck, LinkInv, TypeOK
<1>2. RightEdge(s)' >= RightEdge(s)
  BY AckLink DEF RightEdge
<1> QED BY <1>1, <1>2, EdgeKept

LEMMA EdgeNext ==
  ASSUME Overtake = 0
  PROVE  LinkInv /\ TypeOK' /\ [Next]_vars => \A s \in Socks : RightEdge(s)' >= RightEdge(s)
<1> SUFFICES ASSUME LinkInv, TypeOK', [Next]_vars
             PROVE  \A s \in Socks : RightEdge(s)' >= RightEdge(s)
  OBVIOUS
<1>1. CASE UNCHANGED <<send_window, accepted>>
  BY <1>1, EdgeKept
<1>2. CASE UNCHANGED vars
  BY <1>1, <1>2 DEF vars
<1>3. CASE Next
  <2>1. PICK s \in Socks : m_sendto(s) \/ m_recvfrom(s) \/ thread_S(s) \/ thread_R(s)
    BY <1>3 DEF Next
  <2>2. CASE m_sendto(s)
    BY <2>2, SendEdge
  <2>3. CASE m_recvfrom(s)
    BY <1>1, <2>3 DEF m_recvfrom
  <2>4. CASE SendProbe(s)
    BY <1>1, <2>4 DEF SendProbe
  <2>5. CASE \E q \in Passes(send_window[s]) : SendPass(s, q)
    BY <2>5, PassEdge
  <2>6. CASE WindowUpdate(s)
    BY <1>1, <2>6 DEF WindowUpdate
  <2>7. ASSUME NEW i \in Arrived(s), HandleDatagram(s, i)
        PROVE  \A z \in Socks : RightEdge(z)' >= RightEdge(z)
    <3>1. TypeOK
      BY DEF LinkInv
    <3>2. 1 \in DOMAIN udp[s] /\ HandleDatagram(s, 1)
      BY <2>7, <3>1, ArrivedHead
    <3>3. CASE ReceiveAck(s, 1)
      BY <3>2, <3>3, AckEdge
    <3>4. CASE ReceiveInOrder(s, 1) \/ ReceiveEarly(s, 1)
      BY <1>1, <3>4 DEF ReceiveInOrder, ReceiveEarly
    <3>5. CASE ReceiveOutside(s, 1) \/ ReceiveProbe(s, 1) \/ DropMessage(s, 1)
      BY <1>1, <3>5 DEF ReceiveOutside, ReceiveProbe, DropMessage
    <3> QED BY <3>2, <3>3, <3>4, <3>5 DEF HandleDatagram
  <2> QED BY <2>1, <2>2, <2>3, <2>4, <2>5, <2>6, <2>7 DEF thread_S, thread_R
<1> QED BY <1>2, <1>3

-----------------------------------------------------------------------------
(* The abstract channel.                                                   *)

LEMMA ChannelInit == Init => Channel!Init
BY DEF Init, Channel!Init

\* m_sendto and m_recvfrom are the channel's two operations; nothing that
\* the daemon does is visible to the programs.
LEMMA ChannelNext ==
  LinkInv /\ [Next]_vars => [Channel!Next]_(Channel!chan)
<1> SUFFICES ASSUME LinkInv, [Next]_vars
             PROVE  Channel!Next \/ UNCHANGED <<accepted, delivered>>
  BY DEF Channel!chan
<1>1. CASE UNCHANGED vars
  BY <1>1 DEF vars
<1>2. CASE Next
  <2>1. PICK s \in Socks : m_sendto(s) \/ m_recvfrom(s) \/ thread_S(s) \/ thread_R(s)
    BY <1>2 DEF Next
  <2>2. CASE m_sendto(s)
    <3>1. accepted[s] - Len(delivered[Peer[s]]) < SENDER_MSG_BUFFER + RECEIVER_MSG_BUFFER
      BY <2>2, SendLink
    <3>2. accepted' = [accepted EXCEPT ![s] = @ + 1] /\ UNCHANGED delivered
      BY <2>2 DEF m_sendto
    <3> QED BY <3>1, <3>2 DEF Channel!Next, Channel!Send
  <2>3. CASE m_recvfrom(s)
    <3>1. /\ Len(delivered[s]) < accepted[Peer[s]]
          /\ delivered' = [delivered EXCEPT ![s] = Append(@, Len(@) + 1)]
      BY <2>3, RecvLink
    <3>2. UNCHANGED accepted
      BY <2>3 DEF m_recvfrom
    <3> QED BY <3>1, <3>2 DEF Channel!Next, Channel!Receive
  <2>4. CASE thread_S(s)
    BY <2>4 DEF thread_S, SendProbe, SendPass
  <2>5. CASE WindowUpdate(s)
    BY <2>5 DEF WindowUpdate
  <2>6. ASSUME NEW i, HandleDatagram(s, i) PROVE UNCHANGED <<accepted, delivered>>
    BY <2>6 DEF HandleDatagram, ReceiveInOrder, ReceiveEarly, ReceiveOutside, ReceiveAck, ReceiveProbe,
                DropMessage
  <2> QED BY <2>1, <2>2, <2>3, <2>4, <2>5, <2>6 DEF thread_R
<1> QED BY <1>1, <1>2

-----------------------------------------------------------------------------
(* The theorems.  All suppose a network that loses datagrams and lets them *)
(* wait as long as it likes, but keeps their order.  On one that does not, *)
(* a late ACK moves the right edge of the send window, and a late datagram *)
(* may carry a number that has come round.                                 *)

\* The invariant that the others follow from: what the two ends of every
\* connection, and the datagrams between them, know of each other.
THEOREM LinkCorrect ==
  ASSUME Overtake = 0
  PROVE  Spec => []LinkInv
BY LinkInvInit, LinkNext, PTL DEF Spec

\* Exactly once and in order: the messages that m_recvfrom returns on a
\* socket are the first ones that m_sendto accepted on its peer, each once,
\* whatever datagrams and ACKs are lost, resent, queued or answered twice.
THEOREM DeliveryCorrect ==
  ASSUME Overtake = 0
  PROVE  Spec => []InOrderDelivery
BY LinkCorrect, DeliveryOf, PTL

\* The handling of an ACK in thread R frees only slots of messages that the
\* receiver has in order: none of them can still be lost.
THEOREM NoLossCorrect ==
  ASSUME Overtake = 0
  PROVE  Spec => []NoLossAfterAck
BY LinkCorrect, NoLossOf, PTL

\* Sequence numbers are reused after MaxSeq messages; the number of a late
\* DATA datagram is never taken for that of a message the receiver expects.
THEOREM NoStaleCorrect ==
  ASSUME Overtake = 0
  PROVE  Spec => []NoStaleNumberAccepted
BY LinkCorrect, NoStaleOf, PTL

\* Thread S never sends a message for which the receiver keeps no slot,
\* although the window sizes it works with are old.
THEOREM WindowFitsCorrect ==
  ASSUME Overtake = 0
  PROVE  Spec => []WindowFitsReceiver
BY LinkCorrect, WindowFitsOf, PTL

\* No step takes back room that the sender was promised: the handling of an
\* ACK never moves the right edge of the window back.
THEOREM RightEdgeCorrect ==
  ASSUME Overtake = 0
  PROVE  Spec => RightEdgeNeverRetreats
<1>1. LinkInv /\ LinkInv' /\ [Next]_vars =>
        [\A s \in Socks : Acked(s)' + send_window'[s].window_size >= Acked(s) + send_window[s].window_size]_vars
  <2>1. LinkInv' => TypeOK'
    BY DEF LinkInv
  <2> QED BY <2>1, EdgeNext DEF RightEdge
<1> QED BY <1>1, LinkCorrect, PTL DEF Spec, RightEdgeNeverRetreats

\* The connection implements the bounded FIFO channel of ReliableChannel: the
\* safety part of ImplementsChannel.
THEOREM ChannelRefined ==
  ASSUME Overtake = 0
  PROVE  Spec => Channel!Init /\ [][Channel!Next]_(Channel!chan)
BY LinkCorrect, ChannelInit, ChannelNext, PTL DEF Spec
=============================================================================
