-------------------------- MODULE MTPReorderProofs --------------------------
(* What a connection of MTPTransfer delivers on a network that reorders    *)
(* datagrams and delays them without bound (any Overtake), as long as so   *)
(* few messages are sent that no sequence number is used, or expected, for *)
(* two of them.  The right edge of the send window may then move back, and *)
(* the window may reach past the receiver's room, but no message is lost,  *)
(* repeated or swapped.                                                    *)
EXTENDS MTPDeliveryProofs

\* The receiver expects numbers up to a buffer past the last message.
FewMessages == \A s \in Socks : MaxMsgs[s] + RECEIVER_MSG_BUFFER <= MaxSeq

-----------------------------------------------------------------------------
(* The invariant.                                                          *)

\* How many messages have come to s in order, fetched or not.
Came(s) == InOrder(recv_window[s], Len(delivered[s]))

\* n is the number of one of the first `last` messages, or precedes them.
Names(n, last) == \E m \in 0..last : n = Number(m)

\* What may be under way to s: messages of its peer with their own numbers,
\* probes and ACKs that name what has come in order, however long ago.
Genuine(s) ==
  {g \in Datagram : /\ g.type = "D" => g.body \in 1..accepted[Peer[s]] /\ g.seq_no = Number(g.body)
                    /\ g.type = "P" => Names(g.seq_no, Came(s))
                    /\ g.type = "A" => Names(g.seq_no, Came(Peer[s]))}

\* The sender s has let go of lo messages, no more than have come, and holds
\* the n others.
Tied(s) ==
  \E n \in 0..SENDER_MSG_BUFFER, lo \in 0..accepted[s] :
    accepted[s] = lo + n /\ Holds(send_window[s], lo, n) /\ lo <= Came(Peer[s])

\* The receiver s has returned the first messages, and has those that follow,
\* or came early, in their places.
Placed(s) ==
  /\ \A i \in 1..Len(delivered[s]) : delivered[s][i] = i
  /\ Continues(recv_window[s], Len(delivered[s]))
  /\ \A m \in InHand(recv_window[s], Len(delivered[s])) : m <= accepted[Peer[s]]

\* A probe will name what has come.
Timed(s) == persistence_timer[s].flag > 0 => Names(persistence_timer[s].ack_seq_no, Came(Peer[s]))

Queued(s) == udp[s] \in Seq(Genuine(s))

LooseInv ==
  /\ TypeOK /\ ReceiveRingOK
  /\ \A s \in Socks : accepted[s] <= MaxMsgs[s]
  /\ \A s \in Socks : Tied(s) /\ Placed(s) /\ Timed(s) /\ Queued(s)

-----------------------------------------------------------------------------
(* Sequence numbers that are used once.                                    *)

LEMMA FewFacts ==
  ASSUME FewMessages, LooseInv, NEW s \in Socks
  PROVE  accepted[s] \in Nat /\ accepted[s] + RECEIVER_MSG_BUFFER <= MaxSeq
<1>1. /\ MaxMsgs[s] \in Nat /\ accepted[s] \in Nat /\ accepted[s] <= MaxMsgs[s]
      /\ MaxMsgs[s] + RECEIVER_MSG_BUFFER <= MaxSeq
  BY BoundAssumption DEF FewMessages, LooseInv, TypeOK
<1> QED BY <1>1, BufferFacts, SMT

\* A number the receiver accepts is that of the message due at its place.
LEMMA FewExpected ==
  ASSUME NEW w \in RecvWindow, ReceiveRing(w), NEW d \in Nat, Continues(w, d),
         NEW acc \in Nat, acc + RECEIVER_MSG_BUFFER <= MaxSeq, InOrder(w, d) <= acc,
         NEW b \in 1..acc, NEW k \in Nat, k < w.window_size, Number(b) = SeqAdd(w.next_seq_no, k)
  PROVE  b = InOrder(w, d) + k + 1
<1> DEFINE r == InOrder(w, d)
<1>1. /\ r \in Nat /\ w.window_size \in 0..RECEIVER_MSG_BUFFER /\ r + 1 \in Nat /\ b \in Nat
  BY InOrderType, SMT
<1>2. w.next_seq_no = Number(r + 1)
  BY DEF Continues
<1>3. r <= acc
  OBVIOUS
<1> HIDE DEF r
<1>4. Number(b) = Number(r + 1 + k)
  BY <1>1, <1>2, NumberAdd
<1>5. r + 1 + k \in Nat /\ b < r + 1 + k + MaxSeq /\ r + 1 + k < b + MaxSeq
  BY <1>1, <1>3, BufferFacts, SMT
<1>6. b = r + 1 + k
  BY <1>1, <1>4, <1>5, NumberUnique
<1>7. b = r + k + 1
  BY <1>1, <1>6, SMT
<1> QED BY <1>7 DEF r

\* An ACK with the number of message a frees what it acknowledges.
LEMMA FewAcked ==
  ASSUME NEW w \in SendWindow, NEW lo \in Nat, NEW n \in 0..SENDER_MSG_BUFFER, Holds(w, lo, n),
         lo + n + RECEIVER_MSG_BUFFER <= MaxSeq, NEW a \in 0..(lo + n), NEW k \in AckedAt(w, Number(a))
  PROVE  k \in OpenOffsets(w) /\ k \in Nat /\ k < n /\ lo + k + 1 = a
<1>1. n \in Nat /\ a \in Nat
  BY SMT
<1>2. k \in OpenOffsets(w) /\ k \in SendIndex /\ w.send_buff[SendSlot(w, k)].ack_no = Number(a)
  BY DEF AckedAt, OpenOffsets
<1>3. k < n /\ k \in Nat /\ lo + k + 1 \in Nat
  BY <1>1, <1>2, OpenHolds, BufferFacts, SMT DEF SendIndex
<1>4. Number(lo + k + 1) = Number(a)
  BY <1>1, <1>2, <1>3, HoldsSlots DEF SlotsHold
<1>5. lo + k + 1 < a + MaxSeq /\ a < lo + k + 1 + MaxSeq
  BY <1>1, <1>3, BufferFacts, SMT
<1>6. lo + k + 1 = a
  BY <1>1, <1>3, <1>4, <1>5, NumberUnique
<1> QED BY <1>2, <1>3, <1>6

-----------------------------------------------------------------------------
(* Queues, from which any datagram may be taken.                           *)

LEMMA ArriveFrom ==
  ASSUME NEW G, NEW q \in Seq(G), NEW ds \in Seq(G)
  PROVE  Arrive(q, ds) \in Seq(G)
<1>1. q \o ds \in Seq(G) /\ Len(q \o ds) \in Nat
  BY ConcatProperties, LenProperties
<1>2. CASE Len(q \o ds) <= RcvBuf
  BY <1>1, <1>2 DEF Arrive
<1>3. CASE ~(Len(q \o ds) <= RcvBuf)
  <2>1. \A i \in 1..RcvBuf : (q \o ds)[i] \in G
    BY <1>1, <1>3, BoundAssumption, ElementOfSeq, SMT
  <2>2. SubSeq(q \o ds, 1, RcvBuf) \in Seq(G)
    BY <2>1, BoundAssumption, SubSeqProperties, <1>1, <1>3, SMT
  <2> QED BY <1>3, <2>2 DEF Arrive
<1> QED BY <1>2, <1>3

LEMMA RemoveFrom ==
  ASSUME NEW G, NEW q \in Seq(G), NEW i \in 1..Len(q)
  PROVE  RemoveAt(q, i) \in Seq(G)
<1>1. SubSeq(q, 1, i - 1) \in Seq(G)
  BY SubSeqProperties, LenProperties, ElementOfSeq, SMT
<1>2. SubSeq(q, i + 1, Len(q)) \in Seq(G)
  BY SubSeqProperties, LenProperties, ElementOfSeq, SMT
<1> QED BY <1>1, <1>2, ConcatProperties DEF RemoveAt

LEMMA SeqWider ==
  ASSUME NEW G, NEW H, G \subseteq H, NEW q \in Seq(G)
  PROVE  q \in Seq(H)
<1>1. Len(q) \in Nat /\ q \in [1..Len(q) -> G]
  BY LenProperties
<1>2. q \in [1..Len(q) -> H]
  BY <1>1
<1> QED BY <1>1, <1>2

\* One datagram is a queue.
LEMMA OneOf ==
  ASSUME NEW G, NEW g \in G
  PROVE  <<g>> \in Seq(G)
OBVIOUS

-----------------------------------------------------------------------------
(* No step takes back what is accepted or what has come.                   *)

LEMMA CameType ==
  ASSUME LooseInv, NEW s \in Socks
  PROVE  /\ recv_window[s] \in RecvWindow /\ ReceiveRing(recv_window[s])
         /\ delivered[s] \in Seq(Nat) /\ Len(delivered[s]) \in Nat
         /\ Came(s) \in Nat /\ Len(delivered[s]) <= Came(s)
         /\ Came(s) <= Len(delivered[s]) + RECEIVER_MSG_BUFFER
         /\ Came(s) <= accepted[Peer[s]] /\ accepted[Peer[s]] \in Nat
         /\ Peer[s] \in Socks /\ Peer[s] # s /\ Peer[Peer[s]] = s
<1>1. /\ recv_window[s] \in RecvWindow /\ ReceiveRing(recv_window[s])
      /\ delivered[s] \in Seq(Nat) /\ Len(delivered[s]) \in Nat
  BY LenProperties DEF LooseInv, TypeOK, ReceiveRingOK
<1>2. Peer[s] \in Socks /\ Peer[s] # s /\ Peer[Peer[s]] = s
  BY PeerFacts
<1>3. Came(s) <= accepted[Peer[s]]
  BY DEF LooseInv, Placed, InHand, Came
<1>4. accepted[Peer[s]] \in Nat
  BY <1>2 DEF LooseInv, TypeOK
<1> QED BY <1>1, <1>2, <1>3, <1>4, InOrderType DEF Came

\* What the steps below leave to show.
Typed == TypeOK /\ ReceiveRingOK
Onwards == \A s \in Socks : accepted[s] <= accepted'[s] /\ Came(s) <= Came(s)'

LEMMA NextCameType ==
  ASSUME Typed', NEW s \in Socks
  PROVE  Came(s)' \in Nat /\ accepted'[s] \in Nat
<1>1. /\ recv_window'[s] \in RecvWindow /\ ReceiveRing(recv_window'[s])
      /\ delivered'[s] \in Seq(Nat) /\ Len(delivered'[s]) \in Nat /\ accepted'[s] \in Nat
  BY LenProperties DEF Typed, TypeOK, ReceiveRingOK
<1> QED BY <1>1, InOrderType DEF Came

LEMMA NamesMore ==
  ASSUME NEW n, NEW i \in Nat, NEW j \in Nat, i <= j, Names(n, i)
  PROVE  Names(n, j)
<1>1. PICK m \in 0..i : n = Number(m)
  BY DEF Names
<1>2. m \in 0..j
  BY SMT
<1> QED BY <1>1, <1>2 DEF Names

\* What a step leaves alone stays as it should be.
LEMMA StaysGenuine ==
  ASSUME LooseInv, Typed', Onwards, NEW z \in Socks
  PROVE  Genuine(z) \subseteq Genuine(z)'
<1>1. /\ Peer[z] \in Socks /\ accepted[Peer[z]] \in Nat /\ accepted'[Peer[z]] \in Nat
      /\ accepted[Peer[z]] <= accepted'[Peer[z]]
  BY CameType, NextCameType DEF Onwards
<1>2. /\ Came(z) \in Nat /\ Came(z)' \in Nat /\ Came(z) <= Came(z)'
      /\ Came(Peer[z]) \in Nat /\ Came(Peer[z])' \in Nat /\ Came(Peer[z]) <= Came(Peer[z])'
  BY <1>1, CameType, NextCameType DEF Onwards
<1>3. \A b \in 1..accepted[Peer[z]] : b \in 1..accepted'[Peer[z]]
  BY <1>1, SMT
<1>4. \A n : /\ Names(n, Came(z)) => Names(n, Came(z)')
             /\ Names(n, Came(Peer[z])) => Names(n, Came(Peer[z])')
  BY <1>2, NamesMore
<1>5. ASSUME NEW g \in Genuine(z) PROVE g \in Genuine(z)'
  <2>1. Genuine(z)' = {d \in Datagram :
            /\ d.type = "D" => d.body \in 1..accepted'[Peer[z]] /\ d.seq_no = Number(d.body)
            /\ d.type = "P" => Names(d.seq_no, Came(z)')
            /\ d.type = "A" => Names(d.seq_no, Came(Peer[z])')}
    BY DEF Genuine, Names
  <2> QED BY <1>3, <1>4, <1>5, <2>1 DEF Genuine
<1> QED BY <1>5

LEMMA StaysTied ==
  ASSUME LooseInv, Typed', Onwards, NEW z \in Socks,
         send_window'[z] = send_window[z], accepted'[z] = accepted[z]
  PROVE  Tied(z)'
<1>1. PICK n \in 0..SENDER_MSG_BUFFER, lo \in 0..accepted[z] :
        accepted[z] = lo + n /\ Holds(send_window[z], lo, n) /\ lo <= Came(Peer[z])
  BY DEF LooseInv, Tied
<1>2. /\ Peer[z] \in Socks /\ Came(Peer[z]) \in Nat /\ Came(Peer[z])' \in Nat
      /\ Came(Peer[z]) <= Came(Peer[z])' /\ lo \in Nat
  BY CameType, NextCameType DEF Onwards
<1>3. lo <= Came(Peer[z])'
  BY <1>1, <1>2, SMT
<1> QED BY <1>1, <1>3 DEF Tied

LEMMA StaysPlaced ==
  ASSUME LooseInv, Typed', Onwards, NEW z \in Socks,
         recv_window'[z] = recv_window[z], delivered'[z] = delivered[z]
  PROVE  Placed(z)'
<1>1. Placed(z)
  BY DEF LooseInv
<1>2. /\ accepted[Peer[z]] \in Nat /\ accepted'[Peer[z]] \in Nat
      /\ accepted[Peer[z]] <= accepted'[Peer[z]]
  BY CameType, NextCameType DEF Onwards
<1>3. \A m \in InHand(recv_window[z], Len(delivered[z])) : m \in Nat /\ m <= accepted[Peer[z]]
  BY <1>1, CameType, InOrderType DEF Placed
<1>4. \A m \in InHand(recv_window[z], Len(delivered[z])) : m <= accepted'[Peer[z]]
  BY <1>2, <1>3, SMT
<1> QED BY <1>1, <1>4 DEF Placed

LEMMA StaysTimed ==
  ASSUME LooseInv, Typed', Onwards, NEW z \in Socks,
         persistence_timer'[z] = persistence_timer[z]
  PROVE  Timed(z)'
<1>1. Timed(z)
  BY DEF LooseInv
<1>2. /\ Peer[z] \in Socks /\ Came(Peer[z]) \in Nat /\ Came(Peer[z])' \in Nat
      /\ Came(Peer[z]) <= Came(Peer[z])'
  BY CameType, NextCameType DEF Onwards
<1>3. Names(persistence_timer[z].ack_seq_no, Came(Peer[z])) =>
        Names(persistence_timer[z].ack_seq_no, Came(Peer[z])')
  BY <1>2, NamesMore
<1>4. Timed(z)' = (persistence_timer'[z].flag > 0 =>
                     Names(persistence_timer'[z].ack_seq_no, Came(Peer[z])'))
  BY DEF Timed, Names
<1> QED BY <1>1, <1>3, <1>4 DEF Timed

LEMMA StaysQueued ==
  ASSUME LooseInv, Typed', Onwards, NEW z \in Socks
  PROVE  udp[z] \in Seq(Genuine(z)')
<1>1. udp[z] \in Seq(Genuine(z))
  BY DEF LooseInv, Queued
<1> QED BY <1>1, StaysGenuine, SeqWider

-----------------------------------------------------------------------------
(* What is sent and taken.                                                 *)

LEMMA TakenGenuine ==
  ASSUME LooseInv, NEW s \in Socks, NEW i \in Arrived(s)
  PROVE  i \in 1..Len(udp[s]) /\ udp[s][i] \in Genuine(s) /\ udp[s][i] \in Datagram
<1>1. udp[s] \in Seq(Genuine(s)) /\ Len(udp[s]) \in Nat
  BY LenProperties DEF LooseInv, Queued
<1>2. i \in 1..Len(udp[s])
  BY <1>1, BoundAssumption, SMT DEF Arrived
<1>3. udp[s][i] \in Genuine(s)
  BY <1>1, <1>2, ElementOfSeq
<1> QED BY <1>2, <1>3 DEF Genuine

\* An ACK of what has come to s, by now or at any time before.
LEMMA AckGenuine ==
  ASSUME Typed', NEW s \in Socks, NEW n, Names(n, Came(s)'), NEW size \in Nat
  PROVE  Ack(n, size) \in Genuine(Peer[s])'
<1>1. Peer[s] \in Socks /\ Peer[Peer[s]] = s
  BY PeerFacts
<1>2. Came(s)' \in Nat
  BY NextCameType
<1>3. n \in 0..MaxSeq
  <2>1. PICK m \in 0..(Came(s)') : n = Number(m)
    BY DEF Names
  <2>2. m \in Nat
    BY SMT
  <2> QED BY <2>1, <2>2, NumberUsed
<1>4. /\ Ack(n, size).type = "A" /\ Ack(n, size).seq_no = n /\ Ack(n, size) \in Datagram
  BY <1>3 DEF Ack, Datagram
<1>5. \A g \in Datagram : g.type = "A" /\ Names(g.seq_no, Came(Peer[Peer[s]])') => g \in Genuine(Peer[s])'
  BY DEF Genuine, Names
<1> QED BY <1>1, <1>4, <1>5

LEMMA SentQueued ==
  ASSUME LooseInv, Typed', Onwards, NEW s \in Socks, NEW ds, ds \in Seq(Genuine(s)'),
         udp' = [udp EXCEPT ![s] = Arrive(@, ds)]
  PROVE  \A z \in Socks : Queued(z)'
<1>1. udp'[s] = Arrive(udp[s], ds) /\ \A z \in Socks : z # s => udp'[z] = udp[z]
  BY DEF LooseInv, TypeOK
<1>2. \A z \in Socks : udp[z] \in Seq(Genuine(z)')
  BY StaysQueued
<1>3. Arrive(udp[s], ds) \in Seq(Genuine(s)')
  BY <1>2, ArriveFrom
<1> QED BY <1>1, <1>2, <1>3 DEF Queued

LEMMA AnswerQueued ==
  ASSUME LooseInv, Typed', Onwards, NEW s \in Socks, NEW i \in Arrived(s),
         NEW g, g \in Genuine(Peer[s])', Answer(s, i, g)
  PROVE  \A z \in Socks : Queued(z)'
<1> DEFINE p == Peer[s]
<1>0. p \in Socks /\ p # s
  BY PeerFacts
<1>1. /\ udp'[s] = RemoveAt(udp[s], i) /\ udp'[p] = Arrive(udp[p], <<g>>)
      /\ \A z \in Socks : z # s /\ z # p => udp'[z] = udp[z]
  BY <1>0 DEF Answer, LooseInv, TypeOK
<1>2. \A z \in Socks : udp[z] \in Seq(Genuine(z)')
  BY StaysQueued
<1>3. RemoveAt(udp[s], i) \in Seq(Genuine(s)')
  BY <1>2, TakenGenuine, RemoveFrom
<1>4. Arrive(udp[p], <<g>>) \in Seq(Genuine(p)')
  BY <1>0, <1>2, OneOf, ArriveFrom
<1> QED BY <1>1, <1>2, <1>3, <1>4 DEF Queued

LEMMA ConsumeQueued ==
  ASSUME LooseInv, Typed', Onwards, NEW s \in Socks, NEW i \in Arrived(s), Consume(s, i)
  PROVE  \A z \in Socks : Queued(z)'
<1>1. udp'[s] = RemoveAt(udp[s], i) /\ \A z \in Socks : z # s => udp'[z] = udp[z]
  BY DEF Consume, LooseInv, TypeOK
<1>2. \A z \in Socks : udp[z] \in Seq(Genuine(z)')
  BY StaysQueued
<1>3. RemoveAt(udp[s], i) \in Seq(Genuine(s)')
  BY <1>2, TakenGenuine, RemoveFrom
<1> QED BY <1>1, <1>2, <1>3 DEF Queued

-----------------------------------------------------------------------------
(* The actions.                                                            *)

LEMMA LooseSend ==
  ASSUME LooseInv, Typed', NEW s \in Socks, m_sendto(s)
  PROVE  LooseInv' /\ accepted[s] - Len(delivered[Peer[s]]) < SENDER_MSG_BUFFER + RECEIVER_MSG_BUFFER
<1> DEFINE w == send_window[s]
<1>1. PICK k \in SendIndex :
        /\ w.send_buff[SendSlot(w, k)].ack_no = FREE
        /\ \A j \in 0..(k - 1) : w.send_buff[SendSlot(w, j)].ack_no # FREE
        /\ send_window' = [send_window EXCEPT ![s] = Enqueue(@, k, accepted[s] + 1)]
  BY DEF m_sendto
<1>2. /\ send_window'[s] = Enqueue(w, k, accepted[s] + 1)
      /\ \A z \in Socks : z # s => send_window'[z] = send_window[z]
      /\ accepted'[s] = accepted[s] + 1 /\ \A z \in Socks : z # s => accepted'[z] = accepted[z]
      /\ UNCHANGED <<recv_window, persistence_timer, udp, delivered>>
  BY <1>1 DEF m_sendto, LooseInv, TypeOK
<1>3. \A z \in Socks : accepted[z] \in Nat /\ Came(z) \in Nat /\ Came(z)' = Came(z)
  BY <1>2, CameType DEF LooseInv, TypeOK, Came
<1>4. Onwards
  BY <1>2, <1>3, SMT DEF Onwards
<1>5. PICK n \in 0..SENDER_MSG_BUFFER, lo \in 0..accepted[s] :
        accepted[s] = lo + n /\ Holds(w, lo, n) /\ lo <= Came(Peer[s])
  BY DEF LooseInv, Tied
<1>6. w \in SendWindow /\ n \in Nat /\ lo \in Nat
  BY <1>5, SMT DEF LooseInv, TypeOK
<1> HIDE DEF w
<1>7. n + 1 <= SENDER_MSG_BUFFER /\ Holds(Enqueue(w, k, lo + n + 1), lo, n + 1)
  BY <1>1, <1>5, <1>6, HoldsEnqueue
<1>8. /\ accepted'[s] = lo + (n + 1) /\ n + 1 \in 0..SENDER_MSG_BUFFER /\ lo \in 0..accepted'[s]
      /\ accepted[s] + 1 = lo + n + 1
  BY <1>2, <1>5, <1>6, <1>7, BufferFacts, SMT
<1>9. Peer[s] \in Socks /\ Came(Peer[s])' = Came(Peer[s])
  BY <1>3, PeerFacts
<1>10. Tied(s)'
  BY <1>2, <1>5, <1>7, <1>8, <1>9 DEF Tied
<1>11. \A z \in Socks : Tied(z)' /\ Placed(z)' /\ Timed(z)' /\ Queued(z)'
  BY <1>2, <1>4, <1>10, StaysTied, StaysPlaced, StaysTimed, StaysQueued DEF Queued
<1>12. \A z \in Socks : accepted'[z] <= MaxMsgs[z]
  <2>1. accepted[s] < MaxMsgs[s] /\ MaxMsgs[s] \in Nat /\ accepted[s] \in Nat
    BY <1>3, BoundAssumption DEF m_sendto
  <2>2. accepted'[s] <= MaxMsgs[s]
    BY <1>2, <2>1, SMT
  <2> QED BY <1>2, <2>2 DEF LooseInv
<1>13. accepted[s] - Len(delivered[Peer[s]]) < SENDER_MSG_BUFFER + RECEIVER_MSG_BUFFER
  <2>1. /\ Came(Peer[s]) \in Nat /\ Len(delivered[Peer[s]]) \in Nat
        /\ Came(Peer[s]) <= Len(delivered[Peer[s]]) + RECEIVER_MSG_BUFFER
    BY <1>9, CameType
  <2> DEFINE c == Came(Peer[s])
             d == Len(delivered[Peer[s]])
             acc == accepted[s]
  <2>2. /\ lo <= c /\ acc = lo + n /\ n + 1 <= SENDER_MSG_BUFFER /\ lo \in Nat /\ n \in Nat
        /\ c \in Nat /\ d \in Nat /\ c <= d + RECEIVER_MSG_BUFFER
    BY <1>5, <1>6, <1>7, <2>1
  <2> HIDE DEF c, d, acc
  <2>3. acc - d < SENDER_MSG_BUFFER + RECEIVER_MSG_BUFFER
    BY <2>2, BufferFacts, SMT
  <2> QED BY <2>3 DEF d, acc
<1> QED BY <1>11, <1>12, <1>13 DEF LooseInv, Typed

LEMMA LooseRecv ==
  ASSUME LooseInv, Typed', NEW s \in Socks, m_recvfrom(s)
  PROVE  /\ LooseInv'
         /\ Len(delivered[s]) < accepted[Peer[s]]
         /\ delivered' = [delivered EXCEPT ![s] = Append(@, Len(@) + 1)]
<1> DEFINE u == recv_window[s]
           d == Len(delivered[s])
           more == Append(delivered[s], d + 1)
<1>1. u \in RecvWindow /\ ReceiveRing(u) /\ d \in Nat /\ delivered[s] \in Seq(Nat)
  BY CameType
<1>2. u.recv_buff[u.index_to_read].ack_no # FREE
  BY DEF m_recvfrom
<1>3. /\ Continues(u, d) /\ \A i \in 1..d : delivered[s][i] = i
      /\ \A m \in InHand(u, d) : m <= accepted[Peer[s]]
  BY DEF LooseInv, Placed
<1>4. /\ u.recv_buff[u.index_to_read].message = d + 1
      /\ InOrder(Dequeue(u), d + 1) = InOrder(u, d) /\ d + 1 <= InOrder(u, d)
      /\ InHand(Dequeue(u), d + 1) \subseteq InHand(u, d)
      /\ Continues(Dequeue(u), d + 1)
  BY <1>1, <1>2, <1>3, ContinuesDequeue
<1>5. delivered' = [delivered EXCEPT ![s] = Append(@, Len(@) + 1)]
  BY <1>4 DEF m_recvfrom
<1>6. /\ recv_window'[s] = Dequeue(u) /\ delivered'[s] = more
      /\ \A z \in Socks : z # s => recv_window'[z] = recv_window[z] /\ delivered'[z] = delivered[z]
      /\ UNCHANGED <<send_window, persistence_timer, udp, accepted>>
  BY <1>5 DEF m_recvfrom, LooseInv, TypeOK
<1>7. /\ Len(more) = d + 1 /\ \A i \in 1..(d + 1) : more[i] = i
  <2>1. Len(more) = d + 1 /\ (\A i \in 1..d : more[i] = delivered[s][i]) /\ more[d + 1] = d + 1
    BY <1>1, AppendProperties
  <2>2. \A i \in 1..(d + 1) : i \in 1..d \/ i = d + 1
    BY <1>1, SMT
  <2> QED BY <1>3, <2>1, <2>2
<1> HIDE DEF more
<1>8. Came(s)' = Came(s) /\ \A z \in Socks : Came(z)' = Came(z)
  BY <1>4, <1>6, <1>7 DEF Came
<1> HIDE DEF u
<1>9. Onwards
  <2>1. \A z \in Socks : accepted[z] \in Nat /\ Came(z) \in Nat
    BY CameType DEF LooseInv, TypeOK
  <2> QED BY <1>6, <1>8, <2>1, SMT DEF Onwards
<1>10. Placed(s)'
  BY <1>3, <1>4, <1>6, <1>7 DEF Placed
<1>11. \A z \in Socks : Tied(z)' /\ Placed(z)' /\ Timed(z)' /\ Queued(z)'
  BY <1>6, <1>9, <1>10, StaysTied, StaysPlaced, StaysTimed, StaysQueued DEF Queued
<1>12. d < accepted[Peer[s]]
  <2>1. Came(s) \in Nat /\ Came(s) <= accepted[Peer[s]] /\ accepted[Peer[s]] \in Nat /\ d + 1 <= Came(s)
    BY <1>4, CameType DEF Came, u
  <2> QED BY <1>1, <2>1, SMT
<1> QED BY <1>5, <1>6, <1>11, <1>12 DEF LooseInv, Typed

\* A step that changes neither what is accepted nor the receive windows.
LEMMA NothingCame ==
  ASSUME LooseInv, UNCHANGED <<recv_window, accepted, delivered>>
  PROVE  Onwards /\ \A z \in Socks : Came(z)' = Came(z) /\ Genuine(z)' = Genuine(z)
<1>1. \A z \in Socks : Came(z)' = Came(z) /\ Came(z) \in Nat /\ accepted[z] \in Nat
  BY CameType DEF Came, LooseInv, TypeOK
<1>2. Onwards
  BY <1>1, SMT DEF Onwards
<1>3. \A z \in Socks : Genuine(z)' = Genuine(z)
  BY <1>1, PeerFacts DEF Genuine, Names
<1> QED BY <1>1, <1>2, <1>3

LEMMA LooseProbe ==
  ASSUME LooseInv, Typed', NEW s \in Socks, SendProbe(s)
  PROVE  LooseInv'
<1> DEFINE t == persistence_timer[s]
           g == Probe(t.ack_seq_no)
           p == Peer[s]
<1>0. p \in Socks
  BY PeerFacts
<1>1. /\ persistence_timer'[s] = [t EXCEPT !.flag = Backoff(@)]
      /\ \A z \in Socks : z # s => persistence_timer'[z] = persistence_timer[z]
      /\ udp' = [udp EXCEPT ![p] = Arrive(@, <<g>>)] /\ t.flag > 0
      /\ UNCHANGED <<send_window, recv_window, accepted, delivered>>
  BY DEF SendProbe, LooseInv, TypeOK
<1>2. Onwards /\ Came(p)' = Came(p) /\ Genuine(p)' = Genuine(p)
  BY <1>0, <1>1, NothingCame
<1>3. t \in [flag : 0..4, ack_seq_no : 0..MaxSeq] /\ Names(t.ack_seq_no, Came(p))
  BY <1>1 DEF LooseInv, TypeOK, Timed
<1>4. persistence_timer'[s].ack_seq_no = t.ack_seq_no
  BY <1>1, <1>3
<1>5. Timed(s)'
  BY <1>2, <1>3, <1>4 DEF Timed, Names
<1>6. g \in Genuine(p)
  BY <1>3 DEF Probe, Datagram, Genuine
<1> HIDE DEF g, t
<1>7. <<g>> \in Seq(Genuine(p)')
  BY <1>2, <1>6, OneOf
<1>8. \A z \in Socks : Queued(z)'
  BY <1>0, <1>1, <1>2, <1>7, SentQueued
<1>9. \A z \in Socks : Tied(z)' /\ Placed(z)' /\ Timed(z)'
  BY <1>1, <1>2, <1>5, StaysTied, StaysPlaced, StaysTimed
<1> QED BY <1>1, <1>8, <1>9 DEF LooseInv, Typed

LEMMA LoosePass ==
  ASSUME LooseInv, Typed', NEW s \in Socks, NEW q \in Passes(send_window[s]), SendPass(s, q)
  PROVE  LooseInv'
<1> DEFINE w == send_window[s]
           ds == Sent(w, q)
           p == Peer[s]
<1>0. p \in Socks /\ Peer[p] = s
  BY PeerFacts
<1>1. /\ send_window'[s] = MarkSent(w, q)
      /\ \A z \in Socks : z # s => send_window'[z] = send_window[z]
      /\ udp' = [udp EXCEPT ![p] = Arrive(@, ds)]
      /\ UNCHANGED <<persistence_timer, recv_window, accepted, delivered>>
  BY DEF SendPass, Sent, LooseInv, TypeOK
<1>2. Onwards /\ Came(p)' = Came(p) /\ Genuine(p)' = Genuine(p)
  BY <1>0, <1>1, NothingCame
<1>3. PICK n \in 0..SENDER_MSG_BUFFER, lo \in 0..accepted[s] :
        accepted[s] = lo + n /\ Holds(w, lo, n) /\ lo <= Came(p)
  BY DEF LooseInv, Tied
<1>4. w \in SendWindow /\ n \in Nat /\ lo \in Nat /\ accepted[s] \in Nat
  BY <1>3, SMT DEF LooseInv, TypeOK
<1> HIDE DEF w
<1>5. Holds(MarkSent(w, q), lo, n)
  BY <1>3, <1>4, HoldsMark
<1>6. Tied(s)'
  BY <1>1, <1>2, <1>3, <1>5 DEF Tied
<1>7. PICK l \in Nat : q \in [1..l -> OpenOffsets(w)]
  BY <1>4, PassType DEF w
<1>8. ASSUME NEW i \in 1..l PROVE ds[i] \in Genuine(p)
  <2>1. q[i] \in OpenOffsets(w) /\ ds[i] = Data(w.send_buff[SendSlot(w, q[i])])
    BY <1>7, <1>8 DEF Sent
  <2> DEFINE k == q[i]
  <2>2. k \in SendIndex /\ k < n /\ ds[i] \in Datagram
    BY <1>3, <1>4, <2>1, OpenHolds, DataType DEF OpenOffsets
  <2>3. /\ w.send_buff[SendSlot(w, k)].ack_no = Number(lo + k + 1)
        /\ w.send_buff[SendSlot(w, k)].message = lo + k + 1
    BY <1>3, <1>4, <2>2, HoldsSlots DEF SlotsHold
  <2>4. ds[i].type = "D" /\ ds[i].body = lo + k + 1 /\ ds[i].seq_no = Number(lo + k + 1)
    BY <2>1, <2>3 DEF Data
  <2> HIDE DEF k
  <2>5. lo + k + 1 \in 1..accepted[s]
    <3>1. k \in Nat
      BY <2>2, BufferFacts, SMT DEF SendIndex
    <3> QED BY <1>3, <1>4, <2>2, <3>1, SMT
  <2> QED BY <1>0, <2>2, <2>4, <2>5 DEF Genuine
<1>9. ds \in Seq(Genuine(p)')
  <2>1. ds = [i \in 1..l |-> ds[i]]
    BY <1>7 DEF Sent
  <2> HIDE DEF ds
  <2> QED BY <1>2, <1>8, <2>1, IsASeq
<1> HIDE DEF ds
<1>10. \A z \in Socks : Queued(z)'
  BY <1>0, <1>1, <1>2, <1>9, SentQueued
<1>11. \A z \in Socks : Tied(z)' /\ Placed(z)' /\ Timed(z)'
  BY <1>1, <1>2, <1>6, StaysTied, StaysPlaced, StaysTimed
<1> QED BY <1>1, <1>10, <1>11 DEF LooseInv, Typed

\* Thread R takes a message that the receive window has a place for.
LEMMA TakenExpected ==
  ASSUME FewMessages, LooseInv, NEW s \in Socks, NEW i \in Arrived(s), udp[s][i].type = "D",
         NEW k \in Nat, k < recv_window[s].window_size,
         udp[s][i].seq_no = SeqAdd(recv_window[s].next_seq_no, k)
  PROVE  udp[s][i].body = Came(s) + k + 1 /\ udp[s][i].body \in 1..accepted[Peer[s]]
<1> DEFINE u == recv_window[s]
           d == Len(delivered[s])
           b == udp[s][i].body
           acc == accepted[Peer[s]]
<1>1. b \in 1..acc /\ Number(b) = SeqAdd(u.next_seq_no, k)
  BY TakenGenuine DEF Genuine
<1>2. /\ u \in RecvWindow /\ ReceiveRing(u) /\ d \in Nat /\ InOrder(u, d) <= acc /\ acc \in Nat
  BY CameType DEF Came
<1>3. Continues(u, d)
  BY DEF LooseInv, Placed
<1>4. acc + RECEIVER_MSG_BUFFER <= MaxSeq
  BY PeerFacts, FewFacts
<1>5. k < u.window_size
  OBVIOUS
<1> HIDE DEF u, b, d, acc
<1>6. b = InOrder(u, d) + k + 1
  BY <1>1, <1>2, <1>3, <1>4, <1>5, FewExpected
<1> QED BY <1>1, <1>6 DEF Came, b, u, d, acc

\* The receive window of s becomes v, which lacks nothing that was in order,
\* and the answer names what has come.
LEMMA LooseStored ==
  ASSUME LooseInv, Typed', NEW s \in Socks, NEW i \in Arrived(s), NEW v, NEW n, NEW size \in Nat,
         recv_window' = [recv_window EXCEPT ![s] = v],
         UNCHANGED <<send_window, persistence_timer, accepted, delivered>>,
         Answer(s, i, Ack(n, size)),
         LET d == Len(delivered[s])
         IN  /\ Came(s) <= InOrder(v, d) /\ Names(n, InOrder(v, d)) /\ Continues(v, d)
             /\ \A m \in InHand(v, d) : m <= accepted[Peer[s]]
  PROVE  LooseInv'
<1>1. recv_window'[s] = v /\ \A z \in Socks : z # s => recv_window'[z] = recv_window[z]
  BY DEF LooseInv, TypeOK
<1>2. Came(s)' = InOrder(v, Len(delivered[s])) /\ \A z \in Socks : z # s => Came(z)' = Came(z)
  BY <1>1 DEF Came
<1>3. Onwards
  <2>1. \A z \in Socks : Came(z) \in Nat /\ accepted[z] \in Nat
    BY CameType DEF LooseInv, TypeOK
  <2>2. \A z \in Socks : Came(z) <= Came(z)
    BY <2>1, SMT
  <2>3. \A z \in Socks : accepted[z] <= accepted[z]
    BY <2>1, SMT
  <2> QED BY <1>2, <2>2, <2>3 DEF Onwards
<1>4. Ack(n, size) \in Genuine(Peer[s])'
  BY <1>2, AckGenuine
<1>5. \A z \in Socks : Queued(z)'
  BY <1>3, <1>4, AnswerQueued
<1>6. Placed(s)'
  <2>1. \A j \in 1..Len(delivered[s]) : delivered[s][j] = j
    BY DEF LooseInv, Placed
  <2> QED BY <1>1, <2>1 DEF Placed
<1>7. \A z \in Socks : Tied(z)' /\ Placed(z)' /\ Timed(z)'
  BY <1>1, <1>3, <1>6, StaysTied, StaysPlaced, StaysTimed
<1> QED BY <1>5, <1>7 DEF LooseInv, Typed

LEMMA NamesLast ==
  ASSUME NEW last \in Nat
  PROVE  Names(Number(last), last)
BY SMT DEF Names

LEMMA LooseInOrder ==
  ASSUME FewMessages, LooseInv, Typed', NEW s \in Socks, NEW i \in Arrived(s), ReceiveInOrder(s, i)
  PROVE  LooseInv'
<1> DEFINE u == recv_window[s]
           d == Len(delivered[s])
           m == udp[s][i].body
           acc == accepted[Peer[s]]
<1>1. PICK n \in InOrderRuns(u) :
        recv_window' = [recv_window EXCEPT ![s] = StoreInOrder(u, m, n)] /\ Answer(s, i, AckRun(u, n))
  BY DEF ReceiveInOrder
<1>2. /\ udp[s][i].type = "D" /\ udp[s][i].seq_no = u.next_seq_no /\ u.window_size > 0
      /\ UNCHANGED <<send_window, persistence_timer, accepted, delivered>>
  BY DEF ReceiveInOrder, IsNext
<1>3. /\ u \in RecvWindow /\ ReceiveRing(u) /\ d \in Nat /\ acc \in Nat
      /\ Came(s) = InOrder(u, d) /\ InOrder(u, d) \in Nat
  BY CameType DEF Came
<1>4. SeqAdd(u.next_seq_no, 0) = u.next_seq_no /\ u.window_size \in Nat
  <2>1. u.next_seq_no \in 1..MaxSeq /\ MaxSeq \in Nat /\ u.window_size \in Nat
    BY <1>3, RecvFields DEF SeqNo
  <2> HIDE DEF u
  <2>2. u.next_seq_no \in SeqNo /\ 0 \in 0..MaxSeq /\ u.next_seq_no + 0 = u.next_seq_no /\ u.next_seq_no <= MaxSeq
    BY <2>1, SMT DEF SeqNo
  <2> QED BY <2>1, <2>2, SeqAddStep
<1>5. m = InOrder(u, d) + 1 /\ m \in 1..acc
  <2>1. 0 \in Nat /\ 0 < u.window_size
    BY <1>2, <1>4, SMT
  <2>2. m = InOrder(u, d) + 0 + 1 /\ m \in 1..acc
    BY <1>2, <1>3, <1>4, <2>1, TakenExpected
  <2> HIDE DEF m, u, d, acc
  <2> QED BY <1>3, <2>2, SMT
<1>6. Continues(u, d) /\ \A j \in InHand(u, d) : j <= acc
  BY DEF LooseInv, Placed
<1> DEFINE v == StoreInOrder(u, m, n)
           r == InOrder(u, d)
<1>7. /\ n \in 1..u.window_size /\ InOrder(v, d) = r + n
      /\ \A j \in InHand(v, d) : j \in InHand(u, d) \/ j = m
      /\ Continues(v, d) /\ AckRun(u, n) = Ack(Number(r + n), u.window_size - n)
  <2>1. m \in Nat
    BY <1>3, <1>5, SMT
  <2> HIDE DEF m, u, d, acc
  <2> QED BY <1>3, <1>5, <1>6, <2>1, ContinuesStore
<1>8. \A j \in InHand(v, d) : j <= acc
  <2>1. m <= acc
    BY <1>3, <1>5, SMT
  <2> QED BY <1>6, <1>7, <2>1
<1>9. /\ Came(s) <= InOrder(v, d) /\ Names(Number(r + n), InOrder(v, d)) /\ u.window_size - n \in Nat
  <2> HIDE DEF v, r, u, d
  <2>1. r \in Nat /\ r = Came(s) /\ u.window_size \in Nat /\ n \in 1..u.window_size
    BY <1>3, <1>4, <1>7 DEF r
  <2>2. r + n \in Nat /\ r <= r + n /\ u.window_size - n \in Nat
    BY <2>1, SMT
  <2> QED BY <1>7, <2>1, <2>2, NamesLast
<1> HIDE DEF v, r, m
<1>10. recv_window' = [recv_window EXCEPT ![s] = v]
  BY <1>1 DEF v
<1> QED BY <1>1, <1>2, <1>7, <1>8, <1>9, <1>10, LooseStored

LEMMA LooseEarly ==
  ASSUME FewMessages, LooseInv, Typed', NEW s \in Socks, NEW i \in Arrived(s), ReceiveEarly(s, i)
  PROVE  LooseInv'
<1> DEFINE u == recv_window[s]
           d == Len(delivered[s])
           g == udp[s][i]
           acc == accepted[Peer[s]]
<1>1. PICK k \in ExpectedAt(u, g) : recv_window' = [recv_window EXCEPT ![s] = StoreEarly(u, g, k)]
  BY DEF ReceiveEarly
<1>2. /\ g.type = "D" /\ Answer(s, i, AckInOrder(u))
      /\ UNCHANGED <<send_window, persistence_timer, accepted, delivered>>
  BY DEF ReceiveEarly
<1>3. /\ u \in RecvWindow /\ ReceiveRing(u) /\ d \in Nat /\ acc \in Nat /\ g \in Datagram
      /\ Came(s) = InOrder(u, d) /\ InOrder(u, d) \in Nat /\ u.window_size \in Nat
  BY CameType, TakenGenuine, RecvFields DEF Came
<1>4. g.body = InOrder(u, d) + k + 1 /\ g.body \in 1..acc
  <2>1. k \in Nat /\ k < u.window_size /\ g.seq_no = SeqAdd(u.next_seq_no, k)
    BY BufferFacts, SMT DEF ExpectedAt
  <2> QED BY <1>2, <1>3, <2>1, TakenExpected
<1>5. Continues(u, d) /\ \A j \in InHand(u, d) : j <= acc
  BY DEF LooseInv, Placed
<1> DEFINE v == StoreEarly(u, g, k)
<1> HIDE DEF u, d, g, acc
<1>6. /\ InOrder(v, d) = InOrder(u, d) /\ \A j \in InHand(v, d) : j \in InHand(u, d) \/ j = g.body
      /\ Continues(v, d)
  BY <1>3, <1>4, <1>5, ContinuesEarly
<1>7. \A j \in InHand(v, d) : j <= acc
  <2>1. g.body <= acc
    BY <1>3, <1>4, SMT
  <2> QED BY <1>5, <1>6, <2>1
<1>8. AckInOrder(u) = Ack(Number(InOrder(u, d)), u.window_size)
  BY <1>3, <1>5, SnapshotOf
<1>9. Came(s) <= InOrder(v, d) /\ Names(Number(InOrder(u, d)), InOrder(v, d))
  BY <1>3, <1>6, NamesLast, SMT
<1> HIDE DEF v
<1>10. recv_window' = [recv_window EXCEPT ![s] = v]
  BY <1>1 DEF v
<1> QED BY <1>2, <1>3, <1>6, <1>7, <1>8, <1>9, <1>10, LooseStored DEF d, acc

\* A datagram that changes nothing but is answered.
LEMMA LooseRepeat ==
  ASSUME LooseInv, Typed', NEW s \in Socks, NEW i \in Arrived(s),
         \/ ReceiveOutside(s, i)
         \/ ReceiveProbe(s, i)
  PROVE  LooseInv'
<1> DEFINE u == recv_window[s]
           d == Len(delivered[s])
<1>1. /\ u \in RecvWindow /\ ReceiveRing(u) /\ d \in Nat /\ u.window_size \in Nat
      /\ Came(s) = InOrder(u, d) /\ InOrder(u, d) \in Nat
  BY CameType, RecvFields DEF Came
<1>2. Continues(u, d) /\ \A j \in InHand(u, d) : j <= accepted[Peer[s]]
  BY DEF LooseInv, Placed
<1>3. \E n : Answer(s, i, Ack(n, u.window_size)) /\ Names(n, InOrder(u, d))
  <2>1. CASE ReceiveOutside(s, i)
    <3>1. AckInOrder(u) = Ack(Number(InOrder(u, d)), u.window_size) /\ Answer(s, i, AckInOrder(u))
      BY <1>1, <1>2, <2>1, SnapshotOf DEF ReceiveOutside
    <3> QED BY <1>1, <3>1, NamesLast
  <2>2. CASE ReceiveProbe(s, i)
    <3>1. udp[s][i].type = "P" /\ Answer(s, i, Ack(udp[s][i].seq_no, u.window_size))
      BY <2>2 DEF ReceiveProbe
    <3>2. Names(udp[s][i].seq_no, Came(s))
      BY <3>1, TakenGenuine DEF Genuine
    <3> QED BY <1>1, <3>1, <3>2
  <2> QED BY <2>1, <2>2
<1>4. /\ recv_window' = [recv_window EXCEPT ![s] = u]
      /\ UNCHANGED <<send_window, persistence_timer, accepted, delivered>>
  BY DEF ReceiveOutside, ReceiveProbe, LooseInv, TypeOK
<1>5. Came(s) <= InOrder(u, d)
  BY <1>1, SMT
<1> HIDE DEF u
<1> QED BY <1>1, <1>2, <1>3, <1>4, <1>5, LooseStored

\* An ACK, however late, frees the messages up to the one it names, or none.
LEMMA LooseAck ==
  ASSUME FewMessages, LooseInv, Typed', NEW s \in Socks, NEW i \in Arrived(s), ReceiveAck(s, i)
  PROVE  LooseInv'
<1> DEFINE w == send_window[s]
           v == send_window'[s]
           g == udp[s][i]
           t == persistence_timer[s]
           p == Peer[s]
           acc == accepted[s]
<1>0. p \in Socks /\ Peer[p] = s
  BY PeerFacts
<1>1. /\ g.type = "A" /\ Consume(s, i) /\ UNCHANGED <<recv_window, accepted, delivered>>
      /\ persistence_timer'[s] = TimerAfter(t, g.seq_no, g.body)
      /\ \A z \in Socks : z # s => /\ send_window'[z] = send_window[z]
                                   /\ persistence_timer'[z] = persistence_timer[z]
  BY DEF ReceiveAck, LooseInv, TypeOK
<1>2. \/ \E k \in AckedAt(w, g.seq_no) : v = [SlidePast(w, k) EXCEPT !.window_size = g.body]
      \/ v = [w EXCEPT !.window_size = g.body]
  BY DEF ReceiveAck, LooseInv, TypeOK
<1>3. Onwards /\ Came(p)' = Came(p)
  BY <1>0, <1>1, NothingCame
<1>4. g \in Genuine(s) /\ g \in Datagram /\ g.body \in Nat
  BY TakenGenuine DEF Datagram
<1>5. PICK a \in 0..Came(p) : g.seq_no = Number(a)
  BY <1>1, <1>4 DEF Genuine, Names
<1>6. PICK n \in 0..SENDER_MSG_BUFFER, lo \in 0..acc : acc = lo + n /\ Holds(w, lo, n) /\ lo <= Came(p)
  BY DEF LooseInv, Tied
<1>7. /\ w \in SendWindow /\ w.window_size \in Nat /\ t \in [flag : 0..4, ack_seq_no : 0..MaxSeq]
  BY DEF LooseInv, TypeOK, SendWindow
<1>8. Came(p) \in Nat /\ Came(p) <= acc /\ acc \in Nat /\ acc + RECEIVER_MSG_BUFFER <= MaxSeq
  BY <1>0, CameType, FewFacts
<1>9. Timed(s)'
  <2>1. CASE g.body > 0
    <3>1. persistence_timer'[s].flag = 0
      BY <1>1, <1>7, <2>1 DEF TimerAfter
    <3> QED BY <3>1, SMT DEF Timed
  <2>2. CASE ~(g.body > 0)
    <3>1. persistence_timer'[s].ack_seq_no = Number(a)
      BY <1>1, <1>5, <2>2 DEF TimerAfter
    <3> QED BY <1>3, <1>5, <3>1 DEF Timed, Names
  <2> QED BY <2>1, <2>2
<1> DEFINE c == Came(p)
<1>10. a \in Nat /\ a <= c /\ lo \in Nat /\ n \in Nat /\ a \in 0..(lo + n) /\ c \in Nat
  <2>1. c \in Nat /\ c <= acc /\ acc = lo + n /\ n \in 0..SENDER_MSG_BUFFER /\ lo \in 0..acc /\ a \in 0..c
        /\ acc \in Nat
    BY <1>5, <1>6, <1>8
  <2> HIDE DEF c, acc
  <2> QED BY <2>1, BufferFacts, SMT
<1>11. \E m \in 0..SENDER_MSG_BUFFER, low \in 0..acc : acc = low + m /\ Holds(v, low, m) /\ low <= c
  <2>1. CASE v = [w EXCEPT !.window_size = g.body]
    <3> HIDE DEF w, v, g, c, acc
    <3>1. Holds(v, lo, n) /\ lo <= c
      BY <1>6, <1>7, <1>10, <2>1, HoldsSize DEF c
    <3> QED BY <1>6, <3>1
  <2>2. ASSUME NEW k \in AckedAt(w, g.seq_no), v = [SlidePast(w, k) EXCEPT !.window_size = g.body]
        PROVE  \E m \in 0..SENDER_MSG_BUFFER, low \in 0..acc : acc = low + m /\ Holds(v, low, m) /\ low <= c
    <3>1. lo + n + RECEIVER_MSG_BUFFER <= MaxSeq /\ k \in AckedAt(w, Number(a))
      BY <1>5, <1>6, <1>8, <2>2
    <3> HIDE DEF w, v, g, c, acc
    <3>2. k \in OpenOffsets(w) /\ k \in Nat /\ k < n /\ lo + k + 1 = a
      BY <1>6, <1>7, <1>10, <3>1, FewAcked
    <3>3. Holds(SlidePast(w, k), a, n - k - 1)
      BY <1>6, <1>7, <1>10, <3>2, HoldsSlide
    <3>4. SlidePast(w, k) \in SendWindow
      <4>1. \A size \in Nat : [SlidePast(w, k) EXCEPT !.window_size = size] \in SendWindow
        BY <1>7, <3>2, SendWindowType
      <4>2. [SlidePast(w, k) EXCEPT !.window_size = w.window_size] = SlidePast(w, k)
        BY <1>7 DEF SlidePast, SendWindow
      <4> QED BY <1>7, <4>1, <4>2
    <3>5. n - k - 1 \in 0..SENDER_MSG_BUFFER /\ n - k - 1 \in Nat /\ acc = a + (n - k - 1) /\ a \in 0..acc
      BY <1>6, <1>10, <3>2, BufferFacts, SMT
    <3>6. Holds(v, a, n - k - 1)
      BY <1>10, <2>2, <3>3, <3>4, <3>5, HoldsSize
    <3> QED BY <1>10, <3>5, <3>6
  <2> QED BY <1>2, <2>1, <2>2
<1>12. Tied(s)'
  BY <1>1, <1>3, <1>11 DEF Tied
<1>13. \A z \in Socks : Tied(z)' /\ Placed(z)' /\ Timed(z)'
  BY <1>1, <1>3, <1>9, <1>12, StaysTied, StaysPlaced, StaysTimed
<1>14. \A z \in Socks : Queued(z)'
  BY <1>1, <1>3, ConsumeQueued
<1> QED BY <1>1, <1>13, <1>14 DEF LooseInv, Typed

LEMMA LooseDrop ==
  ASSUME LooseInv, Typed', NEW s \in Socks, NEW i \in Arrived(s), DropMessage(s, i)
  PROVE  LooseInv'
<1>1. Consume(s, i) /\ UNCHANGED <<send_window, recv_window, persistence_timer, accepted, delivered>>
  BY DEF DropMessage
<1>2. Onwards
  BY <1>1, NothingCame
<1>3. \A z \in Socks : Queued(z)'
  BY <1>1, <1>2, ConsumeQueued
<1>4. \A z \in Socks : Tied(z)' /\ Placed(z)' /\ Timed(z)'
  BY <1>1, <1>2, StaysTied, StaysPlaced, StaysTimed
<1> QED BY <1>1, <1>3, <1>4 DEF LooseInv, Typed

\* The flag nospace plays no part.
LEMMA NospaceApart ==
  ASSUME NEW u \in RecvWindow, NEW d \in Nat, Continues(u, d)
  PROVE  LET v == [u EXCEPT !.nospace = 0]
         IN  InOrder(v, d) = InOrder(u, d) /\ InHand(v, d) = InHand(u, d) /\ Continues(v, d)
<1> DEFINE v == [u EXCEPT !.nospace = 0]
<1>1. /\ v.recv_buff = u.recv_buff /\ v.index_to_read = u.index_to_read /\ v.index_to_write = u.index_to_write
      /\ v.next_seq_no = u.next_seq_no /\ v.window_size = u.window_size
  BY DEF RecvWindow
<1> HIDE DEF v
<1>2. InOrder(v, d) = InOrder(u, d) /\ \A k : CameEarly(v, k) = CameEarly(u, k)
  BY <1>1 DEF InOrder, CameEarly, WriteSlot
<1>3. InHand(v, d) = InHand(u, d)
  BY <1>2 DEF InHand
<1>4. Continues(v, d)
  BY <1>1, <1>2 DEF Continues, ReadSlot, WriteSlot
<1> QED BY <1>2, <1>3, <1>4 DEF v

LEMMA LooseUpdate ==
  ASSUME LooseInv, Typed', NEW s \in Socks, WindowUpdate(s)
  PROVE  LooseInv'
<1> DEFINE u == recv_window[s]
           v == [u EXCEPT !.nospace = 0]
           d == Len(delivered[s])
           p == Peer[s]
           ack == AckInOrder(u)
<1>0. p \in Socks
  BY PeerFacts
<1>1. /\ recv_window'[s] = v /\ \A z \in Socks : z # s => recv_window'[z] = recv_window[z]
      /\ udp' = [udp EXCEPT ![p] = Arrive(@, <<ack>>)]
      /\ UNCHANGED <<send_window, persistence_timer, accepted, delivered>>
  BY DEF WindowUpdate, LooseInv, TypeOK
<1>2. /\ u \in RecvWindow /\ ReceiveRing(u) /\ d \in Nat /\ u.window_size \in Nat
      /\ Came(s) = InOrder(u, d) /\ InOrder(u, d) \in Nat
  BY CameType, RecvFields DEF Came
<1>3. Continues(u, d) /\ \A m \in InHand(u, d) : m <= accepted[Peer[s]]
  BY DEF LooseInv, Placed
<1>4. InOrder(v, d) = InOrder(u, d) /\ InHand(v, d) = InHand(u, d) /\ Continues(v, d)
  BY <1>2, <1>3, NospaceApart
<1>5. ack = Ack(Number(Came(s)), u.window_size)
  BY <1>2, <1>3, SnapshotOf
<1> HIDE DEF ack, v
<1>6. Came(s)' = Came(s) /\ \A z \in Socks : Came(z)' = Came(z)
  BY <1>1, <1>2, <1>4 DEF Came
<1>7. Onwards
  <2>1. \A z \in Socks : accepted[z] \in Nat /\ Came(z) \in Nat
    BY CameType DEF LooseInv, TypeOK
  <2> QED BY <1>1, <1>6, <2>1, SMT DEF Onwards
<1>8. <<ack>> \in Seq(Genuine(p)')
  <2>1. Names(Number(Came(s)), Came(s)')
    BY <1>2, <1>6, NamesLast
  <2>2. Ack(Number(Came(s)), u.window_size) \in Genuine(p)'
    BY <1>2, <2>1, AckGenuine
  <2> QED BY <1>5, <2>2, OneOf
<1>9. \A z \in Socks : Queued(z)'
  BY <1>0, <1>1, <1>7, <1>8, SentQueued
<1>10. Placed(s)'
  <2>1. \A j \in 1..Len(delivered[s]) : delivered[s][j] = j
    BY DEF LooseInv, Placed
  <2> QED BY <1>1, <1>3, <1>4, <2>1 DEF Placed
<1>11. \A z \in Socks : Tied(z)' /\ Placed(z)' /\ Timed(z)'
  BY <1>1, <1>7, <1>10, StaysTied, StaysPlaced, StaysTimed
<1> QED BY <1>1, <1>9, <1>11 DEF LooseInv, Typed

-----------------------------------------------------------------------------
(* The invariant holds.                                                    *)

\* The windows of m_socket: nothing is held, readable or early.
LEMMA FreshWindows ==
  ASSUME NEW w, w = NewSendWindow, w \in SendWindow, NEW u, u = NewRecvWindow, u \in RecvWindow
  PROVE  Holds(w, 0, 0) /\ InOrder(u, 0) = 0 /\ Continues(u, 0) /\ \A m \in InHand(u, 0) : m = 0
<1>1. /\ w.last_seq_no = 0 /\ \A i \in SendIndex : w.send_buff[i].ack_no = FREE
      /\ u.window_size = RECEIVER_MSG_BUFFER /\ u.next_seq_no = 1
      /\ \A i \in RecvIndex : u.recv_buff[i].ack_no = FREE
  BY DEF NewSendWindow, NewRecvWindow
<1>2. Number(1) = 1
  <2>1. 0 - 1 + 1 = 0 /\ 0 % MaxSeq = 0 /\ 0 + 1 = 1
    BY BufferFacts, SMT
  <2> QED BY <2>1 DEF Number, SeqAdd
<1>3. Holds(w, 0, 0)
  <2>1. SeqAdd(w.last_seq_no, 1) = Number(0 + 0 + 1)
    <3>1. 0 + 0 + 1 = 1
      BY SMT
    <3> QED BY <1>1, <3>1 DEF Number
  <2>2. \A k \in SendIndex : ~(k < 0) /\ w.send_buff[SendSlot(w, k)].ack_no = FREE
    <3>1. \A k \in SendIndex : SendSlot(w, k) \in SendIndex
      BY SendFields
    <3>2. \A k \in SendIndex : ~(k < 0)
      BY SMT DEF SendIndex
    <3> QED BY <1>1, <3>1, <3>2
  <2>3. 0 \in Nat
    OBVIOUS
  <2> QED BY <2>1, <2>2, <2>3, HoldsBy
<1>4. InOrder(u, 0) = 0
  BY <1>1, BufferFacts, SMT DEF InOrder
<1>5. \A k \in RecvIndex : ~CameEarly(u, k)
  <2>1. \A k \in RecvIndex : WriteSlot(u, k) \in RecvIndex
    <3>1. \A k \in RecvIndex : k \in 0..RECEIVER_MSG_BUFFER
      BY BufferFacts, SMT DEF RecvIndex
    <3> QED BY <3>1, RecvSlotStep
  <2> QED BY <1>1, <2>1 DEF CameEarly
<1>6. Continues(u, 0)
  <2>1. 0 + 1 = 1
    BY SMT
  <2>2. u.next_seq_no = Number(InOrder(u, 0) + 1)
    BY <1>1, <1>2, <1>4, <2>1
  <2>3. \A k \in RecvIndex : ~(k < RECEIVER_MSG_BUFFER - u.window_size)
    BY <1>1, BufferFacts, SMT DEF RecvIndex
  <2> QED BY <1>5, <2>2, <2>3 DEF Continues
<1> QED BY <1>3, <1>4, <1>5, <1>6 DEF InHand

LEMMA LooseInit == Init => LooseInv
<1> SUFFICES ASSUME Init PROVE LooseInv
  OBVIOUS
<1>1. TypeOK /\ ReceiveRingOK
  BY TypeInit, ReceiveRingInit
<1>2. ASSUME NEW s \in Socks
      PROVE  accepted[s] <= MaxMsgs[s] /\ Tied(s) /\ Placed(s) /\ Timed(s) /\ Queued(s)
  <2> DEFINE w == send_window[s]
             u == recv_window[s]
  <2>0. Peer[s] \in Socks
    BY PeerFacts
  <2>1. /\ w = NewSendWindow /\ w \in SendWindow /\ u = NewRecvWindow /\ u \in RecvWindow
        /\ accepted[s] = 0 /\ accepted[Peer[s]] = 0 /\ delivered[s] = << >> /\ udp[s] = << >>
        /\ persistence_timer[s] = [flag |-> 0, ack_seq_no |-> 0]
        /\ recv_window[Peer[s]] = NewRecvWindow /\ delivered[Peer[s]] = << >>
        /\ recv_window[Peer[s]] \in RecvWindow
    BY <1>1, <2>0 DEF Init, TypeOK
  <2>2. /\ Holds(w, 0, 0) /\ InOrder(u, 0) = 0 /\ Continues(u, 0) /\ (\A m \in InHand(u, 0) : m = 0)
        /\ InOrder(recv_window[Peer[s]], 0) = 0
    BY <2>1, FreshWindows
  <2>3. Len(<< >>) = 0 /\ 1..0 = {} /\ 0 \in 0..SENDER_MSG_BUFFER /\ 0 \in 0..0 /\ 0 = 0 + 0 /\ 0 <= 0
    <3>1. 1..0 = {} /\ 0 \in 0..SENDER_MSG_BUFFER /\ 0 \in 0..0 /\ 0 = 0 + 0 /\ 0 <= 0
      BY BufferFacts, SMT
    <3> QED BY <3>1, EmptySeq, LenProperties
  <2>4. Came(Peer[s]) = 0
    BY <2>1, <2>2, <2>3 DEF Came
  <2>5. Tied(s)
    BY <2>1, <2>2, <2>3, <2>4 DEF Tied
  <2>6. Placed(s)
    <3>1. \A m \in InHand(u, 0) : m <= 0
      BY <2>2, <2>3
    <3>2. \A j \in 1..0 : << >>[j] = j
      BY <2>3
    <3> QED BY <2>1, <2>2, <2>3, <3>1, <3>2 DEF Placed
  <2>7. Timed(s)
    BY <2>1, SMT DEF Timed
  <2>8. Queued(s)
    BY <2>1, EmptySeq DEF Queued
  <2>9. accepted[s] <= MaxMsgs[s]
    BY <2>1, BoundAssumption, SMT
  <2> QED BY <2>5, <2>6, <2>7, <2>8, <2>9
<1> QED BY <1>1, <1>2 DEF LooseInv

LEMMA LooseNext ==
  ASSUME FewMessages
  PROVE  LooseInv /\ [Next]_vars => LooseInv'
<1> SUFFICES ASSUME LooseInv, [Next]_vars PROVE LooseInv'
  OBVIOUS
<1>1. Typed'
  BY TypeNext, ReceiveRingNext DEF LooseInv, Typed
<1>2. CASE UNCHANGED vars
  BY <1>2 DEF vars, LooseInv, TypeOK, ReceiveRingOK, Tied, Placed, Timed, Queued, Came, Genuine
<1>3. CASE Next
  <2>1. PICK s \in Socks : m_sendto(s) \/ m_recvfrom(s) \/ thread_S(s) \/ thread_R(s)
    BY <1>3 DEF Next
  <2>2. CASE m_sendto(s)
    BY <1>1, <2>2, LooseSend
  <2>3. CASE m_recvfrom(s)
    BY <1>1, <2>3, LooseRecv
  <2>4. CASE SendProbe(s)
    BY <1>1, <2>4, LooseProbe
  <2>5. CASE \E q \in Passes(send_window[s]) : SendPass(s, q)
    BY <1>1, <2>5, LoosePass
  <2>6. CASE WindowUpdate(s)
    BY <1>1, <2>6, LooseUpdate
  <2>7. ASSUME NEW i \in Arrived(s), HandleDatagram(s, i) PROVE LooseInv'
    <3>1. CASE ReceiveInOrder(s, i)
      BY <1>1, <3>1, LooseInOrder
    <3>2. CASE ReceiveEarly(s, i)
      BY <1>1, <3>2, LooseEarly
    <3>3. CASE ReceiveOutside(s, i) \/ ReceiveProbe(s, i)
      BY <1>1, <3>3, LooseRepeat
    <3>4. CASE ReceiveAck(s, i)
      BY <1>1, <3>4, LooseAck
    <3>5. CASE DropMessage(s, i)
      BY <1>1, <3>5, LooseDrop
    <3> QED BY <2>7, <3>1, <3>2, <3>3, <3>4, <3>5 DEF HandleDatagram
  <2> QED BY <2>1, <2>2, <2>3, <2>4, <2>5, <2>6, <2>7 DEF thread_S, thread_R
<1> QED BY <1>2, <1>3

-----------------------------------------------------------------------------
(* What follows from it.                                                   *)

LEMMA OrderOf == LooseInv => InOrderDelivery
<1> SUFFICES ASSUME LooseInv, NEW s \in Socks
             PROVE  /\ Len(delivered[s]) <= accepted[Peer[s]]
                    /\ \A n \in DOMAIN delivered[s] : delivered[s][n] = n
  BY DEF InOrderDelivery
<1>1. /\ Len(delivered[s]) \in Nat /\ Came(s) \in Nat /\ accepted[Peer[s]] \in Nat
      /\ Len(delivered[s]) <= Came(s) /\ Came(s) <= accepted[Peer[s]]
      /\ DOMAIN delivered[s] = 1..Len(delivered[s])
  BY CameType, LenProperties
<1>2. Len(delivered[s]) <= accepted[Peer[s]]
  <2> DEFINE d == Len(delivered[s])
             c == Came(s)
             acc == accepted[Peer[s]]
  <2>1. d \in Nat /\ c \in Nat /\ acc \in Nat /\ d <= c /\ c <= acc
    BY <1>1
  <2> HIDE DEF d, c, acc
  <2>2. d <= acc
    BY <2>1, SMT
  <2> QED BY <2>2 DEF d, acc
<1> QED BY <1>1, <1>2 DEF LooseInv, Placed

LEMMA CameIsReceived ==
  ASSUME LooseInv, NEW s \in Socks
  PROVE  ReceivedInOrder(s) = Came(s)
<1> DEFINE d == Len(delivered[s])
           size == recv_window[s].window_size
<1>1. d \in Nat /\ size \in Nat
  BY CameType, RecvFields
<1> HIDE DEF d, size
<1>2. d + (RECEIVER_MSG_BUFFER - size) = d + RECEIVER_MSG_BUFFER - size
  BY <1>1, BufferFacts, SMT
<1> QED BY <1>2 DEF ReceivedInOrder, Unread, Came, InOrder, d, size

LEMMA ReleasedCame == LooseInv => NoLossAfterAck
<1> SUFFICES ASSUME LooseInv, NEW s \in Socks PROVE Acked(s) <= ReceivedInOrder(Peer[s])
  BY DEF NoLossAfterAck
<1>1. PICK n \in 0..SENDER_MSG_BUFFER, lo \in 0..accepted[s] :
        accepted[s] = lo + n /\ Holds(send_window[s], lo, n) /\ lo <= Came(Peer[s])
  BY DEF LooseInv, Tied
<1>2. send_window[s] \in SendWindow /\ accepted[s] \in Nat
  BY DEF LooseInv, TypeOK
<1>3. lo \in Nat
  BY <1>2, SMT
<1>4. Acked(s) = lo
  BY <1>1, <1>2, <1>3, AckedIs, ReleasedIs
<1>5. ReceivedInOrder(Peer[s]) = Came(Peer[s])
  BY PeerFacts, CameIsReceived
<1> QED BY <1>1, <1>4, <1>5

\* m_sendto and m_recvfrom are the channel's two operations.
LEMMA LooseChannel ==
  LooseInv /\ LooseInv' /\ [Next]_vars => [Channel!Next]_(Channel!chan)
<1> SUFFICES ASSUME LooseInv, LooseInv', [Next]_vars
             PROVE  Channel!Next \/ UNCHANGED <<accepted, delivered>>
  BY DEF Channel!chan
<1>0. Typed'
  BY DEF LooseInv, Typed
<1>1. CASE UNCHANGED vars
  BY <1>1 DEF vars
<1>2. CASE Next
  <2>1. PICK s \in Socks : m_sendto(s) \/ m_recvfrom(s) \/ thread_S(s) \/ thread_R(s)
    BY <1>2 DEF Next
  <2>2. CASE m_sendto(s)
    <3>1. accepted[s] - Len(delivered[Peer[s]]) < SENDER_MSG_BUFFER + RECEIVER_MSG_BUFFER
      BY <1>0, <2>2, LooseSend
    <3>2. accepted' = [accepted EXCEPT ![s] = @ + 1] /\ UNCHANGED delivered
      BY <2>2 DEF m_sendto
    <3> QED BY <3>1, <3>2 DEF Channel!Next, Channel!Send
  <2>3. CASE m_recvfrom(s)
    <3>1. /\ Len(delivered[s]) < accepted[Peer[s]]
          /\ delivered' = [delivered EXCEPT ![s] = Append(@, Len(@) + 1)]
      BY <1>0, <2>3, LooseRecv
    <3>2. UNCHANGED accepted
      BY <2>3 DEF m_recvfrom
    <3> QED BY <3>1, <3>2 DEF Channel!Next, Channel!Receive
  <2>4. CASE thread_S(s)
    BY <2>4 DEF thread_S, SendProbe, SendPass
  <2>5. CASE WindowUpdate(s)
    BY <2>5 DEF WindowUpdate
  <2>6. ASSUME NEW i, HandleDatagram(s, i) PROVE UNCHANGED <<accepted, delivered>>
    BY <2>6 DEF HandleDatagram, ReceiveInOrder, ReceiveEarly, ReceiveOutside, ReceiveAck, ReceiveProbe,
                DropMessage
  <2> QED BY <2>1, <2>2, <2>3, <2>4, <2>5, <2>6 DEF thread_R
<1> QED BY <1>1, <1>2

-----------------------------------------------------------------------------
(* The theorems, for every Overtake.                                       *)

\* The invariant that the others follow from: a datagram may be as late as it
\* likes, and names or carries what its number says, whenever R takes it.
THEOREM LooseCorrect ==
  ASSUME FewMessages
  PROVE  Spec => []LooseInv
BY LooseInit, LooseNext, PTL DEF Spec

\* Exactly once and in order, although datagrams overtake each other: thread
\* R puts early messages where m_recvfrom reads them when their turn comes.
THEOREM DeliveryAnyOrder ==
  ASSUME FewMessages
  PROVE  Spec => []InOrderDelivery
BY LooseCorrect, OrderOf, PTL

\* An ACK that was overtaken frees no slot whose message could still be lost.
THEOREM NoLossAnyOrder ==
  ASSUME FewMessages
  PROVE  Spec => []NoLossAfterAck
BY LooseCorrect, ReleasedCame, PTL

\* The connection implements the bounded FIFO channel of ReliableChannel on
\* a network that reorders: the safety part of ImplementsChannel.
THEOREM ChannelAnyOrder ==
  ASSUME FewMessages
  PROVE  Spec => Channel!Init /\ [][Channel!Next]_(Channel!chan)
BY LooseCorrect, ChannelInit, LooseChannel, PTL DEF Spec
=============================================================================
