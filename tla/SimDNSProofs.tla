---------------------------- MODULE SimDNSProofs ----------------------------
(* Theorems about SimDNS, for every set of queries, every size of the      *)
(* sockets' buffers, every number of tries and any packets of others.      *)
EXTENDS SimDNS, TLAPS

-----------------------------------------------------------------------------
(* Sequences of packets.                                                   *)

LEMMA SeqGrows ==
  ASSUME NEW S, NEW T, S \subseteq T, NEW q \in Seq(S)
  PROVE  q \in Seq(T)
OBVIOUS

\* What a push leaves in a buffer is what was there or the packet.
LEMMA PushType ==
  ASSUME NEW S, NEW q \in Seq(S), NEW packet \in S, NEW n \in Nat,
         Len(q) <= Capacity
  PROVE  /\ Push(q, packet, n) \in Seq(S)
         /\ Len(Push(q, packet, n)) <= Capacity
<1>1. Capacity \in Nat \ {0} /\ Len(q) \in Nat
  BY BoundAssumption
<1> DEFINE m == Least(Len(q) + n, Capacity)
<1>2. m \in Nat /\ m <= Capacity
  BY <1>1, SMT DEF Least
<1> HIDE DEF m
<1>3. \A i \in 1..m : (IF i <= Len(q) THEN q[i] ELSE packet) \in S
  BY <1>1, <1>2, SMT
<1>4. Push(q, packet, n) = [i \in 1..m |-> IF i <= Len(q) THEN q[i] ELSE packet]
  BY DEF Push, m
<1>5. Push(q, packet, n) \in Seq(S)
  BY <1>2, <1>3, <1>4, SMT
<1>6. Len(Push(q, packet, n)) = m
  BY <1>2, <1>3, <1>4, SMT
<1> QED BY <1>2, <1>5, <1>6

LEMMA TailType ==
  ASSUME NEW S, NEW q \in Seq(S), q # <<>>
  PROVE  /\ Head(q) \in S
         /\ Tail(q) \in Seq(S)
         /\ Len(Tail(q)) = Len(q) - 1
BY SMT

-----------------------------------------------------------------------------
(* Types.                                                                  *)

\* What has the form of a query of this service is one: needed for the types,
\* as the server looks up what the packet holds.
Proper == {p \in Packets : (p.good /\ p.bit = 0) => p.body \in Queries}

Clients == [at : {"prompt", "send", "wait", "off"}, query : Queries \union {<<>>},
            id : Ids, j : 0..(RETRIES - 1)]
Results == [query : Queries, result : Bodies \union {DROPPED}]

TypeInv ==
  /\ client \in Clients
  /\ client.at \in {"send", "wait"} => client.query \in Queries
  /\ clientQ \in Seq(Proper)
  /\ serverQ \in Seq(Proper)
  /\ Len(clientQ) <= Capacity
  /\ Len(serverQ) <= Capacity
  /\ shown \in SUBSET Results
  /\ asked \in 0..MaxQueries
  /\ noise \in 0..MaxNoise

LEMMA TypeInvImpliesTypeOK == TypeInv => TypeOK
<1> SUFFICES ASSUME TypeInv PROVE TypeOK
  OBVIOUS
<1>1. Proper \subseteq Packets
  BY DEF Proper
<1>2. clientQ \in Seq(Packets) /\ serverQ \in Seq(Packets)
  BY <1>1, SeqGrows DEF TypeInv
<1> QED BY <1>2 DEF TypeInv, TypeOK, Clients, Results

LEMMA Numbers ==
  /\ 0 \in Ids
  /\ 0 \in 0..(RETRIES - 1)
  /\ \A id \in Ids : NextId(id) \in Ids
BY BoundAssumption, SMT DEF Ids, NextId

LEMMA FreshType == FRESH \in Clients /\ [FRESH EXCEPT !.at = "off"] \in Clients
BY Numbers DEF FRESH, Clients

LEMMA ForeignType == FOREIGN \in Proper
BY Numbers DEF FOREIGN, Proper, Packets, Bodies

LEMMA InitTypes == Init => TypeInv
<1> SUFFICES ASSUME Init PROVE TypeInv
  OBVIOUS
<1>1. client \in Clients /\ client.at = "prompt"
  BY FreshType DEF Init, FRESH
<1>2. <<>> \in Seq(Proper) /\ Len(<<>>) = 0
  OBVIOUS
<1> QED BY <1>1, <1>2, BoundAssumption, SMT DEF Init, TypeInv

\* The end of a query changes the client and what is shown.
LEMMA EndQueryTypes ==
  ASSUME TypeInv, client.at = "wait", NEW result \in Bodies \union {DROPPED}, EndQuery(result)
  PROVE  /\ client' \in Clients
         /\ client'.at = "prompt"
         /\ client'.id = NextId(client.id)
         /\ shown' \in SUBSET Results
         /\ shown' = {[query |-> client.query, result |-> result]}
<1>1. client \in Clients /\ client.query \in Queries
  BY DEF TypeInv
<1>2. client.id \in Ids /\ NextId(client.id) \in Ids /\ 0 \in 0..(RETRIES - 1)
  BY <1>1, Numbers DEF Clients
<1>3. client' = [client EXCEPT !.at = "prompt", !.id = NextId(client.id), !.j = 0]
  BY DEF EndQuery
<1>4. client' \in Clients /\ client'.at = "prompt" /\ client'.id = NextId(client.id)
  BY <1>1, <1>2, <1>3 DEF Clients
<1>5. [query |-> client.query, result |-> result] \in Results
  BY <1>1 DEF Results
<1> QED BY <1>4, <1>5 DEF EndQuery

LEMMA NextTypes == TypeInv /\ [Next]_vars => TypeInv'
<1> SUFFICES ASSUME TypeInv, [Next]_vars PROVE TypeInv'
  OBVIOUS
<1>0. /\ client \in Clients
      /\ client.at \in {"send", "wait"} => client.query \in Queries
      /\ clientQ \in Seq(Proper) /\ Len(clientQ) <= Capacity
      /\ serverQ \in Seq(Proper) /\ Len(serverQ) <= Capacity
      /\ shown \in SUBSET Results
      /\ asked \in 0..MaxQueries
      /\ noise \in 0..MaxNoise
  BY DEF TypeInv
<1>b. MaxQueries \in Nat /\ MaxNoise \in Nat /\ RETRIES \in Nat \ {0}
  BY BoundAssumption
<1>1. CASE Ask
  <2>1. PICK q \in Queries : client' = [client EXCEPT !.at = "send", !.query = q, !.j = 0]
    BY <1>1 DEF Ask
  <2>2. client' \in Clients /\ client'.query \in Queries
    BY <1>0, <2>1, Numbers DEF Clients
  <2>3. asked' \in 0..MaxQueries
    BY <1>0, <1>1, <1>b, SMT DEF Ask
  <2> QED BY <1>0, <1>1, <2>2, <2>3 DEF TypeInv, Ask
<1>2. CASE SendQuery
  <2> DEFINE packet == Packet(0, client.id, client.query)
  <2>1. packet \in Proper
    BY <1>0, <1>2 DEF SendQuery, Packet, Proper, Packets, Bodies, Clients
  <2>2. client' \in Clients /\ client'.query = client.query
    BY <1>0, <1>2 DEF SendQuery, Clients
  <2>3. /\ clientQ' = Push(clientQ, packet, 1)
        /\ serverQ' = Push(serverQ, packet, 2)
        /\ UNCHANGED <<shown, asked, noise>>
        /\ client.at = "send"
    BY <1>2 DEF SendQuery
  <2> HIDE DEF packet
  <2>4. /\ clientQ' \in Seq(Proper) /\ Len(clientQ') <= Capacity
        /\ serverQ' \in Seq(Proper) /\ Len(serverQ') <= Capacity
    BY <1>0, <2>1, <2>3, PushType
  <2> QED BY <1>0, <2>2, <2>3, <2>4 DEF TypeInv
<1>3. CASE Timeout
  <2>1. UNCHANGED <<clientQ, serverQ, asked, noise>> /\ client.at = "wait"
    BY <1>3 DEF Timeout
  <2>2. CASE client.j + 1 < RETRIES
    <3>1. client' = [client EXCEPT !.at = "send", !.j = client.j + 1] /\ UNCHANGED shown
      BY <1>3, <2>2 DEF Timeout
    <3>2. client.j + 1 \in 0..(RETRIES - 1)
      <4>1. client.j \in 0..(RETRIES - 1)
        BY <1>0 DEF Clients
      <4> QED BY <4>1, <2>2, <1>b, SMT
    <3>3. client' \in Clients /\ client'.query = client.query
      BY <1>0, <3>1, <3>2 DEF Clients
    <3> QED BY <1>0, <2>1, <3>1, <3>3 DEF TypeInv
  <2>3. CASE ~(client.j + 1 < RETRIES)
    <3>1. EndQuery(DROPPED)
      BY <1>3, <2>3 DEF Timeout
    <3>2. client' \in Clients /\ client'.at = "prompt" /\ shown' \in SUBSET Results
      BY <3>1, <2>1, EndQueryTypes
    <3> QED BY <1>0, <2>1, <3>2 DEF TypeInv
  <2> QED BY <2>2, <2>3
<1>4. CASE Receive
  <2>1. /\ UNCHANGED <<serverQ, asked, noise>>
        /\ client.at = "wait"
        /\ clientQ # <<>>
        /\ clientQ' = Tail(clientQ)
    BY <1>4 DEF Receive
  <2>2. /\ Head(clientQ) \in Proper
        /\ clientQ' \in Seq(Proper)
        /\ Len(clientQ') <= Capacity
    <3>1. Len(Tail(clientQ)) = Len(clientQ) - 1 /\ Head(clientQ) \in Proper /\ Tail(clientQ) \in Seq(Proper)
      BY <1>0, <2>1, TailType
    <3> QED BY <1>0, <2>1, <3>1, BoundAssumption, SMT
  <2>3. CASE IsReply(Head(clientQ))
    <3>1. EndQuery(Head(clientQ).body)
      BY <1>4, <2>3 DEF Receive
    <3>2. Head(clientQ).body \in Bodies \union {DROPPED}
      BY <2>2 DEF Proper, Packets
    <3>3. client' \in Clients /\ client'.at = "prompt" /\ shown' \in SUBSET Results
      BY <3>1, <3>2, <2>1, EndQueryTypes
    <3> QED BY <1>0, <2>1, <2>2, <3>3 DEF TypeInv
  <2>4. CASE ~IsReply(Head(clientQ))
    <3>1. UNCHANGED <<client, shown>>
      BY <1>4, <2>4 DEF Receive
    <3> QED BY <1>0, <2>1, <2>2, <3>1 DEF TypeInv
  <2> QED BY <2>3, <2>4
<1>5. CASE Exit
  <2>1. client' \in Clients /\ client'.at = "off"
    BY <1>5, FreshType DEF Exit, FRESH
  <2>2. clientQ' \in Seq(Proper) /\ Len(clientQ') <= Capacity
    BY <1>5, BoundAssumption, SMT DEF Exit
  <2> QED BY <1>0, <1>5, <2>1, <2>2 DEF TypeInv, Exit
<1>6. CASE Start
  <2>1. client' \in Clients /\ client'.at = "prompt"
    BY <1>6, FreshType DEF Start, FRESH
  <2>2. asked' \in 0..MaxQueries
    BY <1>6, <1>b, SMT DEF Start
  <2> QED BY <1>0, <1>6, <2>1, <2>2 DEF TypeInv, Start
<1>7. CASE Skip
  <2>1. serverQ' \in Seq(Proper) /\ Len(serverQ') = Len(serverQ) - 1 /\ Len(serverQ) \in Nat
    BY <1>0, <1>7, TailType DEF Skip
  <2>2. Len(serverQ') <= Capacity
    BY <1>0, <2>1, BoundAssumption, SMT
  <2> QED BY <1>0, <1>7, <2>1, <2>2 DEF TypeInv, Skip
<1>8. CASE Reply
  <2> DEFINE reply == create_reply(Head(serverQ))
  <2>1. /\ serverQ # <<>>
        /\ IsQuery(Head(serverQ))
        /\ serverQ' = Push(Tail(serverQ), reply, 1)
        /\ clientQ' = IF Running THEN Push(clientQ, reply, 2) ELSE clientQ
        /\ UNCHANGED <<client, shown, asked, noise>>
    BY <1>8 DEF Reply
  <2>2. Head(serverQ) \in Proper /\ Tail(serverQ) \in Seq(Proper) /\ Len(Tail(serverQ)) = Len(serverQ) - 1
    BY <1>0, <2>1, TailType
  <2>3. reply \in Proper
    BY <2>1, <2>2 DEF IsQuery, create_reply, Packet, Proper, Packets, Bodies
  <2> HIDE DEF reply
  <2>4. Len(Tail(serverQ)) <= Capacity
    BY <1>0, <2>2, BoundAssumption, SMT
  <2>5. serverQ' \in Seq(Proper) /\ Len(serverQ') <= Capacity
    BY <2>1, <2>2, <2>3, <2>4, PushType
  <2>6. clientQ' \in Seq(Proper) /\ Len(clientQ') <= Capacity
    BY <1>0, <2>1, <2>3, PushType
  <2> QED BY <1>0, <2>1, <2>5, <2>6 DEF TypeInv
<1>9. CASE Foreign
  <2>1. /\ serverQ' = Push(serverQ, FOREIGN, 2)
        /\ clientQ' = IF Running THEN Push(clientQ, FOREIGN, 2) ELSE clientQ
        /\ UNCHANGED <<client, shown, asked>>
    BY <1>9 DEF Foreign
  <2>2. /\ serverQ' \in Seq(Proper) /\ Len(serverQ') <= Capacity
        /\ clientQ' \in Seq(Proper) /\ Len(clientQ') <= Capacity
    BY <1>0, <2>1, ForeignType, PushType
  <2>3. noise' \in 0..MaxNoise
    BY <1>0, <1>9, <1>b, SMT DEF Foreign
  <2> QED BY <1>0, <2>1, <2>2, <2>3 DEF TypeInv
<1>10. CASE UNCHANGED vars
  BY <1>0, <1>10 DEF TypeInv, vars
<1> QED BY <1>1, <1>2, <1>3, <1>4, <1>5, <1>6, <1>7, <1>8, <1>9, <1>10 DEF Next, ClientStep

LEMMA TypesHold == Spec => []TypeInv
<1>1. Init => TypeInv
  BY InitTypes
<1>2. TypeInv /\ [Next]_vars => TypeInv'
  BY NextTypes
<1> QED BY <1>1, <1>2, PTL DEF Spec

\* The client's numbers stay in the ranges they have in the code, whatever
\* it reads from its socket, and no more than what fits is in a buffer.
THEOREM TypeCorrect == Spec => []TypeOK
<1>1. TypeInv => TypeOK
  BY TypeInvImpliesTypeOK
<1> QED BY <1>1, TypesHold, PTL

-----------------------------------------------------------------------------
(* Answers.  As long as the ids of a run of the client are all different,  *)
(* and the packets of earlier runs are gone when it starts, a packet with  *)
(* the id of the current query is that query or the reply to it.           *)

IdsLast == MaxQueries <= IdSpace /\ ~EarlyRestart

Asking(c) == c.at \in {"send", "wait"}

\* The packets that may be under way after n queries, for a client c.
Fitting(n, c) ==
  {p \in Proper :
     p.good => /\ p.id < n
               /\ (Asking(c) /\ p.id = c.id)
                    => p.body = IF p.bit = 0 THEN c.query ELSE Lookup(c.query)}

AnswerInv ==
  /\ clientQ \in Seq(Fitting(asked, client))
  /\ serverQ \in Seq(Fitting(asked, client))
  /\ Asking(client) => asked > 0 /\ client.id = asked - 1
  /\ client.at = "prompt" /\ asked < IdSpace => client.id = asked
  /\ client.at = "off" => clientQ = <<>>
  /\ AnswersAreRight

\* Packets stay fitting while the client is at the same query or at none.
LEMMA FittingStays ==
  ASSUME NEW n \in Nat, NEW c, NEW d, NEW q \in Seq(Fitting(n, c)),
         ~Asking(d) \/ (Asking(c) /\ d.id = c.id /\ d.query = c.query)
  PROVE  q \in Seq(Fitting(n, d))
<1>1. Fitting(n, c) \subseteq Fitting(n, d)
  BY DEF Fitting
<1> QED BY <1>1, SeqGrows

\* The next id is one that no packet has yet.
LEMMA FittingNext ==
  ASSUME NEW n \in Nat, NEW c, NEW d, NEW q \in Seq(Fitting(n, c)), d.id = n
  PROVE  q \in Seq(Fitting(n + 1, d))
<1>1. \A p \in Proper : p.id \in Nat
  BY BoundAssumption, SMT DEF Proper, Packets, Ids
<1>2. Fitting(n, c) \subseteq Fitting(n + 1, d)
  BY <1>1, SMT DEF Fitting
<1> QED BY <1>2, SeqGrows

LEMMA ForeignFits == \A n, c : FOREIGN \in Fitting(n, c)
BY ForeignType DEF Fitting, FOREIGN

LEMMA InitAnswers == Init => AnswerInv
<1> SUFFICES ASSUME Init PROVE AnswerInv
  OBVIOUS
<1>1. client.at = "prompt" /\ client.id = 0 /\ asked = 0
  BY DEF Init, FRESH
<1>2. clientQ \in Seq(Fitting(asked, client)) /\ serverQ \in Seq(Fitting(asked, client))
  BY SMT DEF Init
<1> QED BY <1>1, <1>2 DEF Init, AnswerInv, Asking, AnswersAreRight

\* When a query ends with a result that is right, what is shown is right, and
\* the id is that of the next query.
LEMMA EndQueryAnswers ==
  ASSUME IdsLast, TypeInv, AnswerInv, client.at = "wait",
         NEW result \in {Lookup(client.query), DROPPED}, EndQuery(result),
         asked' = asked, serverQ' = serverQ, clientQ' \in Seq(Fitting(asked, client))
  PROVE  AnswerInv'
<1>1. client \in Clients /\ result \in Bodies \union {DROPPED} /\ asked \in 0..MaxQueries
  BY DEF TypeInv, Bodies
<1>2. /\ client'.at = "prompt"
      /\ client'.id = NextId(client.id)
      /\ shown' = {[query |-> client.query, result |-> result]}
  BY <1>1, EndQueryTypes
<1>3. client.id = asked - 1 /\ asked \in Nat
  BY <1>1, BoundAssumption, SMT DEF AnswerInv, Asking
<1>4. asked < IdSpace => client'.id = asked
  BY <1>2, <1>3, BoundAssumption, SMT DEF NextId
<1>5. ~Asking(client')
  BY <1>2 DEF Asking
<1>6. clientQ' \in Seq(Fitting(asked, client')) /\ serverQ' \in Seq(Fitting(asked, client'))
  BY <1>3, <1>5, FittingStays DEF AnswerInv
<1>7. AnswersAreRight'
  BY <1>2 DEF AnswersAreRight
<1> QED BY <1>2, <1>4, <1>5, <1>6, <1>7 DEF AnswerInv

LEMMA NextAnswers == IdsLast /\ TypeInv /\ AnswerInv /\ [Next]_vars => AnswerInv'
<1> SUFFICES ASSUME IdsLast, TypeInv, AnswerInv, [Next]_vars PROVE AnswerInv'
  OBVIOUS
<1>0. /\ clientQ \in Seq(Fitting(asked, client))
      /\ serverQ \in Seq(Fitting(asked, client))
      /\ Asking(client) => asked > 0 /\ client.id = asked - 1
      /\ client.at = "prompt" /\ asked < IdSpace => client.id = asked
      /\ client.at = "off" => clientQ = <<>>
      /\ AnswersAreRight
  BY DEF AnswerInv
<1>b. asked \in Nat /\ asked <= MaxQueries /\ MaxQueries <= IdSpace /\ IdSpace \in Nat /\ MaxQueries \in Nat
  BY BoundAssumption, SMT DEF TypeInv, IdsLast
<1>l. /\ Len(clientQ) <= Capacity
      /\ Len(serverQ) <= Capacity
      /\ client \in Clients
      /\ Asking(client) => client.query \in Queries
  BY DEF TypeInv, Asking
<1>1. CASE Ask
  <2>1. /\ client.at = "prompt"
        /\ asked < MaxQueries
        /\ asked' = asked + 1
        /\ UNCHANGED <<clientQ, serverQ, shown>>
    BY <1>1 DEF Ask
  <2>2. client.id = asked
    BY <1>0, <1>b, <2>1, SMT
  <2>3. client'.at = "send" /\ client'.id = client.id
    <3>1. PICK q \in Queries : client' = [client EXCEPT !.at = "send", !.query = q, !.j = 0]
      BY <1>1 DEF Ask
    <3> QED BY <3>1, <1>l DEF Clients
  <2>4. clientQ' \in Seq(Fitting(asked', client')) /\ serverQ' \in Seq(Fitting(asked', client'))
    <3>1. client'.id = asked
      BY <2>2, <2>3
    <3>2. clientQ \in Seq(Fitting(asked + 1, client')) /\ serverQ \in Seq(Fitting(asked + 1, client'))
      BY <1>0, <1>b, <3>1, FittingNext
    <3> QED BY <3>2, <2>1
  <2>5. asked' > 0 /\ client'.id = asked' - 1
    BY <1>b, <2>1, <2>2, <2>3, SMT
  <2> QED BY <1>0, <2>1, <2>3, <2>4, <2>5 DEF AnswerInv, AnswersAreRight
<1>2. CASE SendQuery
  <2> DEFINE packet == Packet(0, client.id, client.query)
  <2>1. /\ client.at = "send"
        /\ clientQ' = Push(clientQ, packet, 1)
        /\ serverQ' = Push(serverQ, packet, 2)
        /\ client' = [client EXCEPT !.at = "wait"]
        /\ UNCHANGED <<shown, asked, noise>>
    BY <1>2 DEF SendQuery
  <2>2. client'.at = "wait" /\ client'.id = client.id /\ client'.query = client.query
    BY <1>l, <2>1 DEF Clients
  <2>3. Asking(client) /\ Asking(client')
    BY <2>1, <2>2 DEF Asking
  <2>4. packet \in Fitting(asked, client)
    <3>1. packet \in Proper
      BY <1>l, <2>3 DEF Packet, Proper, Packets, Bodies, Clients
    <3>2. packet.id < asked
      BY <1>0, <1>b, <2>3, SMT DEF Packet
    <3> QED BY <3>1, <3>2 DEF Fitting, Packet
  <2> HIDE DEF packet
  <2>5. clientQ' \in Seq(Fitting(asked, client)) /\ serverQ' \in Seq(Fitting(asked, client))
    BY <1>0, <1>l, <2>1, <2>4, PushType
  <2>6. clientQ' \in Seq(Fitting(asked, client')) /\ serverQ' \in Seq(Fitting(asked, client'))
    BY <1>b, <2>2, <2>3, <2>5, FittingStays
  <2> QED BY <1>0, <2>1, <2>2, <2>3, <2>6 DEF AnswerInv, AnswersAreRight
<1>3. CASE Timeout
  <2>1. UNCHANGED <<clientQ, serverQ, asked, noise>> /\ client.at = "wait" /\ Asking(client)
    BY <1>3 DEF Timeout, Asking
  <2>2. CASE client.j + 1 < RETRIES
    <3>1. client' = [client EXCEPT !.at = "send", !.j = client.j + 1] /\ UNCHANGED shown
      BY <1>3, <2>2 DEF Timeout
    <3>2. client'.at = "send" /\ client'.id = client.id /\ client'.query = client.query
      BY <1>l, <3>1 DEF Clients
    <3>3. clientQ' \in Seq(Fitting(asked, client')) /\ serverQ' \in Seq(Fitting(asked, client'))
      BY <1>0, <1>b, <2>1, <3>2, FittingStays
    <3> QED BY <1>0, <2>1, <3>1, <3>2, <3>3 DEF AnswerInv, AnswersAreRight, Asking
  <2>3. CASE ~(client.j + 1 < RETRIES)
    <3>1. EndQuery(DROPPED)
      BY <1>3, <2>3 DEF Timeout
    <3>2. clientQ' \in Seq(Fitting(asked, client))
      BY <1>0, <2>1
    <3> QED BY <2>1, <3>1, <3>2, EndQueryAnswers
  <2> QED BY <2>2, <2>3
<1>4. CASE Receive
  <2>1. /\ UNCHANGED <<serverQ, asked, noise>>
        /\ client.at = "wait"
        /\ clientQ # <<>>
        /\ clientQ' = Tail(clientQ)
    BY <1>4 DEF Receive
  <2>2. Head(clientQ) \in Fitting(asked, client) /\ clientQ' \in Seq(Fitting(asked, client))
    BY <1>0, <2>1, TailType
  <2>3. CASE IsReply(Head(clientQ))
    <3>1. EndQuery(Head(clientQ).body)
      BY <1>4, <2>3 DEF Receive
    <3>2. Head(clientQ).body = Lookup(client.query)
      BY <2>1, <2>2, <2>3 DEF Fitting, Asking, IsReply
    <3> QED BY <2>1, <2>2, <3>1, <3>2, EndQueryAnswers
  <2>4. CASE ~IsReply(Head(clientQ))
    <3>1. UNCHANGED <<client, shown>>
      BY <1>4, <2>4 DEF Receive
    <3> QED BY <1>0, <2>1, <2>2, <3>1 DEF AnswerInv, AnswersAreRight
  <2> QED BY <2>3, <2>4
<1>5. CASE Exit
  <2>1. /\ client'.at = "off" /\ ~Asking(client')
        /\ clientQ' = <<>>
        /\ shown' = {}
        /\ UNCHANGED <<serverQ, asked>>
    BY <1>5 DEF Exit, FRESH, Asking
  <2>2. clientQ' \in Seq(Fitting(asked, client'))
    BY <2>1, SMT
  <2>3. serverQ' \in Seq(Fitting(asked, client'))
    BY <1>0, <1>b, <2>1, FittingStays
  <2> QED BY <2>1, <2>2, <2>3 DEF AnswerInv, AnswersAreRight
<1>6. CASE Start
  <2>1. /\ client.at = "off"
        /\ serverQ = <<>>
        /\ client'.at = "prompt" /\ client'.id = 0 /\ ~Asking(client')
        /\ asked' = 0
        /\ UNCHANGED <<clientQ, serverQ, shown>>
    BY <1>6 DEF Start, Running, FRESH, Asking, IdsLast
  <2>2. clientQ' \in Seq(Fitting(asked', client')) /\ serverQ' \in Seq(Fitting(asked', client'))
    BY <1>0, <2>1, SMT
  <2> QED BY <1>0, <2>1, <2>2 DEF AnswerInv, AnswersAreRight
<1>7. CASE Skip
  <2>1. serverQ # <<>> /\ serverQ' = Tail(serverQ) /\ UNCHANGED <<client, clientQ, shown, asked>>
    BY <1>7 DEF Skip
  <2>2. serverQ' \in Seq(Fitting(asked, client))
    BY <1>0, <2>1, TailType
  <2> QED BY <1>0, <2>1, <2>2 DEF AnswerInv, AnswersAreRight
<1>8. CASE Reply
  <2> DEFINE reply == create_reply(Head(serverQ))
  <2>1. /\ serverQ # <<>>
        /\ IsQuery(Head(serverQ))
        /\ serverQ' = Push(Tail(serverQ), reply, 1)
        /\ clientQ' = IF Running THEN Push(clientQ, reply, 2) ELSE clientQ
        /\ UNCHANGED <<client, shown, asked, noise>>
    BY <1>8 DEF Reply
  <2>2. /\ Head(serverQ) \in Fitting(asked, client)
        /\ Tail(serverQ) \in Seq(Fitting(asked, client))
        /\ Len(Tail(serverQ)) = Len(serverQ) - 1
    BY <1>0, <2>1, TailType
  <2>3. reply \in Fitting(asked, client)
    <3>1. reply \in Proper
      BY <2>1, <2>2 DEF IsQuery, create_reply, Packet, Fitting, Proper, Packets, Bodies
    <3> QED BY <2>1, <2>2, <3>1 DEF IsQuery, create_reply, Packet, Fitting
  <2> HIDE DEF reply
  <2>4. Len(Tail(serverQ)) <= Capacity
    BY <1>0, <1>l, <2>2, BoundAssumption, SMT
  <2>5. serverQ' \in Seq(Fitting(asked, client))
    BY <2>1, <2>2, <2>3, <2>4, PushType
  <2>6. clientQ' \in Seq(Fitting(asked, client))
    BY <1>0, <1>l, <2>1, <2>3, PushType
  <2>7. client.at = "off" => clientQ' = clientQ
    BY <2>1 DEF Running
  <2> QED BY <1>0, <2>1, <2>5, <2>6, <2>7 DEF AnswerInv, AnswersAreRight
<1>9. CASE Foreign
  <2>1. /\ serverQ' = Push(serverQ, FOREIGN, 2)
        /\ clientQ' = IF Running THEN Push(clientQ, FOREIGN, 2) ELSE clientQ
        /\ UNCHANGED <<client, shown, asked>>
    BY <1>9 DEF Foreign
  <2>2. serverQ' \in Seq(Fitting(asked, client)) /\ clientQ' \in Seq(Fitting(asked, client))
    BY <1>0, <1>l, <2>1, ForeignFits, PushType
  <2>3. client.at = "off" => clientQ' = clientQ
    BY <2>1 DEF Running
  <2> QED BY <1>0, <2>1, <2>2, <2>3 DEF AnswerInv, AnswersAreRight
<1>10. CASE UNCHANGED vars
  BY <1>0, <1>10 DEF AnswerInv, AnswersAreRight, vars
<1> QED BY <1>1, <1>2, <1>3, <1>4, <1>5, <1>6, <1>7, <1>8, <1>9, <1>10 DEF Next, ClientStep

\* What is shown as the addresses of the domains of a query are their
\* addresses, whatever copies, late replies and packets of others the client
\* reads, if no id is used twice in a run of the client and a run starts when
\* the packets of earlier runs are gone.
THEOREM AnswersStayRight == IdsLast => (Spec => []AnswersAreRight)
<1> SUFFICES ASSUME IdsLast PROVE Spec => []AnswersAreRight
  OBVIOUS
<1>1. Init => AnswerInv
  BY InitAnswers
<1>2. TypeInv /\ AnswerInv /\ [Next]_vars => AnswerInv'
  BY NextAnswers
<1>3. AnswerInv => AnswersAreRight
  BY DEF AnswerInv
<1> QED BY <1>1, <1>2, <1>3, TypesHold, PTL DEF Spec

-----------------------------------------------------------------------------
(* simDNS as its user sees it.                                             *)

LEMMA InitResolver == Init => Res!Init
BY DEF Init, Res!Init, asking, FRESH

\* The end of a query with a result that is right is the end that is promised.
LEMMA EndQueryResolves ==
  ASSUME TypeInv, client.at = "wait", NEW result \in {Lookup(client.query), DROPPED}, EndQuery(result)
  PROVE  Res!Next
<1>1. asking = {client.query}
  BY DEF asking
<1>2. /\ shown' = {[query |-> client.query, result |-> result]}
      /\ client'.at = "prompt"
  <2>1. result \in Bodies \union {DROPPED}
    BY DEF TypeInv, Bodies
  <2> QED BY <2>1, EndQueryTypes
<1>3. asking' = {}
  BY <1>2 DEF asking
<1> QED BY <1>1, <1>2, <1>3 DEF Res!Next, Res!End

LEMMA StepResolves == IdsLast /\ TypeInv /\ AnswerInv /\ [Next]_vars => [Res!Next]_(Res!vars)
<1> SUFFICES ASSUME IdsLast, TypeInv, AnswerInv, [Next]_vars PROVE Res!Next \/ UNCHANGED <<asking, shown>>
  BY DEF Res!vars
<1>0. client \in Clients
  BY DEF TypeInv
<1>1. CASE Ask
  <2>1. PICK q \in Queries : client' = [client EXCEPT !.at = "send", !.query = q, !.j = 0]
    BY <1>1 DEF Ask
  <2>2. client'.at = "send" /\ client'.query = q
    BY <1>0, <2>1 DEF Clients
  <2>3. asking = {} /\ asking' = {q} /\ UNCHANGED shown
    BY <1>1, <2>2 DEF Ask, asking
  <2> QED BY <2>3 DEF Res!Next, Res!Ask
<1>2. CASE SendQuery
  <2>1. client.at = "send" /\ client'.at = "wait" /\ client'.query = client.query /\ UNCHANGED shown
    BY <1>0, <1>2 DEF SendQuery, Clients
  <2> QED BY <2>1 DEF asking
<1>3. CASE Timeout
  <2>1. client.at = "wait"
    BY <1>3 DEF Timeout
  <2>2. CASE client.j + 1 < RETRIES
    <3>1. client' = [client EXCEPT !.at = "send", !.j = client.j + 1] /\ UNCHANGED shown
      BY <1>3, <2>2 DEF Timeout
    <3>2. client'.at = "send" /\ client'.query = client.query
      BY <1>0, <3>1 DEF Clients
    <3> QED BY <2>1, <3>1, <3>2 DEF asking
  <2>3. CASE ~(client.j + 1 < RETRIES)
    <3>1. EndQuery(DROPPED)
      BY <1>3, <2>3 DEF Timeout
    <3> QED BY <2>1, <3>1, EndQueryResolves
  <2> QED BY <2>2, <2>3
<1>4. CASE Receive
  <2>1. client.at = "wait" /\ clientQ # <<>> /\ clientQ \in Seq(Fitting(asked, client))
    BY <1>4 DEF Receive, AnswerInv
  <2>2. Head(clientQ) \in Fitting(asked, client)
    BY <2>1, TailType
  <2>3. CASE IsReply(Head(clientQ))
    <3>1. EndQuery(Head(clientQ).body)
      BY <1>4, <2>3 DEF Receive
    <3>2. Head(clientQ).body = Lookup(client.query)
      BY <2>1, <2>2, <2>3 DEF Fitting, Asking, IsReply
    <3> QED BY <2>1, <3>1, <3>2, EndQueryResolves
  <2>4. CASE ~IsReply(Head(clientQ))
    BY <1>4, <2>4 DEF Receive, asking
  <2> QED BY <2>3, <2>4
<1>5. CASE Exit
  <2>1. asking' = {} /\ shown' = {}
    BY <1>5 DEF Exit, FRESH, asking
  <2> QED BY <2>1 DEF Res!Next, Res!Restart
<1>6. CASE Start
  BY <1>6 DEF Start, Running, FRESH, asking
<1>7. CASE Skip \/ Reply \/ Foreign \/ UNCHANGED vars
  BY <1>7 DEF Skip, Reply, Foreign, vars, asking
<1> QED BY <1>1, <1>2, <1>3, <1>4, <1>5, <1>6, <1>7 DEF Next, ClientStep

\* Under the same assumption, simDNS does what Resolver promises, but for the
\* promise that a query ends.
THEOREM ResolvesSafely == IdsLast => (Spec => Res!Init /\ [][Res!Next]_(Res!vars))
<1> SUFFICES ASSUME IdsLast PROVE Spec => Res!Init /\ [][Res!Next]_(Res!vars)
  OBVIOUS
<1>1. Init => AnswerInv /\ Res!Init
  BY InitAnswers, InitResolver
<1>2. TypeInv /\ AnswerInv /\ [Next]_vars => AnswerInv'
  BY NextAnswers
<1>3. TypeInv /\ AnswerInv /\ [Next]_vars => [Res!Next]_(Res!vars)
  BY StepResolves
<1> QED BY <1>1, <1>2, <1>3, TypesHold, PTL DEF Spec
=============================================================================
