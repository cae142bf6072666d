------------------------------- MODULE SimDNS -------------------------------
(***************************************************************************)
(* simDNS: a client that sends a query of some domains to a server, up to  *)
(* RETRIES times, and waits for the reply; a server that answers what it   *)
(* does not drop.  Both use raw packet sockets on the loopback interface:  *)
(*   - the sender of a packet reads it once itself, others read it twice;  *)
(*   - whatever else goes over the interface is read as well;              *)
(*   - the client reads its socket only while it waits, so that late       *)
(*     replies stay there for its next query;                              *)
(*   - a packet for a socket whose buffer is full is lost.                 *)
(***************************************************************************)
EXTENDS Naturals, Sequences

CONSTANTS
  Queries,        \* what is asked: sequences of the domains' names
  Address,        \* Address[name]: what gethostbyname finds, or NO_IP
  NO_IP,
  DROPPED,        \* what is shown for a query without a reply
  RETRIES,        \* times that a query is sent (4)
  IdSpace,        \* ids of queries (2^16)
  Capacity,       \* packets in the buffer of a socket
  MaxQueries,     \* bound: queries that a run of the client asks
  MaxNoise,       \* bound: packets of others
  EarlyRestart    \* the client may be started while the packets of an earlier
                  \* run are under way

Names == DOMAIN Address
Lookup(q) == [i \in 1..Len(q) |-> Address[q[i]]]

ASSUME QueryAssumption == /\ Queries \subseteq Seq(Names)
                          /\ \A q \in Queries : DROPPED # Lookup(q)
ASSUME BoundAssumption == /\ RETRIES \in Nat \ {0}
                          /\ IdSpace \in Nat \ {0}
                          /\ Capacity \in Nat \ {0}
                          /\ MaxQueries \in Nat
                          /\ MaxNoise \in Nat
                          /\ EarlyRestart \in BOOLEAN

VARIABLES
  client,   \* the client: where it is, its query, id and number of tries
  clientQ,  \* packets in the buffer of the client's socket
  serverQ,  \* packets in the buffer of the server's socket
  shown,    \* the last query that ended, and what was shown for it
  asked,    \* queries asked since the client was started
  noise     \* packets of others so far

vars == <<client, clientQ, serverQ, shown, asked, noise>>

-----------------------------------------------------------------------------
(* Packets.                                                                *)

\* good: the checksum is right, and the protocol and the addresses are those
\* of this service; bit: 0 for a query and 1 for a reply; body: the names, or
\* the addresses.
Packet(bit, id, body) == [good |-> TRUE, bit |-> bit, id |-> id, body |-> body]
FOREIGN == [good |-> FALSE, bit |-> 0, id |-> 0, body |-> <<>>]

Least(m, n) == IF m <= n THEN m ELSE n

\* n copies of a packet arrive at a socket, as far as there is room.
Push(q, packet, n) == [i \in 1..Least(Len(q) + n, Capacity) |-> IF i <= Len(q) THEN q[i] ELSE packet]

\* Where the client is: "prompt", "send" and "wait", or not running.
FRESH == [at |-> "prompt", query |-> <<>>, id |-> 0, j |-> 0]
Running == client.at # "off"

Init ==
  /\ client = FRESH
  /\ clientQ = <<>>
  /\ serverQ = <<>>
  /\ shown = {}
  /\ asked = 0
  /\ noise = 0

-----------------------------------------------------------------------------
(* The client.                                                             *)

\* The user enters a query; the input that is refused changes nothing.
Ask ==
  /\ client.at = "prompt"
  /\ asked < MaxQueries
  /\ \E q \in Queries : client' = [client EXCEPT !.at = "send", !.query = q, !.j = 0]
  /\ asked' = asked + 1
  /\ UNCHANGED <<clientQ, serverQ, shown, noise>>

SendQuery ==
  LET packet == Packet(0, client.id, client.query)
  IN  /\ client.at = "send"
      /\ clientQ' = Push(clientQ, packet, 1)
      /\ serverQ' = Push(serverQ, packet, 2)
      /\ client' = [client EXCEPT !.at = "wait"]
      /\ UNCHANGED <<shown, asked, noise>>

\* Mutants of NextId: every query has the same id; the id does not wrap.
SameId(id) == id
UnboundedId(id) == id + 1
NextId(id) == (id + 1) % IdSpace

EndQuery(result) ==
  /\ shown' = {[query |-> client.query, result |-> result]}
  /\ client' = [client EXCEPT !.at = "prompt", !.id = NextId(client.id), !.j = 0]

\* Mutant of Timeout: the tries are not counted.
TimeoutUncounted ==
  /\ client.at = "wait"
  /\ clientQ = <<>>
  /\ client' = [client EXCEPT !.at = "send"]
  /\ UNCHANGED <<clientQ, serverQ, shown, asked, noise>>
\* select() times out only when there is nothing to read.
Timeout ==
  /\ client.at = "wait"
  /\ clientQ = <<>>
  /\ IF client.j + 1 < RETRIES
       THEN client' = [client EXCEPT !.at = "send", !.j = client.j + 1] /\ UNCHANGED shown
       ELSE EndQuery(DROPPED)
  /\ UNCHANGED <<clientQ, serverQ, asked, noise>>

\* Mutant of IsReply: any reply will do, also to another query.
IsAnyReply(packet) == packet.good /\ packet.bit = 1
IsReply(packet) == packet.good /\ packet.bit = 1 /\ packet.id = client.id

Receive ==
  /\ client.at = "wait"
  /\ clientQ # <<>>
  /\ clientQ' = Tail(clientQ)
  /\ IF IsReply(Head(clientQ)) THEN EndQuery(Head(clientQ).body)
                               ELSE UNCHANGED <<client, shown>>
  /\ UNCHANGED <<serverQ, asked, noise>>

\* EXIT at the prompt, or the program is killed.
Exit ==
  /\ Running
  /\ client' = [FRESH EXCEPT !.at = "off"]
  /\ clientQ' = <<>>
  /\ shown' = {}
  /\ UNCHANGED <<serverQ, asked, noise>>

\* The ids of a new run begin with 0 again.
Start ==
  /\ ~Running
  /\ EarlyRestart \/ serverQ = <<>>
  /\ client' = FRESH
  /\ asked' = 0
  /\ UNCHANGED <<clientQ, serverQ, shown, noise>>

-----------------------------------------------------------------------------
(* The server, and what else there is on the interface.                    *)

IsQuery(packet) == packet.good /\ packet.bit = 0

\* drop_message() decides at random; and only queries are answered.  That
\* looking up the domains can take its time is the same as a packet that
\* stays in the buffer.
Skip ==
  /\ serverQ # <<>>
  /\ serverQ' = Tail(serverQ)
  /\ UNCHANGED <<client, clientQ, shown, asked, noise>>

create_reply(packet) == Packet(1, packet.id, Lookup(packet.body))

Reply ==
  LET reply == create_reply(Head(serverQ))
  IN  /\ serverQ # <<>>
      /\ IsQuery(Head(serverQ))
      /\ serverQ' = Push(Tail(serverQ), reply, 1)
      /\ clientQ' = IF Running THEN Push(clientQ, reply, 2) ELSE clientQ
      /\ UNCHANGED <<client, shown, asked, noise>>

\* A packet of other programs.
Foreign ==
  /\ noise < MaxNoise
  /\ noise' = noise + 1
  /\ serverQ' = Push(serverQ, FOREIGN, 2)
  /\ clientQ' = IF Running THEN Push(clientQ, FOREIGN, 2) ELSE clientQ
  /\ UNCHANGED <<client, shown, asked>>

ClientStep == SendQuery \/ Timeout \/ Receive

Next == Ask \/ ClientStep \/ Exit \/ Start \/ Skip \/ Reply \/ Foreign

Spec == Init /\ [][Next]_vars

\* The client goes on, and so does the server, whether it drops or answers.
FairSpec == Spec /\ WF_vars(ClientStep) /\ WF_vars(Skip \/ Reply)
-----------------------------------------------------------------------------
(* Properties.                                                             *)

Ids == 0..(IdSpace - 1)
Bodies == Queries \union {Lookup(q) : q \in Queries} \union {<<>>}
Packets == [good : BOOLEAN, bit : {0, 1}, id : Ids, body : Bodies]

\* Types, with the numbers in the range that they have in the code.
TypeOK ==
  /\ client \in [at : {"prompt", "send", "wait", "off"}, query : Queries \union {<<>>},
                 id : Ids, j : 0..(RETRIES - 1)]
  /\ clientQ \in Seq(Packets)
  /\ serverQ \in Seq(Packets)
  /\ Len(clientQ) <= Capacity /\ Len(serverQ) <= Capacity
  /\ shown \in SUBSET [query : Queries, result : Bodies \union {DROPPED}]
  /\ asked \in 0..MaxQueries
  /\ noise \in 0..MaxNoise

\* What is shown as the addresses of the domains of a query are their
\* addresses: whatever the client finds in its buffer - copies, its own
\* packets, those of others, replies to an earlier try or query - is told
\* apart by the message bit and the id.
AnswersAreRight == \A s \in shown : s.result \in {Lookup(s.query), DROPPED}

\* A query ends, answered or dropped after its tries, or the program is left.
QueryEnds == client.at \in {"send", "wait"} ~> client.at \in {"prompt", "off"}

\* The query of the user, for Resolver.
asking == IF client.at \in {"send", "wait"} THEN {client.query} ELSE {}

Res == INSTANCE Resolver WITH Answer <- Lookup, Dropped <- DROPPED

ImplementsResolver == Res!Spec
=============================================================================
