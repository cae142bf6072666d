# Verification of the Computer Networks assignments

This directory holds TLA+ specifications of the programs in the repository,
the TLC configurations that check them on small instances, and theorems about
them with proofs that TLAPS checks. The centre is MTP (`Assignment 5`), a
reliable, message-oriented transport built on UDP, by far the largest part of
the repository. Beside it stand the mail system (`Assignment 3`) and simDNS
(`Assignment 6`).

## 1. The system

### MTP (`src/Assignment 5`)

| part | code | state it keeps | operations |
|---|---|---|---|
| library | `msocket.c` | none of its own; attaches to the shared table `SM`, to `sock_info` and to three semaphores on every call | `m_socket`, `m_bind`, `m_sendto`, `m_recvfrom`, `m_close` |
| socket table | `msocket.h` | `SM[25]`: allotted flag, process, UDP socket, peer address, send window (10 slots), receive window (5 slots); guarded by `SM_mutex` | - |
| server loop | `initmsocket.c`, `main` | `sock_info` (one request at a time), `Sem1`, `Sem2` | creates, binds and closes UDP sockets for the library |
| thread R | `thread_R` | the set of UDP sockets to watch, a select timeout, `nospace` flags | stores DATA, answers with ACKs, processes ACKs and probes, sends window updates |
| thread S | `thread_S` | `persistence_timer[25]` (shared with R), send times | sends, resends after `T`, probes a closed window with exponential backoff |
| thread G | `thread_G` | - | frees the slots of processes that have died |
| example programs | `user1.c`, `user2.c`, two scripts | a file | send a file in blocks, poll for them, compare |

The programs and the daemon interact through shared memory only; the daemons of
two hosts through UDP. What is hard: any datagram may be lost (`dropMessage`
loses 10 percent on purpose), ACKs carry window sizes that go stale, the
program widens the receive window without the sender being told, the window can
close for good, there are only 15 sequence numbers, and the handshake through
`sock_info` is used by several processes. What makes it correct: every message
is delivered exactly once and in order; a message is let go of only when the
peer has it; the window never exceeds the room that is left; the two rings
are never corrupted; everything sent arrives in the end; a socket belongs to one
process; a new socket inherits nothing from the previous user of its slot.

### The other assignments

| part | code | state | operations | what is hard and what makes it correct |
|---|---|---|---|---|
| SMTP server | `Assignment 3/smtpmail.c` | one process per session; the mailbox files | HELO, MAIL, RCPT, DATA, QUIT | commands in the right order; a mail that was accepted is in the mailbox, whole, and not mixed with another |
| POP3 server | `Assignment 3/popserver.c` | one process per session; the inbox as read at login | USER, PASS, STAT, LIST, RETR, DELE, RSET, QUIT | QUIT rewrites the file from the cached inbox while SMTP appends and other sessions run; exactly the deleted mails disappear |
| mail client | `Assignment 3/mailclient.c` | a menu | drives both servers | follows the protocols |
| simDNS | `Assignment 6` | client: the id of the current query and the number of the try; server: none | query, reply, timeout | late and repeated replies, a reply belongs to its query |
| word server | `Assignment 1` | one set of variables for all clients | next word over UDP, stop and wait | loss and several clients |
| file encryption | `Assignment 2` | a temporary file per client | upload, shift, download over TCP | half-close |
| chat | `Assignment 4` | addresses of three peers | one connection per message | timeouts |
| course material | `Materials` | - | - | not part of a program |

`PROJECT.json` lists the components with their status and every hazard at its
line.

## 2. Plan

In this order, the most important behaviour first:

1. **`MTPTransfer`**: data transfer between bound sockets (done), with
   **`ReliableChannel`**, the abstract channel it implements (done), and
   **`MTPTransferProofs`** (done: types, both rings, the closed window) and
   **`MTPDeliveryProofs`** (done: on a network that keeps the order, everything the
   runs check but liveness, and the steps of the refinement) and
   **`MTPReorderProofs`** (done: what holds on a network that reorders).
2. **`MTPSockets`**: allocation of slots and of UDP sockets, the
   `Sem1`/`Sem2`/`sock_info` handshake with one or several callers, `m_close`,
   thread G (done), with **`SocketTable`**, the table the callers may rely on
   when they take turns, which is what `runner.sh` arranges (done), and
   **`MTPSocketsProofs`** (done: every invariant of the passing runs, and the steps
   of the refinement).
3. **`MTPReuse`**: sockets that are closed and opened again, where the
   persistence timer of an entry outlives its user (done).
4. **`SmtpServer`**, **`PopServer`** and **`MailClient`** over the shared state
   of **`MailState`**, composed in **`Mail`**, with **`Mailbox`**, the mailbox
   they promise (done), and **`MailProofs`**, **`MailSafetyProofs`** and
   **`MailboxProofs`** (done: types, that no mail is lost, that deletions last, the
   refinement).
5. **`SimDNS`** with **`Resolver`**, what it promises its user (done), and
   **`SimDNSProofs`** (done: types, right answers, the refinement steps).
6. Left: thread R's set of watched sockets and its blocking `recvfrom` when a
   descriptor is closed or reused under it.

## 3. Modules

`MTPTransfer` models bound sockets (`Socks`, paired by `Peer`).

| state | code |
|---|---|
| `send_window[s]`, `recv_window[s]` | `SM[s].send_window`, `SM[s].recv_window` with the field names of `msocket.h` |
| `persistence_timer[s]` | the daemon's array, without `last_time` |
| `udp[s]` | what the kernel queues on the UDP socket of `s` |
| `accepted[s]`, `delivered[s]` | history: how many messages `m_sendto` took, which messages `m_recvfrom` returned |

One action is one critical section of `SM_mutex`, or the part of one that is
about one socket: a pass of thread S over its table touches, for entry `i`, only
entry `i` and the network, so its 25 parts may be steps of their own. The
actions: `m_sendto`, `m_recvfrom`; `SendProbe` and `SendPass` (thread S);
`ReceiveInOrder`, `ReceiveEarly`, `ReceiveOutside`, `ReceiveAck`,
`ReceiveProbe`, `DropMessage` (the branches of thread R for a datagram) and
`WindowUpdate` (its branch for a timeout of `select`). A call that fails
(`ENOBUFS`, `ENOMSG`) changes nothing and is a stutter.

Abstractions:

- A message is its ordinal on its connection. Lengths and contents are left out.
- The clock is left out: whenever the code compares a time with `T`, either
  outcome is possible. `SendPass` therefore sends every unsent message of the
  window and any of those already sent; `SendProbe` is possible whenever the
  timer runs. `usleep` and `select` timeouts give no bound on anything.
- A datagram is lost by `DropMessage`, which stands for `dropMessage`, for
  errors of `recvfrom` and for datagrams of a third party, and by `Arrive` when
  the queue of `RcvBuf` datagrams is full.
- `Overtake` lets a datagram pass others. UDP on one host keeps the order
  (`Overtake = 0`). Datagrams are not duplicated by the network, but by
  resending.
- The sockets stay allotted and bound. Slots, processes and descriptors are the
  matter of the socket table.

`ReliableChannel` is what the two programs may rely on: in each direction a
FIFO channel that holds at most `Capacity` messages. `MTPTransfer` implements it
with `SENDER_MSG_BUFFER + RECEIVER_MSG_BUFFER`: a message counts until the
program has fetched it, and may sit in a send slot and a receive slot.

`MCTransfer` gives two sockets and the numbers of messages they send.

`MTPSockets` models how sockets come and go.

| state | code |
|---|---|
| `SM[i]` | the entry, without the two windows |
| `sock_info`, `Sem1`, `Sem2` | the request to the daemon and the two counts; `errno_val` is left out |
| `udp[fd]` | the daemon's descriptors: open or not, and the address bound to |
| `call[p]` | where process `p` is in `m_socket` or `m_bind`, with its locals |
| `opened[p]` | history: the descriptors that `m_socket` returned to `p` |

`m_socket` is `FindFreeEntry`, `PostRequest`, `TakeAnswer`, `FillEntry`,
`Return`; `m_bind` is `CheckOwner`, three steps of `WriteRequest`, `PostRequest`,
`TakeAnswer`, `SetDestination`, `Return`; `m_close` is one step, all of it being
under `SM_mutex`. `Serve` is the loop of the daemon's `main`, with one disjunct
for each of its branches and one for a request that none of them takes;
`thread_G` is one pass of the collector. A process may die (`Kill`), always or
between calls only. A call that fails at once (`ENOBUFS`, `EBADF`) is a stutter.
`SM_mutex` is no variable, because what it guards is one step. Where nothing
guards the code, the writes of `m_bind` to `sock_info` are steps of their own;
the `memset` of `sock_info` and one round of the daemon are single steps, which
leaves out interleavings only when calls overlap, and there the runs look for
one that goes wrong. Process ids are not used twice.

`SocketTable` says what a process may rely on: opening, binding, closing a
socket take effect at one moment; a slot has one owner, a new socket no address,
and the slots of the dead are reclaimed. `MTPSockets` implements it if calls do
not overlap and nobody is killed inside one. `MCSockets` gives its instances.

`MTPReuse` adds one step, `Reopen`, to `MTPTransfer`: both programs close their
sockets and open new ones that get the same entries. `m_socket` gives an entry
new windows (`NewSendWindow`, `NewRecvWindow`); the persistence timers are
variables of the daemon and stay. The UDP sockets are new ones, because `m_close`
leaves the old ones open, so no datagram reaches the wrong connection. `Reopen`
is one step, which leaves out the moments in which only one side is new: the run
looks for something that goes wrong, and finds it without them.

The mail system is `Mail`, made of `SmtpServer`, `PopServer` and `MailClient`
over the state of `MailState`.

| state | code |
|---|---|
| `child[k]` | a server process (`fork` after `accept`): `at`, the place in `handle_client`; `user`, from RCPT or USER; `text`, the mail on its way into the file; `inbox` with `to_delete` of each mail as `deleted` |
| `connected[k]`, `wire[k]` | the TCP connection of the process |
| `mailbox[u]` | the file `u/mymailbox.txt` |
| `client[c]` | a client: the place in `mailclient.c`, its connection, the mail it sends or looks at, the rows of the table still to fetch |
| `accepted`, `sent`, `removed`, `lost` | history: mails the SMTP server accepted, those reported as sent, deletions that were carried out, what killed processes had in their hands |

`SmtpServer` has one action for the four commands before the text (they differ
in what is tested and in what comes next), then `get_mail`,
`write_mail_to_inbox`, `quit`. `PopServer` has `TakeUser`, `TakePass`, `get_inbox`,
`Transaction` (every command of that state), `Quit`, and the steps of UPDATE one
by one: `Truncate`, `SignOff`, `Fclose`. `exit` is the end of a process of either
server; it is there that stdio writes an SMTP mail, since the file is never closed,
and a POP3 session writes the mailbox only at `fclose`, after its reply. A process
may be killed at any step. `MailClient` follows `mailclient.c` reply by reply;
its user may choose anything the menu allows and stop the program at any time.
`Others` are any programs that speak the two protocols: in every state they may
send the right command with right or wrong arguments, or a wrong one.

Abstractions of the mail system:

- A mail is a value and a mailbox a set. A message number stands for its mail;
  the numbers of a session never change. Every mail that is written is a new one.
- Commands and replies alternate, so that a connection holds one message. Nothing
  is sent before the reply to the command before has arrived.
- A text begins with `From:` and is shorter than stdio's buffer, and a mailbox that is
  written back fits into it as well, so that a file changes at one moment. A
  mailbox has no more than `MAX_MAILS` mails, none longer than its buffer, and
  none with a `%`, which `fprintf` would interpret.
- An empty command line crashes a server process (`strtok` returns NULL): `Kill`
  covers it.
- `Faults` says what may go wrong: `"kill"`; `"open"`, a mailbox that cannot be
  opened; `"stack"`, a buffer of `get_inbox` that is not empty at first. With
  either of the last two an accepted mail may vanish without a trace
  (`NoMailLost` fails), as the code reads; the runs leave them out. What
  `"stack"` does depends on what the build leaves on the stack.
- `OneAtATime` keeps a mailbox in the hands of one process at a time. The code
  does not see to it: `mail_turns` and the theorems say what holds when the users
  do, `mail_overlap` what happens when they do not.

`Mailbox` is what the servers promise together: an accepted mail waits, is then
in its user's box, and leaves it when it was marked and the deletions are carried
out, or in a loss that is on record. `MCMail` gives one user, `alice`.

`SimDNS` models the client and the server of `Assignment 6`.

| state | code |
|---|---|
| `client` | the place in `main`, the domains asked for, `id`, the try `j` |
| `clientQ`, `serverQ` | the buffers of the two raw sockets |
| `shown` | history: the last query and what was printed for it |
| `asked`, `noise` | bounds: queries of a run of the client, packets of other programs |

Both programs open a packet socket for every protocol on the loopback interface.
A packet sent there is seen once by its own sender, when it goes out, and twice
by every other socket, going out and coming in; `Push` appends the copies as long as
there is room. The client does not read at its prompt, so late replies wait for
the next query. The tests of a reply are `IsReply` (checksum, addresses and protocol
as one flag; message bit; id); the server's tests are `IsQuery`, and
`drop_message` may skip any packet. There is no clock: `select` changes `timeout`
to the time that is left, so it returns 0 only after ten seconds in all, with
nothing to read at that moment, and this is all that `Timeout` requires. What
`gethostbyname` returns does not change (`Address`). The client may be left and
started again, with ids from 0; `EarlyRestart` allows this while packets of the
earlier run are under way, and then a wrong answer is shown, so the run and the
proofs leave it out.

`Resolver` is what the user gets: a query ends with its answer or is dropped,
one at a time, and always ends. `MCSimDNS` gives three domains, one of which has
no address.

## 4. Runs

| run | instance | question |
|---|---|---|
| `transfer_wrap` | one direction, 7 messages, send buffer 4, receive buffer 3, 6 sequence numbers, queue of 2 | all safety properties, over a wrap of the sequence numbers and of both rings |
| `transfer_duplex` | 2 messages in each direction, buffers 3 and 2, queue of 2 | do DATA, ACKs and probes of the two directions, sharing queues and windows, disturb each other? |
| `transfer_reorder` | one direction, 3 messages, buffers 3 and 2, 5 sequence numbers, queue of 2, a datagram may overtake another | do stale ACKs, which close and open the window, lose or repeat a message, does everything arrive, and is the connection a `ReliableChannel`? |
| `transfer_live` | one direction, 5 messages, 4 sequence numbers, buffers 3 and 2 | does everything arrive, and is the connection a `ReliableChannel`? |
| `sockets_turns` | three processes, two slots, two descriptors, two addresses; calls take turns, deaths between calls | is every UDP socket one entry's and none leaked but by `m_close`, does every call return, is the table a `SocketTable`? |
| `sockets_deaths` | three processes, two slots, two descriptors, one address; calls take turns, deaths anywhere | does an entry stay its caller's whatever a killed call leaves behind? |
| `sockets_overlap` | two processes, calls may overlap | must find two processes with one entry |
| `sockets_killed` | as `sockets_turns`, deaths anywhere | must find an entry whose UDP socket is closed |
| `transfer_reuse` | one direction, 3 messages, buffers 3 and 2, sockets that are reopened | must find a message that is freed before it is received |
| `mail_turns` | a mailclient and another program, two server processes, one user, one mail in the mailbox and one new; one process at a time in the mailbox, kills anywhere | is every accepted mail stored, do deletions last, does every session end, do the servers implement `Mailbox`? |
| `mail_overlap` | one mailclient, two server processes, two new mails, no faults, nobody keeps sessions apart | must find a mail that was sent and is gone |
| `dns` | two tries, three ids, three queries in each run of the client, buffers of four packets, one foreign packet | are the answers right, does every query end, is it a `Resolver`? |

The bounds of the `transfer` runs keep the proportions of the code: the send buffer is larger than the
receive buffer, and there are exactly twice as many sequence numbers as
receive slots, the fewest that can work (the code has three times as many), so
that numbers are reused as early as possible. A receive buffer of three holds two
early messages at once; more messages than sequence numbers and than ring slots
make every index wrap; a queue of two is full often, and so loses. With `Overtake`
the messages are fewer than the sequence numbers: sequence numbers cannot be
reused safely in a network that delays datagrams without bound, and neither the
code nor the model claims it. One overtaking is enough to leave the sender with
the older of two windows, closed or open, and with a window that reaches past the
receiver's room; the proofs of safety hold for any overtaking. Among these runs
symmetry is used in `transfer_duplex` only, where both sockets send the same number
and no liveness is checked. Deadlock is not
checked, because the programs send a bounded number of messages and then stop.

In `sockets_turns` there are more processes than slots, so that slots pass from
one to another and the table is full; since `m_close` leaves a descriptor open,
two of them run out as well, and two addresses are enough to be refused one. In
`sockets_deaths` what is left in `sock_info` makes the daemon take its other two
branches, `ServeClose` and `ServeNothing`, which orderly callers never reach; one
address and symmetry of the processes keep it small.

In `mail_turns` a second server process lets a client connect while the process
of its last connection is still writing, and two clients are enough for one to
read and delete what the other sends. One new mail is enough for each thing that
can become of it; the old one is there so that a session can delete one mail and
keep another. `dns` has as many ids as queries in a run of the client, the fewest
with which an id is not used twice; two tries leave two replies, in four copies,
to an earlier query, which is also what fills the buffer; the client may be
restarted for ever, so ids and everything else repeat. Deadlock is checked for
`mail_turns`, whose programs can always go on; `dns` may stop at the
prompt when its bounds are used up.

Four runs are expected to fail, and show how the code departs from its
own comments and messages (`findings` in `PROJECT.json`). `sockets_overlap`:
`m_socket` looks for a free entry and takes it in two critical sections. `sockets_killed`: a caller
killed inside the handshake leaves requests and answers out of step, and the
daemon, which tells requests apart by which fields are zero, closes the next
caller's UDP socket. `transfer_reuse`: the persistence timer of a socket that was
closed makes its successor probe with an old number, and the peer answers every
probe with the number it carries, which the sender takes for an acknowledgement.
`mail_overlap`: QUIT writes back the mailbox as it was at login, so that a mail
stored meanwhile is gone. The
example programs stay clear of the first three: `runner.sh` starts one every two
seconds and neither of them calls `m_close`.

The models contain four more hazards that no run shows, because their
assumptions exclude them; each can be seen by changing a configuration.

- An `m_bind` to port 0 on an address is taken by no branch of the daemon and
  never answered: `sockets_turns` with `Requests <- AnyPort` violates
  `CallsReturn`.
- Two POP3 sessions of a user write back what the other one deleted:
  `mail_overlap` with `Old = {m1, m2}` and another program `Others = {o1}`
  violates `DeletedStaysDeleted`.
- The SMTP server answers before it opens the mailbox, and only prints that it
  could not: `mail_overlap` with `OneAtATime = TRUE` and `Faults = {"open"}`
  violates `SentNotLost`.
- A client of simDNS that is started again at once takes the answers to an
  earlier run for its own: `dns` with `EarlyRestart = TRUE` violates
  `AnswersAreRight`.

Safety properties of the transfer: `TypeOK`; `ReceiveRingOK` and `SendRingOK` (the rings as their
users assume them); `InOrderDelivery` (exactly once, in order);
`NoLossAfterAck`; `NoStaleNumberAccepted`; `WindowFitsReceiver`;
`ClosedWindowIsProbed`; and the action property `RightEdgeNeverRetreats`. Under
reordering three of them are not expected. A late message may be taken for one that
is due once a number is used again (`NoStaleNumberAccepted`), and where none is, as in
`transfer_reorder`, there is no other message it could be taken for; and a stale ACK
does move the right edge (`WindowFitsReceiver`, `RightEdgeNeverRetreats`).

Liveness: `EverythingArrives`, and the fairness of `ReliableChannel`.

Properties of the socket table: `SocketIsOwn` (allotted entries have open UDP
sockets, each its own), `DescriptorsAreOwn` (what `m_socket` returned stays the
caller's), `BoundAsAsked` (an `m_bind` that succeeds has bound what was asked),
`HandshakeAtRest` (nothing is left over between calls), the action property
`OnlyCloseLeaks`, and as liveness `CallsReturn` and the fairness of `SocketTable`.
`m_close` frees the entry and leaves its UDP socket open, which nobody can close
any more: `OnlyCloseLeaks` says that no other step gives up an open socket that is
noted in an entry or on its way into one. Neither a call that fails half-way nor
the collector, which closes what the dead had, leaks one. The descriptors
that `m_close` leaks run out in `sockets_turns`, and `m_socket` must then fail in an
orderly way. `DescriptorsAreOwn` is checked in `sockets_deaths`, where it has to
hold although handshakes are cut off.

Properties of the mail system: `NoMailLost` (an accepted mail is in its mailbox,
on its way there, deleted, or was in the hands of a killed process),
`DeletedStaysDeleted`, and as liveness `SentIsStored` and `OrphansEnd` (a process
whose client is gone ends). `SentNotLost` is the case of `NoMailLost` that its
user was told of, for `mail_overlap`.

Properties of simDNS: `AnswersAreRight` (what is shown belongs to the query) and,
as liveness, `QueryEnds` and the fairness of `Resolver`.

### Fairness

`FairSpec` assumes that the programs keep calling (`user1` retries after
`ENOBUFS`, `user2` polls), that thread S comes round again and resends what was
sent `T` ago, and that thread R empties the queues: weak fairness of `m_sendto`,
`m_recvfrom`, `SendProbe` and of taking a datagram. Loss is fair: `dropMessage`
drops each datagram with probability 0.1 independently, so a kind of datagram
(next DATA, other DATA, ACK, probe) that is offered again and again is handled
some time, and thread S, which sends every 1.4 seconds or more, does not meet a
full queue every time: strong fairness of these five actions, in the directions
that carry data. No fairness is assumed of `WindowUpdate`: continuous traffic on
other sockets keeps `select` from timing out, and the probes must do.

`MTPSockets` assumes that a process inside a call goes on unless it is killed,
and that the daemon's loop and thread G keep running: weak fairness of each
process's steps, of `Serve` and of `thread_G`. Nothing makes a process start a
call, close a socket or die.

`Mail` assumes that the operating system runs a process that can go on: weak
fairness of the steps of each server process and of those steps of a mailclient
that do not wait for its user. Users, other programs and kills are free.

`SimDNS` assumes the same of the client between prompt and end of a query, and of
the server: weak fairness of `ClientStep` and of taking a packet, dropped or
answered. No fairness of replies is assumed, since a query may be dropped.
Foreign packets are bounded: a stream of them that never pauses would keep
`select` from timing out, for which `timeout`, which counts down only while
`select` waits, is no remedy.

## 5. Proofs

`MTPTransferProofs` proves, for every set of paired sockets, every size of the
buffers and of the kernel queue, any reordering and any number of messages:

| theorem | what it says |
|---|---|
| `TypeCorrect` | indexes and sequence numbers stay in range, no window size is negative |
| `ReceiveRingCorrect` | the receive ring accounting `ReceiveRingOK` |
| `SendRingCorrect` | the send ring accounting `SendRingOK` |
| `ClosedWindowCorrect` | a closed window is being probed, an open one is not |
| `DueIsTaken` | the message that is due can be taken, and in one way |

The assumptions are those of the module: sockets are paired, the receive buffer
is not larger than the send buffer, and there are at least as many sequence
numbers as send slots and as twice the receive slots (15, 10 and 5 in the code).

`TypeOK` is inductive. Each ring invariant is inductive together with it. For
the receive ring the point is that `window_size` counts the slots that are not
readable and that a slot past the write index is empty or holds the number due
at that place: only then does the loop that takes over early messages stop at an
empty slot, so that the slot to write next is empty, so that `m_recvfrom`, which
looks at `ack_no` only, meets no early message when nothing is readable. The
operators on windows have one lemma each (`DequeueRing`, `StoreInOrderRing`,
`StoreEarlyRing`, `EnqueueRing`, `SlideRing`), resting on lemmas on modular
arithmetic (`RingStep`, `SeqAddStep`, `SeqAddTwice`); the step lemmas apply them
action by action.

The length of a run of early messages is chosen in `InOrderRuns` by its defining
property instead of being computed by a loop. `DueIsTaken` says that this choice
loses nothing: there is always exactly one such length. It rests on
`LeastNumber`, for which the library's theorem that the finite sets are
well-founded stands in for an induction.

`MTPDeliveryProofs` proves, for the same constants and a network that may lose
datagrams and keep them as long as it likes but delivers them in the order they
were sent (`Overtake = 0`):

| theorem | what it says |
|---|---|
| `LinkCorrect` | `LinkInv`, the invariant from which the others follow |
| `DeliveryCorrect` | `InOrderDelivery`: exactly once and in order |
| `NoLossCorrect` | `NoLossAfterAck`: what is let go of has been received |
| `NoStaleCorrect` | `NoStaleNumberAccepted`: no late message is taken for one that is due |
| `WindowFitsCorrect` | `WindowFitsReceiver`: the send window fits the room that is left |
| `RightEdgeCorrect` | the action property `RightEdgeNeverRetreats` |
| `ChannelRefined` | the initial state and every step are those of `ReliableChannel`, or stutters |

None of these is inductive, because each depends on what is under way. `Link(s)`
says it for the messages from `s` to its peer: a number `lo` of messages has been
let go of, and the send ring holds the others (`Holds`); the receive ring
continues what the program has fetched (`Continues`); `lo` is at most what is
in order at the receiver, and the right edge at most the room there (`Agree`); a
queued message bears its own number, lies before the right edge, and is less than
a receive window behind any message ahead of it or in the receiver's hands (`DataQueue`); a
queued probe names the last message in order (`ProbeQueue`); and the queued ACKs
acknowledge ever more, and advertise right edges that never fall, from that of
the sender to that of the receiver (`AckQueue`). The last is the heart of it: the
receiver widens its window without telling the sender, so that both right edges
and all those in between differ, but they are in order, whence the handling of an
ACK never shrinks what was promised. `DataQueue` is what bounds the
confusion of numbers: two messages that may meet are less than `2 *
RECEIVER_MSG_BUFFER` apart, and `NumberUnique` tells them apart since `MaxSeq` is at
least that. The module derives what it needs of `%` from the defining property of
quotient and remainder (`QuotientUnique`, `ModPlus`, `ModUnique`).

On a network that reorders, the code's promises are weaker. In the instance of
`transfer_reorder` an old ACK already moves the right edge back and lets the
window reach past the receiver's room; and with five messages and four numbers a
late datagram or a late ACK is taken for a new one, and messages are lost and
repeated. `MTPReorderProofs` proves what remains, for any `Overtake`, under the
assumption `FewMessages`: the messages of a connection and one receive buffer fit
into the sequence numbers (with the numbers of the code, at most 10 messages).

| theorem | what it says |
|---|---|
| `LooseCorrect` | `LooseInv`, the invariant from which the others follow |
| `DeliveryAnyOrder` | `InOrderDelivery` |
| `NoLossAnyOrder` | `NoLossAfterAck` |
| `ChannelAnyOrder` | the initial state and every step are those of `ReliableChannel`, or stutters |

`FewMessages` is the least that keeps a number from meaning two things: with one
message more, TLC finds a state of that instance in which a late message bears the
number that the receiver expects next of another. The assumption limits `MaxMsgs`, which the code does not;
it says how much of a connection is safe, not that connections are so short.
`LooseInv` gives up all that order gave: it does not relate the window sizes of the
two ends, nor a datagram to its neighbours in the queue. What is left for each
datagram by itself is that a message bears its own number and that a probe or an
ACK names something that has come (`Genuine`), which no later step can make
untrue; that is why it does not matter when, or how often overtaken, thread R takes
it. `FewExpected` and `FewAcked` say that at both ends a number then means the
message it was given to.

`TypeOK`, both rings and the closed window are proved for any `Overtake` and any
number of messages.

`MTPSocketsProofs` proves, for any set of processes, any number of slots,
descriptors and addresses:

| theorem | assumes | what it says |
|---|---|---|
| `SocketsTypeCorrect` | - | slots, requests, answers and counts keep their types |
| `DescriptorsAreOwnHolds` | calls do not overlap | an entry stays its caller's, whoever is killed, and where |
| `SocketIsOwnHolds` | `Orderly` | no two allotted entries share a UDP socket, none lacks one |
| `BoundAsAskedHolds` | `Orderly` | an `m_bind` that succeeds has bound what was asked |
| `HandshakeAtRestHolds` | `Orderly` | nothing is left over between calls |
| `OnlyCloseLeaksHolds` | `Orderly` | `OnlyCloseLeaks`: no step but `m_close` leaks a UDP socket |
| `TableIsImplemented` | `Orderly` | the initial state and every step are those of `SocketTable`, or stutters |

`Orderly` says that calls do not overlap, that nobody is killed inside one, and
that no program binds to port 0; these are assumptions on the programs, which the
library does not enforce: `sockets_overlap` and `sockets_killed` show what happens
without the first two, and without the third a call is never answered. None of the properties
is inductive. `IInv` adds to them where the
handshake is: for each place in `m_socket` and `m_bind`, whether the request is
being written, has been asked or has been answered, and what it must then hold.
It also says that every entry that is *held* has a UDP socket of its own, where a
closed entry is held as long as its owner lives, since `m_bind` does not look
whether it is allotted and the daemon would bind the descriptor it still has;
and that a descriptor on its way from the daemon into an entry is held by none.
The refinement needs one more invariant, `BoundOnce`: an entry with a peer is
bound, hence `bind()` refuses it, hence an address never changes. For
`DescriptorsAreOwnHolds` the handshake does not matter; `EntriesInv` says only
that an entry someone is about to fill is free.

`MailProofs`, `MailSafetyProofs` and `MailboxProofs` prove, for any clients, server processes,
users and mails:

| theorem | assumes | what it says |
|---|---|---|
| `TypeCorrect` | - | types; a process past RCPT or USER has a user of `user.txt` |
| `SentIsAccepted` | - | a mail is reported as sent only if the SMTP server accepted it |
| `MailSafety` | `Guarded` | `NoMailLost` |
| `SentSafety` | `Guarded` | `SentNotLost`, which `mail_overlap` violates without `Guarded` |
| `DeletedStays` | `Guarded` | `DeletedStaysDeleted` |
| `MailboxRefined` | `Guarded` | `ImplementsMailbox`, the refinement of `Mailbox` |

`Guarded` says that a mailbox is in the hands of one process at a time and that
the only fault is kills. `TypeOK` is not inductive: that a client sends a text only
to a process that expects one, which is why the mails on the wire are addressed
to the user of that process, needs `SessionInv`, which ties the place of a client
to the place of its server process and to the message between them. `NoMailLost` needs
three more parts (`MailInv`): `Alone`, one process holds a mailbox; `InOrder`, the
file is what the session that has it open has read, until that session truncates
it; `Somewhere`, the property itself. It is `Alone` that makes the copy of a session
as good as the file when it is written back.

For deletions and the refinement the history has to be known as well (`BoxInv`):
`Fresh`, a mail is on one connection and on it before it is accepted, so none is accepted
twice; `Filed`, a mail is pending or boxed, not both, and neither once it is removed or lost; `TidyOK`, only a
session that has read the mailbox marks mails, and a process has one text. The box of `Mailbox` is not the
file: from the truncation to `fclose` it is what the session will write, and
`PopServer`'s `Truncate` is the step at which the deletions take effect.
`SentIsAccepted` needs none of this, but what client and process know of each other
(`SentInv`): while a client is sending a mail, its process is in the SMTP session or
has ended, and the answer to a text, if positive, is that of a mail
that was accepted.

`SimDNSProofs` proves, for any queries, tries, ids and buffers:

| theorem | assumes | what it says |
|---|---|---|
| `TypeCorrect` | - | ids, tries and packets stay in range |
| `AnswersStayRight` | `IdsLast` | `AnswersAreRight` |
| `ResolvesSafely` | `IdsLast` | the initial state and every step are those of `Resolver`, or stutters |

`IdsLast` says that a run of the client asks no more queries than there are ids
(65536 in the code) and is not started on the packets of an earlier run. The
invariant behind it says that every packet under way carries an id already used
in this run and that those with the current id carry the current query or its
answer: late replies to earlier queries have smaller ids, since the ids have not
come round.

Model-checked only: all that needs fairness, which is out of the prover's reach:
`EverythingArrives`, `CallsReturn`, `SentIsStored`, `OrphansEnd`, `QueryEnds` and the
fairness of the abstract specifications.

## 6. Not modelled

See the components with status `not_modelled`: the word server has no timeouts
and promises nothing under loss, the file server and the chat share no state
between conversations. Within MTP: lengths and contents of messages, errors of
system calls on shared memory and semaphores, signals and `cleanup_on_exit`,
statistics, and the set of sockets that thread R watches. Within mail: texts,
sizes and dot-stuffing, the time stamp, and limits of arrays. Within simDNS: the
encoding of packets, checksums, and which domain names are valid.
