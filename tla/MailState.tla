----------------------------- MODULE MailState -----------------------------
(***************************************************************************)
(* The state that the SMTP server, the POP3 server and the mail clients    *)
(* share: the server processes, one per connection, the connections, and   *)
(* the mailbox files.                                                      *)
(*                                                                         *)
(* A mail is a value and a mailbox the set of mails in its file; a message *)
(* number stands for the mail it names, as numbers are places in a list    *)
(* that a session reads once.  Protocol and command replies alternate, so  *)
(* a connection holds one message at a time.                               *)
(***************************************************************************)
EXTENDS Naturals

CONSTANTS
  Clients,   \* programs that run mailclient.c
  Others,    \* other programs that speak the protocols, in any order
  Children,  \* bound: server processes at one time
  Users,     \* the users in user.txt
  Mails,     \* bound: the mails that are ever written
  NOBODY,    \* no user: a name that is not in user.txt
  Old,       \* the mails that are in the mailboxes at first
  To,        \* To[m]: the user a mail is addressed to, or NOBODY
  Login,     \* Login[c]: the user that the user of client c logs in as
  OneAtATime,  \* a mailbox is in the hands of one server process at a time
  Faults     \* what may go wrong: "kill" of a server process, "open" of a
             \* mailbox, "stack": get_inbox starts with a buffer not empty

ASSUME MailAssumption ==
  /\ NOBODY \notin Users
  /\ To \in [Mails -> Users \union {NOBODY}]
  /\ Old \subseteq {m \in Mails : To[m] \in Users}
  /\ Login \in [Clients -> Users \union {NOBODY}]
  /\ Clients \intersect Others = {}
  /\ OneAtATime \in BOOLEAN
  /\ Faults \subseteq {"kill", "open", "stack"}

VARIABLES
  child,      \* child[k]: a server process: where it is, and its locals
  connected,  \* connected[k]: its client has not closed the connection
  wire,       \* wire[k]: the message on the connection
  mailbox,    \* mailbox[u]: the mails in the file mymailbox.txt of u
  client,     \* client[c]: where the client is, and its locals
  accepted,   \* mails the SMTP server has accepted
  sent,       \* mails a client has reported as sent successfully
  removed,    \* mails that sessions deleted and were told to
  lost        \* mails that a killed server process had in its hands

vars == <<child, connected, wire, mailbox, client, accepted, sent, removed, lost>>
serverVars == <<child, mailbox, accepted, removed, lost>>
clientVars == <<connected, client, sent>>

-----------------------------------------------------------------------------
(* The messages on a connection.                                           *)

SmtpVerbs == {"HELO", "MAIL", "RCPT", "DATA", "text", "QUIT"}
PopVerbs == {"USER", "PASS", "STAT", "LIST", "RETR", "DELE", "RSET", "QUIT"}

\* A command with the user and the mails it names; ok: its argument is right,
\* which is the password for PASS and the end of the text for "text".
Command(verb, user, mails, ok) ==
  [is |-> "command", verb |-> verb, user |-> user, mails |-> mails, ok |-> ok]

\* A reply, positive or not, with the mails it names or carries.
Reply(ok, mails) ==
  [is |-> "reply", verb |-> "reply", user |-> NOBODY, mails |-> mails, ok |-> ok]

QUIET == [is |-> "nothing", verb |-> "reply", user |-> NOBODY, mails |-> {}, ok |-> FALSE]

Asked(k) == wire[k].is = "command"
Answered(k) == wire[k].is = "reply"
Send(k, message) == wire' = [wire EXCEPT ![k] = message]
\* A reply to a client that is gone reaches nobody.
Answer(k, ok, mails) == Send(k, IF connected[k] THEN Reply(ok, mails) ELSE QUIET)

-----------------------------------------------------------------------------
(* The server processes.                                                   *)

IDLE == [at |-> "free", user |-> NOBODY, text |-> {}, inbox |-> {}, deleted |-> {}, spoilt |-> {}]
Goto(k, l) == child' = [child EXCEPT ![k].at = l]
\* It has nothing left to do or to write.
Finish(k) == child' = [child EXCEPT ![k] = [IDLE EXCEPT !.at = "exit"]]

SmtpPlaces == {"HELO", "MAIL", "RCPT", "DATA", "text", "write", "QUIT"}
PopPlaces == {"USER", "PASS", "get_inbox", "TRANSACTION", "UPDATE", "sign_off", "fclose"}

\* The process has u's mailbox in its hands: a mail of u that is not in the
\* file yet, or the file, open since PASS.
Holds(k, u) == /\ child[k].user = u
               /\ \/ child[k].text # {}
                  \/ child[k].at \in PopPlaces \ {"USER", "PASS"}
MayHold(k, u) == OneAtATime => \A j \in Children \ {k} : ~Holds(j, u)

\* What is left of the mailbox that a session has read, as it writes it back.
Kept(k) == child[k].inbox \ child[k].deleted

Init ==
  /\ child = [k \in Children |-> IDLE]
  /\ connected = [k \in Children |-> FALSE]
  /\ wire = [k \in Children |-> QUIET]
  /\ mailbox = [u \in Users |-> {m \in Old : To[m] = u}]
  /\ client = [c \in Clients \union Others |-> [at |-> "menu", conn |-> {}, mail |-> {}, rows |-> {}]]
  /\ accepted = Old
  /\ sent = {}
  /\ removed = {}
  /\ lost = {}

\* A process that is waiting for a command or for the rest of a text.
Waiting(k) == child[k].at \in {"HELO", "MAIL", "RCPT", "DATA", "text", "QUIT",
                               "USER", "PASS", "TRANSACTION"}

\* Mutant of Ends: only a process that is done ends.
EndsWhenDone(k) == child[k].at = "exit"
\* A process ends when it is done, or finds that the client is gone.
Ends(k) == \/ child[k].at = "exit"
           \/ Waiting(k) /\ ~connected[k] /\ ~Asked(k)

\* Mutant of exit: it does not write the buffer of the mailbox file.
exitUnflushed(k) ==
  /\ Ends(k)
  /\ child' = [child EXCEPT ![k] = IDLE]
  /\ UNCHANGED <<mailbox, wire, accepted, removed, lost>>
  /\ UNCHANGED clientVars
\* Mutant of exit: the mailbox file was opened for writing.
exitOverwriting(k) ==
  /\ Ends(k)
  /\ child' = [child EXCEPT ![k] = IDLE]
  /\ mailbox' = [u \in Users |-> IF child[k].user = u /\ child[k].text # {} THEN child[k].text
                                                                          ELSE mailbox[u]]
  /\ UNCHANGED <<wire, accepted, removed, lost>>
  /\ UNCHANGED clientVars
\* exit() writes what is in the buffer of the mailbox file, which was opened
\* for appending: for SMTP that is when the mail gets there.
exit(k) ==
  /\ Ends(k)
  /\ child' = [child EXCEPT ![k] = IDLE]
  /\ mailbox' = [u \in Users |-> IF child[k].user = u THEN mailbox[u] \union child[k].text
                                                      ELSE mailbox[u]]
  /\ UNCHANGED <<wire, accepted, removed, lost>>
  /\ UNCHANGED clientVars

\* What a process takes with it when it is killed.
InHands(k) == child[k].text \union (IF child[k].at \in {"sign_off", "fclose"} THEN Kept(k) ELSE {})

Kill(k) ==
  /\ "kill" \in Faults
  /\ child[k].at # "free"
  /\ child' = [child EXCEPT ![k] = IDLE]
  /\ lost' = lost \union InHands(k)
  /\ Send(k, IF Answered(k) THEN wire[k] ELSE QUIET)
  /\ UNCHANGED <<mailbox, accepted, removed>>
  /\ UNCHANGED clientVars
=============================================================================
