----------------------------- MODULE MailClient -----------------------------
(***************************************************************************)
(* The clients.  mailclient.c asks its user in a menu whether to send a    *)
(* mail or to manage the mailbox, and makes one connection for each.  The  *)
(* other clients are any programs that speak the protocols: they send any  *)
(* command at any time, and a text when the server waits for it.           *)
(*                                                                         *)
(* A step of mailclient takes a reply and sends the next command.          *)
(***************************************************************************)
EXTENDS MailState

\* A command with the arguments that it must have.
Right(verb, user, mails) == Command(verb, user, mails, TRUE)

MENU == [at |-> "menu", conn |-> {}, mail |-> {}, rows |-> {}]

\* What server process and client may be doing about a mail.
Sending(m) == \/ m \in accepted
              \/ \E c \in Clients : m \in client[c].mail /\ client[c].at \in SmtpPlaces
              \/ \E k \in Children : wire[k].is = "command" /\ wire[k].verb = "text" /\ m \in wire[k].mails

Unused(k) == child[k] = IDLE /\ ~connected[k]

\* main() of a server accepts the connection, and a process is forked for it
\* which greets the client.
Connect(c, k, first, at) ==
  /\ client[c].conn = {}
  /\ Unused(k)
  /\ k = CHOOSE j \in Children : Unused(j)
  /\ child' = [child EXCEPT ![k].at = first]
  /\ connected' = [connected EXCEPT ![k] = TRUE]
  /\ Send(k, Reply(TRUE, {}))
  /\ client' = [client EXCEPT ![c].at = at, ![c].conn = {k}]
  /\ UNCHANGED <<mailbox, accepted, sent, removed, lost>>

\* The client is in the middle of something, and has the reply to go on.
Heard(c, k, at) == client[c].at = at /\ client[c].conn = {k} /\ Answered(k)

Say(c, k, at, command) ==
  /\ Send(k, command)
  /\ client' = [client EXCEPT ![c].at = at, ![c].mail = IF at \in {"LIST", "prompt"} THEN {} ELSE @]
  /\ UNCHANGED <<connected, sent>>
  /\ UNCHANGED serverVars

\* close(), or the end of the program; a command that is on its way arrives.
Close(c, k) ==
  /\ client' = [client EXCEPT ![c] = MENU]
  /\ connected' = [connected EXCEPT ![k] = FALSE]
  /\ Send(k, IF Asked(k) /\ child[k].at # "free" THEN wire[k] ELSE QUIET)
  /\ UNCHANGED serverVars

-----------------------------------------------------------------------------
(* mailclient.c: sending a mail.                                           *)

\* The user writes a mail, or something that has not the format of one.
Compose(c, k) ==
  /\ Heard(c, k, "greeting")
  /\ \/ \E m \in Mails :
          /\ ~Sending(m)
          /\ Send(k, Right("HELO", NOBODY, {}))
          /\ client' = [client EXCEPT ![c].at = "HELO", ![c].mail = {m}]
          /\ UNCHANGED <<connected, sent>>
          /\ UNCHANGED serverVars
     \/ Close(c, k) /\ UNCHANGED sent

\* The command after the one that was answered, for a mail.
NextCommand(verb, mail) ==
  CASE verb = "HELO" -> Right("MAIL", NOBODY, {})
    [] verb = "MAIL" -> Right("RCPT", CHOOSE u \in Users \union {NOBODY} : \A m \in mail : u = To[m], {})
    [] verb = "RCPT" -> Right("DATA", NOBODY, {})
    [] verb = "DATA" -> Right("text", NOBODY, mail)
    [] verb = "text" -> Right("QUIT", NOBODY, {})

\* Any other reply than the one that is expected ends it.
send_mail(c, k) ==
  /\ client[c].at \in SmtpPlaces \ {"write", "QUIT"}
  /\ Heard(c, k, client[c].at)
  /\ IF wire[k].ok
       THEN LET command == NextCommand(client[c].at, client[c].mail)
            IN  Say(c, k, command.verb, command)
       ELSE Close(c, k) /\ UNCHANGED sent

Sent(c, k) ==
  /\ Heard(c, k, "QUIT")
  /\ sent' = IF wire[k].ok THEN sent \union client[c].mail ELSE sent
  /\ Close(c, k)

-----------------------------------------------------------------------------
(* mailclient.c: managing the mailbox.                                     *)

LIST == Right("LIST", NOBODY, {})
RETR(m) == Right("RETR", NOBODY, {m})
POPQUIT == Right("QUIT", NOBODY, {})

authenticate(c, k) ==
  \/ /\ Heard(c, k, "hello")
     /\ Say(c, k, "USER", Right("USER", Login[c], {}))
  \/ /\ Heard(c, k, "USER")
     /\ wire[k].ok
     /\ Say(c, k, "PASS", Right("PASS", NOBODY, {}))
  \/ /\ Heard(c, k, "PASS")
     /\ wire[k].ok
     /\ Say(c, k, "LIST", LIST)
  \/ /\ Heard(c, k, "USER") \/ Heard(c, k, "PASS")
     /\ ~wire[k].ok
     /\ Close(c, k)
     /\ UNCHANGED sent

\* Asks for every mail listed, for its row of the table, in the order of the
\* list; then for the user's choice.
Rows(c, k, rows) ==
  /\ \/ /\ rows # {}
        /\ LET m == CHOOSE m \in rows : TRUE
           IN  /\ Send(k, RETR(m))
               /\ client' = [client EXCEPT ![c].at = "row", ![c].rows = rows \ {m}]
     \/ /\ rows = {}
        /\ Send(k, QUIET)
        /\ client' = [client EXCEPT ![c].at = "prompt", ![c].rows = {}]
  /\ UNCHANGED <<connected, sent>>
  /\ UNCHANGED serverVars

\* A negative reply, or a mail without a "From:" line: an error, and QUIT.
Displayable(c, k) ==
  /\ wire[k].ok
  /\ client[c].at = "row" => wire[k].mails \intersect child[k].spoilt = {}

display_inbox(c, k) ==
  /\ Heard(c, k, "LIST") \/ Heard(c, k, "row")
  /\ IF Displayable(c, k)
       THEN Rows(c, k, IF client[c].at = "LIST" THEN wire[k].mails ELSE client[c].rows)
       ELSE Say(c, k, "signing_off", POPQUIT)

\* The user asks for a mail by number, any number, or is done.
Prompt(c, k) ==
  /\ client[c].at = "prompt"
  /\ client[c].conn = {k}
  /\ \/ \E m \in Mails :
          /\ Send(k, RETR(m))
          /\ client' = [client EXCEPT ![c].at = "mail", ![c].mail = {m}]
          /\ UNCHANGED <<connected, sent>>
          /\ UNCHANGED serverVars
     \/ Say(c, k, "signing_off", POPQUIT)

\* The mail is shown and may be deleted; without it, the user is asked again.
display_email(c, k) ==
  /\ Heard(c, k, "mail")
  /\ \/ /\ wire[k].ok
        /\ \/ Say(c, k, "DELE", Right("DELE", NOBODY, client[c].mail))
           \/ Say(c, k, "LIST", LIST)
     \/ /\ ~wire[k].ok
        /\ Say(c, k, "prompt", QUIET)

manage_mail(c, k) ==
  \/ authenticate(c, k)
  \/ display_inbox(c, k)
  \/ display_email(c, k)
  \/ Heard(c, k, "DELE") /\ Say(c, k, "LIST", LIST)
  \/ Heard(c, k, "signing_off") /\ Close(c, k) /\ UNCHANGED sent

-----------------------------------------------------------------------------
\* The server has gone away without a reply: the client exits, too.
Hangup(c, k) ==
  /\ client[c].conn = {k}
  /\ child[k].at = "free"
  /\ ~Answered(k)
  /\ Close(c, k)
  /\ UNCHANGED sent

\* The user stops a program in the middle of a session, or a program that is
\* not mailclient closes the connection.
Leave(c, k) ==
  /\ client[c].conn = {k}
  /\ Close(c, k)
  /\ UNCHANGED sent

\* What a mailclient does without its user.
ClientStep(c, k) ==
  \/ send_mail(c, k) \/ Sent(c, k) \/ manage_mail(c, k) \/ Hangup(c, k)

Ask(c, k, verb, user, mails, ok) == Say(c, k, "other", Command(verb, user, mails, ok))
Do(c, k, verb, user, mails) == Say(c, k, "other", Right(verb, user, mails))

\* What a program may ask that is not mailclient: what the server expects,
\* rightly or not, or something else, of which one command stands for all.
OtherStep(c, k) ==
  /\ client[c].conn = {k}
  /\ Answered(k)
  /\ Waiting(k)
  /\ LET at == child[k].at
     IN  \/ /\ at = "text"
            /\ \E m \in Mails, ok \in BOOLEAN :
                 /\ ~Sending(m)
                 /\ To[m] = child[k].user
                 /\ Ask(c, k, "text", NOBODY, {m}, ok)
         \/ /\ at \in {"USER", "RCPT"}
            /\ \E u \in Users \union {NOBODY} : Do(c, k, at, u, {})
         \/ /\ at = "TRANSACTION"
            /\ \/ \E verb \in {"STAT", "LIST", "RSET", "QUIT", "HELO"} : Do(c, k, verb, NOBODY, {})
               \/ \E verb \in {"LIST", "RETR", "DELE"}, m \in Mails : Do(c, k, verb, NOBODY, {m})
         \/ /\ at \in {"MAIL", "PASS"}
            /\ \E ok \in BOOLEAN : Ask(c, k, at, NOBODY, {}, ok)
         \/ /\ at \in {"HELO", "DATA", "QUIT"}
            /\ Do(c, k, at, NOBODY, {})
         \/ /\ at \in {"HELO", "MAIL", "DATA", "QUIT", "PASS"}
            /\ Do(c, k, "STAT", NOBODY, {})
=============================================================================
