--------------------------- MODULE MailboxProofs ---------------------------
(* The mail system implements Mailbox while one server process at a time   *)
(* has a mailbox in its hands, and mailclient reports as sent only what    *)
(* the SMTP server has accepted.                                           *)
EXTENDS MailSafetyProofs

-----------------------------------------------------------------------------
(* Every mail is new when its text is sent, and accepted only once.        *)

Posting == SmtpPlaces \union {"greeting"}        \* where a mailclient is about to send a mail, or sends it
Composing == {"HELO", "MAIL", "RCPT", "DATA"}  \* where it has a mail that it has not sent
IsText(message) == message.is = "command" /\ message.verb = "text"
Composed(p) == IF p.at \in Composing THEN p.mail ELSE {}
TextOf(message) == IF IsText(message) THEN message.mails ELSE {}

\* A text is one mail.
OneMailPerText == \A k \in Children : IsText(wire[k]) => \E m \in Mails : wire[k].mails = {m}
\* A mail on a connection is not accepted yet, and on no other connection.
TextsAreNew ==
  \A k \in Children : \A m \in TextOf(wire[k]) :
    m \notin accepted /\ \A j \in Children : m \in TextOf(wire[j]) => j = k
\* A mail that a mailclient is about to send is nowhere else.
ComposedAreNew ==
  \A c \in Clients : \A m \in Composed(client[c]) :
    /\ m \notin accepted
    /\ \A k \in Children : m \notin TextOf(wire[k])
    /\ \A d \in Clients : m \in Composed(client[d]) => c = d

Fresh == OneMailPerText /\ TextsAreNew /\ ComposedAreNew

\* No text and no mail to send is new.
LEMMA FreshStays ==
  ASSUME Fresh, accepted' = accepted,
         \A k \in Children : wire'[k] = wire[k] \/ ~IsText(wire'[k]),
         \A c \in Clients : Composed(client'[c]) \subseteq Composed(client[c])
  PROVE  Fresh'
<1>1. \A k \in Children : TextOf(wire'[k]) \subseteq TextOf(wire[k])
  BY DEF TextOf
<1>2. OneMailPerText'
  BY DEF Fresh, OneMailPerText
<1>3. TextsAreNew'
  BY <1>1 DEF Fresh, TextsAreNew
<1>4. ComposedAreNew'
  BY <1>1 DEF Fresh, ComposedAreNew
<1> QED BY <1>2, <1>3, <1>4 DEF Fresh

\* Client c goes to a place where it sends no mail, and says something that
\* is not a text, or nothing.
Mute(c, k) ==
  /\ UNCHANGED serverVars
  /\ client'[c].at \notin Posting
  /\ \A d \in Programs \ {c} : client'[d] = client[d]
  /\ wire'[k] = wire[k] \/ ~IsText(wire'[k])
  /\ \A j \in Children \ {k} : wire'[j] = wire[j]

LEMMA MuteKeepsFresh ==
  ASSUME Fresh, NEW c \in Programs, NEW k \in Children, Mute(c, k)
  PROVE  Fresh'
<1>1. accepted' = accepted /\ \A j \in Children : wire'[j] = wire[j] \/ ~IsText(wire'[j])
  BY DEF Mute, serverVars
<1>2. \A d \in Clients : Composed(client'[d]) \subseteq Composed(client[d])
  BY ClientsDiffer DEF Mute, Composed, Composing, Posting, SmtpPlaces
<1> QED BY <1>1, <1>2, FreshStays

LEMMA SayIsMute ==
  ASSUME SessionInv, NEW c \in Programs, NEW k \in Children,
         NEW at \in MailPlaces, NEW message, ~IsText(message), Say(c, k, at, message)
  PROVE  Mute(c, k)
<1>1. client \in [Programs -> Program] /\ wire \in [Children -> Message]
  BY DEF SessionInv, ClientTypes
<1>2. /\ client' = [client EXCEPT ![c].at = at, ![c].mail = IF at \in {"LIST", "prompt"} THEN {} ELSE @]
      /\ wire' = [wire EXCEPT ![k] = message] /\ UNCHANGED serverVars
  BY DEF Say, Send
<1>3. client'[c].at = at /\ \A d \in Programs \ {c} : client'[d] = client[d]
  BY <1>1, <1>2 DEF Program
<1>4. at \notin Posting
  BY DEF Posting, SmtpPlaces, MailPlaces
<1> QED BY <1>1, <1>2, <1>3, <1>4 DEF Mute

LEMMA CloseIsMute ==
  ASSUME SessionInv, NEW c \in Programs, NEW k \in Children, Close(c, k)
  PROVE  Mute(c, k)
<1>1. Closes(c, k)
  BY CloseEffect DEF SessionInv
<1> QED BY <1>1 DEF Closes, Mute, Posting, SmtpPlaces, IsText

LEMMA PopCommandsAreNoText ==
  /\ \A user, mails : \A verb \in {"USER", "PASS", "LIST", "RETR", "DELE", "QUIT"} :
       ~IsText(Right(verb, user, mails))
  /\ ~IsText(QUIET)
BY DEF IsText, Right, Command, QUIET

LEMMA RowsAreMute ==
  ASSUME SessionInv, NEW c \in Programs, NEW k \in Children, NEW rows, Rows(c, k, rows)
  PROVE  Mute(c, k)
<1>1. client \in [Programs -> Program] /\ wire \in [Children -> Message]
  BY DEF SessionInv, ClientTypes
<1>2. ASSUME NEW at \in {"row", "prompt"}, NEW left, NEW message, ~IsText(message),
             wire' = [wire EXCEPT ![k] = message],
             client' = [client EXCEPT ![c].at = at, ![c].rows = left], UNCHANGED serverVars
      PROVE  Mute(c, k)
  <2>1. client'[c].at = at /\ \A d \in Programs \ {c} : client'[d] = client[d]
    BY <1>1, <1>2 DEF Program
  <2>2. at \notin Posting
    BY DEF Posting, SmtpPlaces
  <2> QED BY <1>1, <1>2, <2>1, <2>2 DEF Mute
<1>3. CASE rows # {}
  <2> DEFINE m == CHOOSE m \in rows : TRUE
  <2>1. /\ wire' = [wire EXCEPT ![k] = Right("RETR", NOBODY, {m})]
        /\ client' = [client EXCEPT ![c].at = "row", ![c].rows = rows \ {m}] /\ UNCHANGED serverVars
    BY <1>3 DEF Rows, RETR, Send
  <2> HIDE DEF m
  <2> QED BY <1>2, <2>1, PopCommandsAreNoText
<1>4. CASE rows = {}
  <2>1. /\ wire' = [wire EXCEPT ![k] = QUIET]
        /\ client' = [client EXCEPT ![c].at = "prompt", ![c].rows = {}] /\ UNCHANGED serverVars
    BY <1>4 DEF Rows, Send
  <2> QED BY <1>2, <2>1, PopCommandsAreNoText
<1> QED BY <1>3, <1>4

LEMMA ManageMailIsMute ==
  ASSUME SessionInv, NEW c \in Clients, NEW k \in Children, manage_mail(c, k)
  PROVE  Mute(c, k)
<1>0. c \in Programs
  BY ClientsDiffer
<1>p. {"USER", "PASS", "LIST", "prompt", "DELE", "signing_off"} \subseteq MailPlaces
  BY DEF MailPlaces
<1>1. CASE Close(c, k)
  BY <1>0, <1>1, CloseIsMute
<1>2. CASE \E rows : Rows(c, k, rows)
  BY <1>0, <1>2, RowsAreMute
<1>3. CASE \E at \in {"USER", "PASS", "LIST", "prompt", "DELE", "signing_off"} :
             \/ Say(c, k, at, QUIET)
             \/ \E verb \in {"USER", "PASS", "LIST", "RETR", "DELE", "QUIT"} : \E user, mails :
                  Say(c, k, at, Right(verb, user, mails))
  BY <1>0, <1>p, <1>3, SayIsMute, PopCommandsAreNoText
<1>4. authenticate(c, k) => Mute(c, k)
  BY <1>1, <1>3 DEF authenticate, LIST
<1>5. display_inbox(c, k) => Mute(c, k)
  BY <1>2, <1>3 DEF display_inbox, POPQUIT
<1>6. display_email(c, k) => Mute(c, k)
  BY <1>3 DEF display_email, LIST
<1> QED BY <1>1, <1>3, <1>4, <1>5, <1>6 DEF manage_mail, LIST

LEMMA PromptIsMute ==
  ASSUME SessionInv, NEW c \in Clients, NEW k \in Children, Prompt(c, k)
  PROVE  Mute(c, k)
<1>0. c \in Programs /\ client \in [Programs -> Program] /\ wire \in [Children -> Message]
  BY ClientsDiffer DEF SessionInv, ClientTypes
<1>1. CASE Say(c, k, "signing_off", POPQUIT)
  <2>1. "signing_off" \in MailPlaces /\ ~IsText(POPQUIT)
    BY PopCommandsAreNoText DEF MailPlaces, POPQUIT
  <2> QED BY <1>0, <1>1, <2>1, SayIsMute
<1>2. ASSUME NEW m \in Mails, Send(k, RETR(m)), UNCHANGED serverVars,
             client' = [client EXCEPT ![c].at = "mail", ![c].mail = {m}]
      PROVE  Mute(c, k)
  <2>1. client'[c].at = "mail" /\ \A d \in Programs \ {c} : client'[d] = client[d]
    BY <1>0, <1>2 DEF Program
  <2>2. ~IsText(RETR(m)) /\ "mail" \notin Posting
    BY PopCommandsAreNoText DEF RETR, Posting, SmtpPlaces
  <2> QED BY <1>0, <1>2, <2>1, <2>2 DEF Mute, Send
<1> QED BY <1>1, <1>2 DEF Prompt

\* A mail that nobody is sending.
LEMMA NewMail ==
  ASSUME NEW m, ~Sending(m)
  PROVE  /\ m \notin accepted
         /\ \A d \in Clients : m \notin Composed(client[d])
         /\ \A j \in Children : m \notin TextOf(wire[j])
BY DEF Sending, Composed, Composing, SmtpPlaces, TextOf, IsText

LEMMA ComposeKeepsFresh ==
  ASSUME SessionInv, Fresh, NEW c \in Clients, NEW k \in Children, Compose(c, k)
  PROVE  Fresh'
<1>0. c \in Programs /\ client \in [Programs -> Program] /\ wire \in [Children -> Message]
  BY ClientsDiffer DEF SessionInv, ClientTypes
<1>1. CASE Close(c, k)
  BY <1>0, <1>1, CloseIsMute, MuteKeepsFresh
<1>2. ASSUME NEW m \in Mails, ~Sending(m), Send(k, Right("HELO", NOBODY, {})),
             client' = [client EXCEPT ![c].at = "HELO", ![c].mail = {m}], UNCHANGED serverVars
      PROVE  Fresh'
  <2>1. accepted' = accepted
    BY <1>2 DEF serverVars
  <2>2. \A j \in Children : TextOf(wire'[j]) \subseteq TextOf(wire[j]) /\ (wire'[j] = wire[j] \/ ~IsText(wire'[j]))
    BY <1>0, <1>2 DEF Send, Right, Command, TextOf, IsText
  <2>3. Composed(client'[c]) = {m} /\ \A d \in Clients \ {c} : client'[d] = client[d]
    BY <1>0, <1>2, ClientsDiffer DEF Program, Composed, Composing
  <2>4. /\ m \notin accepted
        /\ \A d \in Clients : m \notin Composed(client[d])
        /\ \A j \in Children : m \notin TextOf(wire[j])
    BY <1>2, NewMail
  <2>5. OneMailPerText'
    BY <2>2 DEF Fresh, OneMailPerText
  <2>6. TextsAreNew'
    BY <2>1, <2>2 DEF Fresh, TextsAreNew
  <2>7. ComposedAreNew'
    BY <2>1, <2>2, <2>3, <2>4 DEF Fresh, ComposedAreNew
  <2> QED BY <2>5, <2>6, <2>7 DEF Fresh
<1> QED BY <1>1, <1>2 DEF Compose

\* The text of mail m, which is new, is sent on connection k.
LEMMA TextKeepsFresh ==
  ASSUME Fresh, NEW k \in Children, NEW m \in Mails, accepted' = accepted,
         IsText(wire'[k]), wire'[k].mails = {m}, \A j \in Children \ {k} : wire'[j] = wire[j],
         m \notin accepted, \A j \in Children : m \notin TextOf(wire[j]),
         \A d \in Clients : Composed(client'[d]) \subseteq Composed(client[d]) \ {m}
  PROVE  Fresh'
<1>1. TextOf(wire'[k]) = {m}
  BY DEF TextOf
<1>2. OneMailPerText'
  BY DEF Fresh, OneMailPerText
<1>3. TextsAreNew'
  BY <1>1 DEF Fresh, TextsAreNew
<1>4. ComposedAreNew'
  BY <1>1 DEF Fresh, ComposedAreNew
<1> QED BY <1>2, <1>3, <1>4 DEF Fresh

LEMMA SendMailKeepsFresh ==
  ASSUME SessionInv, Fresh, NEW c \in Clients, NEW k \in Children, send_mail(c, k)
  PROVE  Fresh'
<1>0. c \in Programs /\ client \in [Programs -> Program] /\ wire \in [Children -> Message]
  BY ClientsDiffer DEF SessionInv, ClientTypes
<1>1. CASE Close(c, k)
  BY <1>0, <1>1, CloseIsMute, MuteKeepsFresh
<1>2. CASE wire[k].ok
  <2> DEFINE at == client[c].at
             message == NextCommand(at, client[c].mail)
             user == CHOOSE u \in Users \union {NOBODY} : \A m \in client[c].mail : u = To[m]
  <2>1. at \in {"HELO", "MAIL", "RCPT", "DATA", "text"} /\ Say(c, k, message.verb, message)
    BY <1>2 DEF send_mail, SmtpPlaces
  <2>2. /\ at = "HELO" => message = Right("MAIL", NOBODY, {})
        /\ at = "MAIL" => message = Right("RCPT", user, {})
        /\ at = "RCPT" => message = Right("DATA", NOBODY, {})
        /\ at = "DATA" => message = Right("text", NOBODY, client[c].mail)
        /\ at = "text" => message = Right("QUIT", NOBODY, {})
    BY DEF NextCommand
  <2>3. PICK m \in Mails : client[c].mail = {m}
    BY <2>1 DEF SessionInv, ClientTypes, OneMail, SmtpPlaces
  <2> HIDE DEF user, message
  <2>4. /\ client' = [client EXCEPT ![c].at = message.verb,
                                    ![c].mail = IF message.verb \in {"LIST", "prompt"} THEN {} ELSE @]
        /\ wire' = [wire EXCEPT ![k] = message] /\ accepted' = accepted
    BY <2>1 DEF Say, Send, serverVars
  <2>5. /\ wire'[k] = message /\ \A j \in Children \ {k} : wire'[j] = wire[j]
        /\ client'[c].at = message.verb /\ \A d \in Clients \ {c} : client'[d] = client[d]
        /\ message.verb \notin {"LIST", "prompt"} => client'[c].mail = client[c].mail
    BY <1>0, <2>4, ClientsDiffer DEF Program
  <2>6. CASE at \in {"HELO", "MAIL", "RCPT"}
    <3>1. message.verb \in {"MAIL", "RCPT", "DATA"}
      BY <2>2, <2>6 DEF Right, Command
    <3>2. ~IsText(message)
      BY <3>1 DEF IsText
    <3>3. Composed(client'[c]) \subseteq Composed(client[c])
      BY <2>5, <2>6, <3>1 DEF Composed, Composing
    <3> QED BY <2>4, <2>5, <3>2, <3>3, FreshStays
  <2>7. CASE at = "DATA"
    <3>1. IsText(message) /\ message.mails = {m} /\ message.verb = "text"
      BY <2>2, <2>3, <2>7 DEF Right, Command, IsText
    <3>2. Composed(client'[c]) = {} /\ Composed(client[c]) = {m}
      BY <2>3, <2>5, <2>7, <3>1 DEF Composed, Composing
    <3>3. /\ m \notin accepted
          /\ \A j \in Children : m \notin TextOf(wire[j])
          /\ \A d \in Clients \ {c} : m \notin Composed(client[d])
      BY <3>2 DEF Fresh, ComposedAreNew
    <3>4. \A d \in Clients : Composed(client'[d]) \subseteq Composed(client[d]) \ {m}
      BY <2>5, <3>2, <3>3
    <3>5. IsText(wire'[k]) /\ wire'[k].mails = {m} /\ \A j \in Children \ {k} : wire'[j] = wire[j]
      BY <2>5, <3>1
    <3> HIDE DEF at
    <3> QED BY <2>3, <2>4, <3>3, <3>4, <3>5, TextKeepsFresh
  <2>8. CASE at = "text"
    <3>1. message.verb = "QUIT"
      BY <2>2, <2>8 DEF Right, Command
    <3>2. ~IsText(message) /\ Composed(client'[c]) = {}
      BY <2>5, <3>1 DEF IsText, Composed, Composing
    <3> QED BY <2>4, <2>5, <3>2, FreshStays
  <2> QED BY <2>1, <2>6, <2>7, <2>8
<1> QED BY <1>1, <1>2 DEF send_mail

LEMMA OtherKeepsFresh ==
  ASSUME SessionInv, Fresh, NEW c \in Others, NEW k \in Children, OtherStep(c, k)
  PROVE  Fresh'
<1>0. c \in Programs /\ c \notin Clients /\ client \in [Programs -> Program] /\ wire \in [Children -> Message]
  BY MailAssumption DEF SessionInv, ClientTypes, Programs
<1>1. ASSUME NEW message, Say(c, k, "other", message)
      PROVE  /\ wire'[k] = message /\ \A j \in Children \ {k} : wire'[j] = wire[j]
             /\ \A d \in Clients : client'[d] = client[d]
             /\ accepted' = accepted
             /\ ~IsText(message) => Fresh'
  <2>1. /\ client' = [client EXCEPT ![c].at = "other",
                                    ![c].mail = IF "other" \in {"LIST", "prompt"} THEN {} ELSE @]
        /\ wire' = [wire EXCEPT ![k] = message] /\ accepted' = accepted
    BY <1>1 DEF Say, Send, serverVars
  <2>2. wire'[k] = message /\ \A j \in Children \ {k} : wire'[j] = wire[j]
    BY <1>0, <2>1
  <2>3. \A d \in Clients : client'[d] = client[d]
    BY <1>0, <2>1, ClientsDiffer
  <2>4. ~IsText(message) => Fresh'
    BY <2>1, <2>2, <2>3, FreshStays
  <2> QED BY <2>1, <2>2, <2>3, <2>4
<1>2. ASSUME NEW m \in Mails, ~Sending(m), NEW ok, Ask(c, k, "text", NOBODY, {m}, ok) PROVE Fresh'
  <2> DEFINE message == Command("text", NOBODY, {m}, ok)
  <2>1. Say(c, k, "other", message) /\ IsText(message) /\ message.mails = {m}
    BY <1>2 DEF Ask, Command, IsText
  <2> HIDE DEF message
  <2>2. /\ wire'[k] = message /\ \A j \in Children \ {k} : wire'[j] = wire[j]
        /\ \A d \in Clients : client'[d] = client[d]
        /\ accepted' = accepted
    BY <1>1, <2>1
  <2>3. /\ m \notin accepted
        /\ \A d \in Clients : m \notin Composed(client[d])
        /\ \A j \in Children : m \notin TextOf(wire[j])
    BY <1>2, NewMail
  <2>4. \A d \in Clients : Composed(client'[d]) \subseteq Composed(client[d]) \ {m}
    BY <2>2, <2>3
  <2> QED BY <2>1, <2>2, <2>3, <2>4, TextKeepsFresh
<1>3. ASSUME NEW verb, verb # "text", NEW user, NEW mails, NEW ok,
             Say(c, k, "other", Command(verb, user, mails, ok))
      PROVE  Fresh'
  <2>1. ~IsText(Command(verb, user, mails, ok))
    BY <1>3 DEF IsText, Command
  <2> QED BY <1>1, <1>3, <2>1
<1>4. ASSUME NEW verb, verb # "text", NEW user, NEW mails, Do(c, k, verb, user, mails) PROVE Fresh'
  BY <1>3, <1>4 DEF Do, Right
<1>5. ASSUME NEW verb, verb # "text", NEW ok, Ask(c, k, verb, NOBODY, {}, ok) PROVE Fresh'
  BY <1>3, <1>5 DEF Ask
<1> DEFINE at == child[k].at
<1>6. CASE at = "text" /\ \E m \in Mails, ok \in BOOLEAN : ~Sending(m) /\ Ask(c, k, "text", NOBODY, {m}, ok)
  BY <1>2, <1>6
<1>7. CASE at \in {"USER", "RCPT"} /\ \E u \in Users \union {NOBODY} : Do(c, k, at, u, {})
  BY <1>4, <1>7
<1>8. CASE \/ \E verb \in {"STAT", "LIST", "RSET", "QUIT", "HELO"} : Do(c, k, verb, NOBODY, {})
           \/ \E verb \in {"LIST", "RETR", "DELE"}, m \in Mails : Do(c, k, verb, NOBODY, {m})
  BY <1>4, <1>8
<1>9. CASE at \in {"MAIL", "PASS"} /\ \E ok \in BOOLEAN : Ask(c, k, at, NOBODY, {}, ok)
  BY <1>5, <1>9
<1>10. CASE at \in {"HELO", "DATA", "QUIT"} /\ Do(c, k, at, NOBODY, {})
  BY <1>4, <1>10
<1>11. CASE Do(c, k, "STAT", NOBODY, {})
  BY <1>4, <1>11
<1> QED BY <1>6, <1>7, <1>8, <1>9, <1>10, <1>11 DEF OtherStep

\* Whatever a client does with an open connection.
LEMMA ClientKeepsFresh ==
  ASSUME SessionInv, Fresh, NEW k \in Children,
         \/ \E c \in Clients : Compose(c, k) \/ Prompt(c, k) \/ ClientStep(c, k)
         \/ \E c \in Others : OtherStep(c, k)
         \/ \E c \in Programs : Leave(c, k)
  PROVE  Fresh'
<1>1. ASSUME NEW c \in Programs, Close(c, k) PROVE Fresh'
  BY <1>1, CloseIsMute, MuteKeepsFresh
<1>2. ASSUME NEW c \in Clients, Prompt(c, k) \/ manage_mail(c, k) PROVE Fresh'
  BY <1>2, ClientsDiffer, PromptIsMute, ManageMailIsMute, MuteKeepsFresh
<1>3. ASSUME NEW c \in Clients, ClientStep(c, k) PROVE Fresh'
  BY <1>1, <1>2, <1>3, ClientsDiffer, SendMailKeepsFresh DEF ClientStep, Sent, Hangup
<1> QED BY <1>1, <1>2, <1>3, ComposeKeepsFresh, OtherKeepsFresh DEF Leave

LEMMA ConnectKeepsFresh ==
  ASSUME SessionInv, Fresh, NEW c \in Programs, NEW k \in Children,
         NEW first \in {"HELO", "USER"}, NEW at \in {"greeting", "hello", "other"},
         Connect(c, k, first, at)
  PROVE  Fresh'
<1>1. /\ client'[c].at = at /\ \A d \in Programs \ {c} : client'[d] = client[d]
      /\ wire'[k].is = "reply" /\ \A j \in Children \ {k} : wire'[j] = wire[j]
      /\ accepted' = accepted
  BY ConnectEffect DEF SessionInv
<1>2. \A d \in Clients : Composed(client'[d]) \subseteq Composed(client[d])
  BY <1>1, ClientsDiffer DEF Composed, Composing
<1>3. \A j \in Children : wire'[j] = wire[j] \/ ~IsText(wire'[j])
  BY <1>1 DEF IsText
<1> QED BY <1>1, <1>2, <1>3, FreshStays

\* A process that answers, or says nothing.
LEMMA QuietKeepsFresh ==
  ASSUME Fresh, NEW k \in Children, UNCHANGED client, UNCHANGED accepted,
         wire'[k] = wire[k] \/ wire'[k].is # "command", \A j \in Children \ {k} : wire'[j] = wire[j]
  PROVE  Fresh'
<1>1. \A j \in Children : wire'[j] = wire[j] \/ ~IsText(wire'[j])
  BY DEF IsText
<1> QED BY <1>1, FreshStays

LEMMA GetMailKeepsFresh ==
  ASSUME SessionInv, Fresh, NEW k \in Children, get_mail(k)
  PROVE  Fresh'
<1>1. /\ IsText(wire[k])
      /\ wire'[k].is # "command" /\ \A j \in Children \ {k} : wire'[j] = wire[j]
      /\ UNCHANGED accepted \/ accepted' = accepted \union wire[k].mails
  BY GetMailEffect DEF SessionInv, IsText, Asked
<1>2. UNCHANGED client
  BY DEF get_mail, clientVars
<1>3. CASE UNCHANGED accepted
  BY <1>1, <1>2, <1>3, QuietKeepsFresh
<1>4. CASE accepted' = accepted \union wire[k].mails
  <2>1. TextOf(wire[k]) = wire[k].mails /\ TextOf(wire'[k]) = {} /\ ~IsText(wire'[k])
    BY <1>1 DEF TextOf, IsText
  <2>2. OneMailPerText'
    BY <1>1, <2>1 DEF Fresh, OneMailPerText
  <2>3. TextsAreNew'
    BY <1>1, <1>4, <2>1 DEF Fresh, TextsAreNew
  <2>4. ComposedAreNew'
    BY <1>1, <1>2, <1>4, <2>1 DEF Fresh, ComposedAreNew
  <2> QED BY <2>2, <2>3, <2>4 DEF Fresh
<1> QED BY <1>1, <1>3, <1>4

LEMMA ServerKeepsFresh ==
  ASSUME SessionInv, Fresh, NEW k \in Children, ServerStep(k) \/ Kill(k)
  PROVE  Fresh'
<1>0. ServerTypes /\ wire \in [Children -> Message]
  BY DEF SessionInv
<1>1. ASSUME UNCHANGED client, UNCHANGED accepted,
             wire'[k] = wire[k] \/ wire'[k].is # "command", \A j \in Children \ {k} : wire'[j] = wire[j]
      PROVE  Fresh'
  BY <1>1, QuietKeepsFresh
<1>2. SmtpStep(k) => Fresh'
  <2>1. CASE TakeCommand(k)
    BY <1>0, <1>1, <2>1, TakeCommandEffect DEF TakeCommand, clientVars
  <2>2. CASE write_mail_to_inbox(k)
    BY <1>1, <2>2 DEF write_mail_to_inbox, clientVars
  <2>3. CASE quit(k)
    BY <1>0, <1>1, <2>3, QuitSmtpEffect DEF quit, clientVars
  <2> QED BY <2>1, <2>2, <2>3, GetMailKeepsFresh DEF SmtpStep
<1>3. PopStep(k) => Fresh'
  <2>1. CASE TakeUser(k)
    BY <1>0, <1>1, <2>1, TakeUserEffect DEF TakeUser, clientVars
  <2>2. CASE TakePass(k)
    BY <1>0, <1>1, <2>2, TakePassEffect DEF TakePass, clientVars
  <2>3. CASE get_inbox(k)
    BY <1>1, <2>3 DEF get_inbox, clientVars
  <2>4. CASE Transaction(k)
    BY <1>0, <1>1, <2>4, TransactionEffect DEF Transaction, clientVars
  <2>5. CASE Quit(k)
    BY <1>0, <1>1, <2>5, QuietType, SendEffect DEF Quit, clientVars
  <2>6. CASE Truncate(k)
    BY <1>0, <1>1, <2>6, TruncateEffect DEF Truncate, clientVars
  <2>7. CASE SignOff(k)
    BY <1>0, <1>1, <2>7, SignOffEffect DEF SignOff, clientVars
  <2>8. CASE Fclose(k)
    BY <1>1, <2>8 DEF Fclose, clientVars
  <2> QED BY <2>1, <2>2, <2>3, <2>4, <2>5, <2>6, <2>7, <2>8 DEF PopStep
<1>4. exit(k) => Fresh'
  BY <1>1 DEF exit, clientVars
<1>5. Kill(k) => Fresh'
  BY <1>0, <1>1, KillEffect DEF Kill, clientVars
<1> QED BY <1>2, <1>3, <1>4, <1>5 DEF ServerStep

LEMMA FreshInit == Init => Fresh
<1> SUFFICES ASSUME Init PROVE Fresh
  OBVIOUS
<1>1. \A k \in Children : ~IsText(wire[k])
  BY DEF Init, QUIET, IsText
<1>2. \A c \in Clients : Composed(client[c]) = {}
  BY DEF Init, Composed, Composing
<1> QED BY <1>1, <1>2 DEF Fresh, OneMailPerText, TextsAreNew, ComposedAreNew, TextOf

LEMMA FreshNext == SessionInv /\ Fresh /\ [Next]_vars => Fresh'
<1> SUFFICES ASSUME SessionInv, Fresh, [Next]_vars PROVE Fresh'
  OBVIOUS
<1>1. CASE UNCHANGED vars
  BY <1>1 DEF vars, Fresh, OneMailPerText, TextsAreNew, ComposedAreNew
<1>2. ASSUME NEW k \in Children, NEW c \in Programs, NEW first \in {"HELO", "USER"},
             NEW at \in {"greeting", "hello", "other"}, Connect(c, k, first, at)
      PROVE  Fresh'
  BY <1>2, ConnectKeepsFresh
<1>3. CASE Next
  BY <1>2, <1>3, ServerKeepsFresh, ClientKeepsFresh DEF Next, UserStep, Programs
<1> QED BY <1>1, <1>3

-----------------------------------------------------------------------------
(* The mailbox as it is seen from outside, for processes ps and files fs.  *)

Reads == {"TRANSACTION", "UPDATE"}     \* a session with a copy of the mailbox
Rewrites == {"sign_off", "fclose"}     \* it has emptied the file

TextFor(p, u) == IF p.user = u THEN p.text ELSE {}
MarksFor(p, u) == IF p.user = u /\ p.at \in Reads THEN p.deleted ELSE {}
FileFor(p, f, u) == IF p.user = u /\ p.at \in Rewrites THEN p.inbox \ p.deleted ELSE f

PendingOf(ps, u) == UNION {ps[k].text : k \in {j \in Children : ps[j].user = u}}
MarkedOf(ps, u) == UNION {ps[k].deleted : k \in {j \in Children : ps[j].user = u /\ ps[j].at \in Reads}}
RewritersOf(ps, u) == {k \in Children : ps[k].user = u /\ ps[k].at \in Rewrites}
BoxOf(ps, fs, u) == IF RewritersOf(ps, u) = {} THEN fs[u]
                    ELSE UNION {ps[k].inbox \ ps[k].deleted : k \in RewritersOf(ps, u)}

LEMMA ViewIs ==
  /\ pending = [u \in Users |-> PendingOf(child, u)]
  /\ marked = [u \in Users |-> MarkedOf(child, u)]
  /\ box = [u \in Users |-> BoxOf(child, mailbox, u)]
  /\ pending' = [u \in Users |-> PendingOf(child', u)]
  /\ marked' = [u \in Users |-> MarkedOf(child', u)]
  /\ box' = [u \in Users |-> BoxOf(child', mailbox', u)]
BY DEF pending, marked, box, Rewriting, Kept, PendingOf, MarkedOf, BoxOf, RewritersOf, Reads, Rewrites

\* One process at most has something to do with the mailbox of u.
LEMMA HolderView ==
  ASSUME NEW ps, NEW fs, NEW k \in Children, NEW u \in Users,
         \A j \in Children \ {k} : ~HeldBy(ps[j], u)
  PROVE  /\ PendingOf(ps, u) = TextFor(ps[k], u)
         /\ MarkedOf(ps, u) = MarksFor(ps[k], u)
         /\ BoxOf(ps, fs, u) = FileFor(ps[k], fs[u], u)
<1>1. \A j \in Children \ {k} : ps[j].user = u => ps[j].text = {} /\ ps[j].at \notin Reads \union Rewrites
  BY DEF HeldBy, PopPlaces, Reads, Rewrites
<1>2. PendingOf(ps, u) = TextFor(ps[k], u)
  BY <1>1 DEF PendingOf, TextFor
<1>3. MarkedOf(ps, u) = MarksFor(ps[k], u)
  BY <1>1 DEF MarkedOf, MarksFor
<1>4. RewritersOf(ps, u) = IF ps[k].user = u /\ ps[k].at \in Rewrites THEN {k} ELSE {}
  BY <1>1 DEF RewritersOf
<1>5. BoxOf(ps, fs, u) = FileFor(ps[k], fs[u], u)
  BY <1>4 DEF BoxOf, FileFor
<1> QED BY <1>2, <1>3, <1>5

\* What process k has to do with the mailbox of u stays the same.
Alike(p, q, u) ==
  /\ TextFor(q, u) = TextFor(p, u)
  /\ MarksFor(q, u) = MarksFor(p, u)
  /\ (q.user = u /\ q.at \in Rewrites) <=> (p.user = u /\ p.at \in Rewrites)
  /\ p.user = u /\ p.at \in Rewrites => q.inbox \ q.deleted = p.inbox \ p.deleted

OthersSame(ps, qs, k) == \A j \in Children \ {k} : qs[j] = ps[j]

LEMMA AlikeView ==
  ASSUME NEW ps, NEW qs, NEW fs, NEW gs, NEW k \in Children, NEW u \in Users,
         OthersSame(ps, qs, k), Alike(ps[k], qs[k], u), gs[u] = fs[u]
  PROVE  /\ PendingOf(qs, u) = PendingOf(ps, u)
         /\ MarkedOf(qs, u) = MarkedOf(ps, u)
         /\ BoxOf(qs, gs, u) = BoxOf(ps, fs, u)
<1>1. PendingOf(qs, u) = PendingOf(ps, u)
  <2>1. \A rs : PendingOf(rs, u) = UNION {TextFor(rs[j], u) : j \in Children}
    BY DEF PendingOf, TextFor
  <2>2. \A j \in Children : TextFor(qs[j], u) = TextFor(ps[j], u)
    BY DEF Alike, OthersSame
  <2>3. {TextFor(qs[j], u) : j \in Children} = {TextFor(ps[j], u) : j \in Children}
    BY <2>2
  <2> QED BY <2>1, <2>3
<1>2. MarkedOf(qs, u) = MarkedOf(ps, u)
  <2>1. \A rs : MarkedOf(rs, u) = UNION {MarksFor(rs[j], u) : j \in Children}
    BY DEF MarkedOf, MarksFor
  <2>2. \A j \in Children : MarksFor(qs[j], u) = MarksFor(ps[j], u)
    BY DEF Alike, OthersSame
  <2>3. {MarksFor(qs[j], u) : j \in Children} = {MarksFor(ps[j], u) : j \in Children}
    BY <2>2
  <2> QED BY <2>1, <2>3
<1>3. BoxOf(qs, gs, u) = BoxOf(ps, fs, u)
  <2>1. RewritersOf(qs, u) = RewritersOf(ps, u)
    BY DEF RewritersOf, Alike, OthersSame
  <2>2. \A j \in RewritersOf(ps, u) : qs[j].inbox \ qs[j].deleted = ps[j].inbox \ ps[j].deleted
    BY DEF RewritersOf, Alike, OthersSame
  <2>3. {qs[j].inbox \ qs[j].deleted : j \in RewritersOf(ps, u)} =
          {ps[j].inbox \ ps[j].deleted : j \in RewritersOf(ps, u)}
    BY <2>2
  <2> QED BY <2>1, <2>3 DEF BoxOf
<1> QED BY <1>1, <1>2, <1>3

\* A step of process k that nobody sees.
LEMMA NotSeen ==
  ASSUME NEW k \in Children, \A j \in Children \ {k} : child'[j] = child[j],
         \A u \in Users : mailbox'[u] = mailbox[u],
         \A u \in Users : Alike(child[k], child'[k], u)
  PROVE  UNCHANGED <<pending, box, marked>>
<1>1. ASSUME NEW u \in Users
      PROVE  /\ PendingOf(child', u) = PendingOf(child, u)
             /\ MarkedOf(child', u) = MarkedOf(child, u)
             /\ BoxOf(child', mailbox', u) = BoxOf(child, mailbox, u)
  <2>1. Alike(child[k], child'[k], u) /\ mailbox'[u] = mailbox[u] /\ OthersSame(child, child', k)
    BY DEF OthersSame
  <2> QED BY <2>1, AlikeView
<1> QED BY <1>1, ViewIs

\* A step of process k with the mailbox of its user, which no other process
\* has in its hands.
LEMMA SeenStep ==
  ASSUME NEW k \in Children, NEW u \in Users, child[k].user = u, child'[k].user \in {u, NOBODY},
         \A j \in Children \ {k} : child'[j] = child[j] /\ ~HeldBy(child[j], u),
         \A v \in Users \ {u} : mailbox'[v] = mailbox[v]
  PROVE  /\ pending[u] = TextFor(child[k], u)
         /\ marked[u] = MarksFor(child[k], u)
         /\ box[u] = FileFor(child[k], mailbox[u], u)
         /\ pending' = [pending EXCEPT ![u] = TextFor(child'[k], u)]
         /\ marked' = [marked EXCEPT ![u] = MarksFor(child'[k], u)]
         /\ box' = [box EXCEPT ![u] = FileFor(child'[k], mailbox'[u], u)]
<1>1. /\ PendingOf(child, u) = TextFor(child[k], u)
      /\ MarkedOf(child, u) = MarksFor(child[k], u)
      /\ BoxOf(child, mailbox, u) = FileFor(child[k], mailbox[u], u)
  BY HolderView
<1>2. /\ PendingOf(child', u) = TextFor(child'[k], u)
      /\ MarkedOf(child', u) = MarksFor(child'[k], u)
      /\ BoxOf(child', mailbox', u) = FileFor(child'[k], mailbox'[u], u)
  <2>1. \A j \in Children \ {k} : ~HeldBy(child'[j], u)
    OBVIOUS
  <2> QED BY <2>1, HolderView
<1>3. ASSUME NEW v \in Users \ {u}
      PROVE  /\ PendingOf(child', v) = PendingOf(child, v)
             /\ MarkedOf(child', v) = MarkedOf(child, v)
             /\ BoxOf(child', mailbox', v) = BoxOf(child, mailbox, v)
  <2>1. child[k].user # v /\ child'[k].user # v
    BY MailAssumption
  <2>2. Alike(child[k], child'[k], v) /\ OthersSame(child, child', k)
    BY <2>1 DEF Alike, TextFor, MarksFor, OthersSame
  <2> QED BY <2>2, AlikeView
<1>4. pending[u] = TextFor(child[k], u) /\ marked[u] = MarksFor(child[k], u)
      /\ box[u] = FileFor(child[k], mailbox[u], u)
  BY <1>1, ViewIs
<1>5. pending' = [pending EXCEPT ![u] = TextFor(child'[k], u)]
  BY <1>2, <1>3, ViewIs
<1>6. marked' = [marked EXCEPT ![u] = MarksFor(child'[k], u)]
  BY <1>2, <1>3, ViewIs
<1>7. box' = [box EXCEPT ![u] = FileFor(child'[k], mailbox'[u], u)]
  BY <1>2, <1>3, ViewIs
<1> QED BY <1>4, <1>5, <1>6, <1>7

-----------------------------------------------------------------------------
(* The invariant.                                                          *)

\* A session has marked mails only while it lasts; a process has one text.
Tidy(p) ==
  /\ p.at \notin Reads \union Rewrites => p.deleted = {}
  /\ p.text = {} \/ \E m \in Mails : p.text = {m}
TidyOK == \A k \in Children : Tidy(child[k])

\* A mail is in one place, that of its user, and accepted; and not there when
\* it was removed or lost.
Filed ==
  /\ \A u \in Users :
       /\ \A m \in pending[u] \union box[u] : To[m] = u /\ m \in accepted /\ m \notin removed \union lost
       /\ pending[u] \intersect box[u] = {}
       /\ marked[u] \subseteq box[u]
  /\ removed \union lost \subseteq accepted

BoxInv == SessionInv /\ MailInv /\ Fresh /\ TidyOK /\ Filed

\* A step of Mailbox that accepts nothing.
Moves ==
  \/ UNCHANGED Box!vars
  \/ \E u \in Users :
       \/ \E m \in Mails : Box!Deliver(u, m)
       \/ \E S \in SUBSET Mails : Box!Mark(u, S) \/ Box!Lose(u, S)
       \/ Box!Purge(u)

LEMMA ViewTypes ==
  /\ DOMAIN pending = Users /\ DOMAIN box = Users /\ DOMAIN marked = Users
  /\ pending = [u \in Users |-> pending[u]] /\ box = [u \in Users |-> box[u]]
  /\ marked = [u \in Users |-> marked[u]]
BY ViewIs

LEMMA MovesKeepFiled ==
  ASSUME Filed, Moves, accepted' = accepted
  PROVE  Filed'
<1>1. CASE UNCHANGED Box!vars
  BY <1>1 DEF Box!vars, Filed
<1>2. ASSUME NEW u \in Users, NEW m \in Mails, Box!Deliver(u, m) PROVE Filed'
  <2>1. /\ m \in pending[u]
        /\ \A v \in Users : pending'[v] = IF v = u THEN pending[u] \ {m} ELSE pending[v]
        /\ \A v \in Users : box'[v] = IF v = u THEN box[u] \union {m} ELSE box[v]
        /\ UNCHANGED <<marked, removed, lost>>
    BY <1>2, ViewTypes DEF Box!Deliver
  <2> QED BY <2>1 DEF Filed
<1>3. ASSUME NEW u \in Users, NEW S, Box!Mark(u, S) PROVE Filed'
  <2>1. /\ S \subseteq box[u]
        /\ \A v \in Users : marked'[v] = IF v = u THEN S ELSE marked[v]
        /\ UNCHANGED <<pending, box, removed, lost>>
    BY <1>3, ViewTypes DEF Box!Mark
  <2> QED BY <2>1 DEF Filed
<1>4. ASSUME NEW u \in Users, NEW S, Box!Lose(u, S) PROVE Filed'
  <2>1. /\ S \subseteq pending[u] \union box[u]
        /\ \A v \in Users : pending'[v] = IF v = u THEN pending[u] \ S ELSE pending[v]
        /\ \A v \in Users : box'[v] = IF v = u THEN box[u] \ S ELSE box[v]
        /\ \A v \in Users : marked'[v] = IF v = u THEN marked[u] \ S ELSE marked[v]
        /\ lost' = lost \union S /\ UNCHANGED removed
    BY <1>4, ViewTypes DEF Box!Lose
  <2> QED BY <2>1 DEF Filed
<1>5. ASSUME NEW u \in Users, Box!Purge(u) PROVE Filed'
  <2>1. /\ \A v \in Users : box'[v] = IF v = u THEN box[u] \ marked[u] ELSE box[v]
        /\ \A v \in Users : marked'[v] = IF v = u THEN {} ELSE marked[v]
        /\ removed' = removed \union marked[u]
        /\ UNCHANGED <<pending, lost>>
    BY <1>5, ViewTypes DEF Box!Purge
  <2> QED BY <2>1 DEF Filed
<1> QED BY <1>1, <1>2, <1>3, <1>4, <1>5 DEF Moves

\* A mail that is new is accepted.
LEMMA AcceptKeepsFiled ==
  ASSUME Filed, NEW u \in Users, NEW m \in Mails, m \notin accepted, To[m] = u, accepted' = accepted \union {m},
         pending' = [pending EXCEPT ![u] = @ \union {m}], UNCHANGED <<box, marked, removed, lost>>
  PROVE  Filed' /\ Box!Accept(u, m)
<1>1. \A v \in Users : pending'[v] = IF v = u THEN pending[u] \union {m} ELSE pending[v]
  BY ViewTypes
<1>2. Filed'
  BY <1>1 DEF Filed
<1>3. m \notin Box!Known
  BY DEF Filed, Box!Known
<1> QED BY <1>2, <1>3 DEF Box!Accept

-----------------------------------------------------------------------------
(* The steps of the server processes.                                      *)

\* The process has nothing to do with any mailbox that could be seen.
Clear(p) == p.text = {} /\ p.at \notin Rewrites /\ (p.at \in Reads => p.deleted = {})

LEMMA ClearStep ==
  ASSUME NEW k \in Children, \A j \in Children \ {k} : child'[j] = child[j],
         \A u \in Users : mailbox'[u] = mailbox[u], UNCHANGED <<removed, lost>>,
         Clear(child[k]), Clear(child'[k])
  PROVE  Moves
<1>1. \A u \in Users : Alike(child[k], child'[k], u)
  BY DEF Clear, Alike, TextFor, MarksFor
<1>2. UNCHANGED <<pending, box, marked>>
  BY <1>1, NotSeen
<1> QED BY <1>2 DEF Moves, Box!vars

\* The process keeps what it has and goes on.
LEMMA GoesOnStep ==
  ASSUME NEW k \in Children, \A j \in Children \ {k} : child'[j] = child[j],
         \A u \in Users : mailbox'[u] = mailbox[u], UNCHANGED <<removed, lost>>,
         child'[k].user = child[k].user, child'[k].text = child[k].text,
         child'[k].inbox = child[k].inbox, child'[k].deleted = child[k].deleted,
         child'[k].at \in Reads <=> child[k].at \in Reads,
         child'[k].at \in Rewrites <=> child[k].at \in Rewrites
  PROVE  Moves
<1>1. \A u \in Users : Alike(child[k], child'[k], u)
  BY DEF Alike, TextFor, MarksFor
<1>2. UNCHANGED <<pending, box, marked>>
  BY <1>1, NotSeen
<1> QED BY <1>2 DEF Moves, Box!vars

LEMMA HolderIsAlone ==
  ASSUME MailInv, NEW k \in Children, NEW u \in Users, HeldBy(child[k], u)
  PROVE  \A j \in Children \ {k} : ~HeldBy(child[j], u)
BY DEF MailInv, Alone

\* What a session knows of the mailbox.
LEMMA SessionFacts ==
  ASSUME ServerTypes, MailInv, NEW k \in Children, child[k].at \in Reads \union Rewrites
  PROVE  /\ child[k].user \in Users /\ HeldBy(child[k], child[k].user)
         /\ child[k].text = {} /\ child[k].spoilt = {}
         /\ child[k].at \in Reads => child[k].inbox = mailbox[child[k].user]
         /\ child[k].at \in Rewrites => mailbox[child[k].user] = {}
         /\ \A j \in Children \ {k} : ~HeldBy(child[j], child[k].user)
<1>1. child[k].user \in Users /\ HeldBy(child[k], child[k].user)
  BY SessionHoldsMailbox DEF Reads, Rewrites
<1>2. InOrder(child[k], mailbox)
  BY DEF MailInv
<1> QED BY <1>1, <1>2, HolderIsAlone DEF InOrder, Reads, Rewrites

\* Nothing changes but the marks.
LEMMA MarkStep ==
  ASSUME NEW k \in Children, NEW u \in Users, child[k].user = u, child'[k].user \in {u, NOBODY},
         \A j \in Children \ {k} : child'[j] = child[j] /\ ~HeldBy(child[j], u),
         \A v \in Users : mailbox'[v] = mailbox[v], UNCHANGED <<removed, lost>>,
         child[k].text = {}, child'[k].text = {},
         child[k].at \notin Rewrites, child'[k].at \notin Rewrites,
         MarksFor(child'[k], u) \subseteq box[u], MarksFor(child'[k], u) \in SUBSET Mails
  PROVE  Moves
<1> DEFINE S == MarksFor(child'[k], u)
<1>1. /\ pending[u] = TextFor(child[k], u)
      /\ box[u] = FileFor(child[k], mailbox[u], u)
      /\ pending' = [pending EXCEPT ![u] = TextFor(child'[k], u)]
      /\ marked' = [marked EXCEPT ![u] = S]
      /\ box' = [box EXCEPT ![u] = FileFor(child'[k], mailbox'[u], u)]
  BY SeenStep
<1> HIDE DEF S
<1>2. TextFor(child[k], u) = {} /\ TextFor(child'[k], u) = {}
  BY DEF TextFor
<1>3. FileFor(child'[k], mailbox'[u], u) = FileFor(child[k], mailbox[u], u)
  BY DEF FileFor
<1>4. pending' = pending /\ box' = box
  <2>1. pending' = [pending EXCEPT ![u] = pending[u]]
    BY <1>1, <1>2
  <2>2. box' = [box EXCEPT ![u] = box[u]]
    BY <1>1, <1>3
  <2>3. pending' = pending
    BY <2>1, ViewTypes
  <2>4. box' = box
    BY <2>2, ViewTypes
  <2> QED BY <2>3, <2>4
<1>5. Box!Mark(u, S)
  BY <1>1, <1>4 DEF Box!Mark, S
<1>6. S \in SUBSET Mails
  BY DEF S
<1> QED BY <1>5, <1>6 DEF Moves

\* The mails that a session deletes are mails of the mailbox.
LEMMA TransactionMarks ==
  ASSUME ServerTypes, NEW k \in Children, Transaction(k)
  PROVE  child'[k].deleted \subseteq child[k].deleted \union child[k].inbox
<1>1. child \in [Children -> Process]
  BY DEF ServerTypes
<1>2. child'[k].deleted \in {child[k].deleted, {}} \/
        /\ wire[k].mails \subseteq Listed(k)
        /\ child'[k].deleted = child[k].deleted \union wire[k].mails
  BY <1>1 DEF Transaction, Process
<1> QED BY <1>2 DEF Listed, Kept

LEMMA TransactionMoves ==
  ASSUME SessionInv, MailInv, Filed, NEW k \in Children, Transaction(k)
  PROVE  Moves
<1> DEFINE u == child[k].user
<1>0. ServerTypes /\ wire \in [Children -> Message]
  BY DEF SessionInv
<1>1. child[k].at = "TRANSACTION" /\ child[k].at \in Reads /\ child[k].at \notin Rewrites
  BY DEF Transaction, Reads, Rewrites
<1>2. PICK deleted \in SUBSET Mails :
        Becomes(k, "TRANSACTION", u, child[k].text, child[k].inbox, deleted, child[k].spoilt)
  BY <1>0, TransactionEffect
<1>3. /\ u \in Users /\ child[k].text = {} /\ child[k].inbox = mailbox[u]
      /\ \A j \in Children \ {k} : ~HeldBy(child[j], u)
  BY <1>0, <1>1, SessionFacts
<1>4. UNCHANGED <<mailbox, removed, lost>>
  BY DEF Transaction
<1>5. /\ child'[k].at = "TRANSACTION" /\ child'[k].user = u /\ child'[k].text = {}
      /\ child'[k].deleted = deleted /\ \A j \in Children \ {k} : child'[j] = child[j]
  BY <1>2, <1>3 DEF Becomes
<1>6. child'[k].at \notin Rewrites /\ MarksFor(child'[k], u) = deleted
  BY <1>5 DEF Rewrites, Reads, MarksFor
<1>7. deleted \subseteq box[u]
  <2>1. box[u] = mailbox[u] /\ marked[u] = child[k].deleted
    <3>1. BoxOf(child, mailbox, u) = mailbox[u] /\ MarkedOf(child, u) = child[k].deleted
      BY <1>1, <1>3, HolderView DEF FileFor, MarksFor
    <3> QED BY <1>3, <3>1, ViewIs
  <2>2. marked[u] \subseteq box[u]
    BY <1>3 DEF Filed
  <2> QED BY <1>0, <1>3, <1>5, <2>1, <2>2, TransactionMarks
<1>8. \A v \in Users : mailbox'[v] = mailbox[v]
  BY <1>4
<1> HIDE DEF u
<1> QED BY <1>1, <1>3, <1>4, <1>5, <1>6, <1>7, <1>8, MarkStep DEF u

\* A session that ends in the middle leaves its mailbox as it was.
LEMMA SessionEnds ==
  ASSUME ServerTypes, MailInv, NEW k \in Children, child[k].at \in Reads,
         NEW at \in {"exit", "free"}, Becomes(k, at, NOBODY, {}, {}, {}, {}),
         \A v \in Users : mailbox'[v] = mailbox[v], UNCHANGED <<removed, lost>>
  PROVE  Moves
<1> DEFINE u == child[k].user
<1>1. u \in Users /\ child[k].text = {} /\ \A j \in Children \ {k} : ~HeldBy(child[j], u)
  BY SessionFacts
<1>2. /\ child'[k].at = at /\ child'[k].user = NOBODY /\ child'[k].text = {}
      /\ \A j \in Children \ {k} : child'[j] = child[j]
  BY DEF Becomes
<1>3. child[k].at \notin Rewrites /\ child'[k].at \notin Rewrites /\ MarksFor(child'[k], u) = {}
  BY <1>2 DEF Rewrites, Reads, MarksFor
<1> HIDE DEF u
<1> QED BY <1>1, <1>2, <1>3, MarkStep DEF u

LEMMA TruncateMoves ==
  ASSUME SessionInv, MailInv, NEW k \in Children, Truncate(k)
  PROVE  Moves
<1> DEFINE u == child[k].user
<1>0. ServerTypes /\ wire \in [Children -> Message]
  BY DEF SessionInv
<1>1. child[k].at = "UPDATE" /\ child[k].at \in Reads /\ child[k].at \notin Rewrites /\ UNCHANGED lost
  BY DEF Truncate, Reads, Rewrites
<1>2. /\ u \in Users /\ child[k].text = {} /\ child[k].inbox = mailbox[u]
      /\ \A j \in Children \ {k} : ~HeldBy(child[j], u)
  BY <1>0, <1>1, SessionFacts
<1>3. CASE Becomes(k, "exit", NOBODY, {}, {}, {}, {}) /\ UNCHANGED <<mailbox, removed>>
  BY <1>0, <1>1, <1>3, SessionEnds
<1>4. CASE /\ Becomes(k, "sign_off", u, child[k].text, child[k].inbox, child[k].deleted, child[k].spoilt)
           /\ mailbox' = [mailbox EXCEPT ![u] = {}]
           /\ removed' = removed \union child[k].deleted
  <2>1. /\ child'[k].at = "sign_off" /\ child'[k].user = u /\ child'[k].text = {}
        /\ child'[k].inbox = child[k].inbox /\ child'[k].deleted = child[k].deleted
        /\ \A j \in Children \ {k} : child'[j] = child[j]
    BY <1>2, <1>4 DEF Becomes
  <2>2. \A v \in Users \ {u} : mailbox'[v] = mailbox[v]
    BY <1>0, <1>4 DEF ServerTypes
  <2>3. /\ pending[u] = TextFor(child[k], u)
        /\ marked[u] = MarksFor(child[k], u)
        /\ box[u] = FileFor(child[k], mailbox[u], u)
        /\ pending' = [pending EXCEPT ![u] = TextFor(child'[k], u)]
        /\ marked' = [marked EXCEPT ![u] = MarksFor(child'[k], u)]
        /\ box' = [box EXCEPT ![u] = FileFor(child'[k], mailbox'[u], u)]
    <3> HIDE DEF u
    <3> QED BY <1>2, <2>1, <2>2, SeenStep DEF u
  <2>4. TextFor(child[k], u) = {} /\ TextFor(child'[k], u) = {}
    BY <1>2, <2>1 DEF TextFor
  <2>5. MarksFor(child[k], u) = child[k].deleted /\ MarksFor(child'[k], u) = {}
    BY <1>1, <2>1 DEF MarksFor, Reads
  <2>6. /\ FileFor(child[k], mailbox[u], u) = mailbox[u]
        /\ FileFor(child'[k], mailbox'[u], u) = mailbox[u] \ child[k].deleted
    BY <1>1, <1>2, <2>1 DEF FileFor, Rewrites
  <2>7. pending' = pending
    BY <2>3, <2>4, ViewTypes
  <2>8. Box!Purge(u)
    BY <1>1, <1>4, <2>3, <2>5, <2>6, <2>7 DEF Box!Purge
  <2> QED BY <1>2, <2>8 DEF Moves
<1> QED BY <1>0, <1>3, <1>4, TruncateEffect

LEMMA FcloseMoves ==
  ASSUME SessionInv, MailInv, NEW k \in Children, Fclose(k)
  PROVE  Moves
<1> DEFINE u == child[k].user
<1>0. ServerTypes
  BY DEF SessionInv
<1>1. child[k].at = "fclose" /\ child[k].at \in Rewrites /\ child[k].at \notin Reads /\ UNCHANGED <<removed, lost>>
  BY DEF Fclose, Reads, Rewrites
<1>2. /\ u \in Users /\ child[k].text = {} /\ child[k].spoilt = {} /\ mailbox[u] = {}
      /\ \A j \in Children \ {k} : ~HeldBy(child[j], u)
  BY <1>0, <1>1, SessionFacts
<1>3. PICK rest \in SUBSET mailbox[u] : mailbox' = [mailbox EXCEPT ![u] = Written(k) \union rest]
  BY <1>0, FcloseEffect
<1>4. /\ mailbox'[u] = child[k].inbox \ child[k].deleted
      /\ \A v \in Users \ {u} : mailbox'[v] = mailbox[v]
  BY <1>0, <1>2, <1>3 DEF ServerTypes, Written, Kept
<1>5. /\ child'[k].at = "exit" /\ child'[k].user = NOBODY /\ child'[k].text = {}
      /\ \A j \in Children \ {k} : child'[j] = child[j]
  BY <1>0, FcloseEffect DEF Becomes
<1>6. /\ pending[u] = TextFor(child[k], u)
      /\ marked[u] = MarksFor(child[k], u)
      /\ box[u] = FileFor(child[k], mailbox[u], u)
      /\ pending' = [pending EXCEPT ![u] = TextFor(child'[k], u)]
      /\ marked' = [marked EXCEPT ![u] = MarksFor(child'[k], u)]
      /\ box' = [box EXCEPT ![u] = FileFor(child'[k], mailbox'[u], u)]
  <2> HIDE DEF u
  <2>1. child[k].user = u /\ child'[k].user \in {u, NOBODY}
    BY <1>5 DEF u
  <2>2. \A j \in Children \ {k} : child'[j] = child[j] /\ ~HeldBy(child[j], u)
    BY <1>2, <1>5
  <2> QED BY <1>2, <1>4, <2>1, <2>2, SeenStep
<1>7. TextFor(child[k], u) = {} /\ TextFor(child'[k], u) = {}
  BY <1>2, <1>5 DEF TextFor
<1>8. MarksFor(child[k], u) = {} /\ MarksFor(child'[k], u) = {}
  BY <1>1, <1>5 DEF MarksFor, Reads
<1>9. FileFor(child'[k], mailbox'[u], u) = FileFor(child[k], mailbox[u], u)
  BY <1>1, <1>4, <1>5 DEF FileFor, Rewrites
<1>10. UNCHANGED <<pending, box, marked>>
  BY <1>6, <1>7, <1>8, <1>9, ViewTypes
<1> QED BY <1>1, <1>10 DEF Moves, Box!vars

\* With the end of a process its text reaches the mailbox.
LEMMA ExitMoves ==
  ASSUME SessionInv, MailInv, TidyOK, NEW k \in Children, exit(k)
  PROVE  Moves
<1> DEFINE u == child[k].user
<1>0. ServerTypes
  BY DEF SessionInv
<1>1. /\ Becomes(k, "free", NOBODY, {}, {}, {}, {})
      /\ \A v \in Users : mailbox'[v] = IF u = v THEN mailbox[v] \union child[k].text ELSE mailbox[v]
      /\ child[k].at = "exit" \/ Waiting(k)
  BY <1>0, ExitEffect
<1>2. UNCHANGED <<removed, lost>> /\ child[k].at \notin Rewrites
  BY <1>1 DEF exit, Waiting, Rewrites
<1>3. /\ child'[k].at = "free" /\ child'[k].user = NOBODY /\ child'[k].text = {}
      /\ \A j \in Children \ {k} : child'[j] = child[j]
  BY <1>1 DEF Becomes
<1>4. CASE child[k].text # {}
  <2>1. child[k].at \in {"write", "QUIT", "exit"} /\ u \in Users /\ HeldBy(child[k], u)
    BY <1>4 DEF MailInv, InOrder, HeldBy
  <2>2. PICK m \in Mails : child[k].text = {m}
    BY <1>4 DEF TidyOK, Tidy
  <2>3. child[k].at \notin Reads /\ child'[k].at \notin Reads \union Rewrites
    BY <1>3, <2>1 DEF Reads, Rewrites
  <2>4. \A j \in Children \ {k} : child'[j] = child[j] /\ ~HeldBy(child[j], u)
    BY <1>3, <2>1, HolderIsAlone
  <2>5. mailbox'[u] = mailbox[u] \union {m} /\ \A v \in Users \ {u} : mailbox'[v] = mailbox[v]
    BY <1>1, <2>1, <2>2
  <2>6. child[k].user = u /\ child'[k].user \in {u, NOBODY}
    BY <1>3
  <2> HIDE DEF u
  <2>7. /\ pending[u] = TextFor(child[k], u)
        /\ marked[u] = MarksFor(child[k], u)
        /\ box[u] = FileFor(child[k], mailbox[u], u)
        /\ pending' = [pending EXCEPT ![u] = TextFor(child'[k], u)]
        /\ marked' = [marked EXCEPT ![u] = MarksFor(child'[k], u)]
        /\ box' = [box EXCEPT ![u] = FileFor(child'[k], mailbox'[u], u)]
    BY <2>1, <2>4, <2>5, <2>6, SeenStep
  <2>8. TextFor(child[k], u) = {m} /\ TextFor(child'[k], u) = {}
    BY <1>3, <2>2, <2>6 DEF TextFor
  <2>9. MarksFor(child[k], u) = {} /\ MarksFor(child'[k], u) = {}
    BY <2>3 DEF MarksFor
  <2>10. /\ FileFor(child[k], mailbox[u], u) = mailbox[u]
         /\ FileFor(child'[k], mailbox'[u], u) = mailbox[u] \union {m}
    BY <1>2, <2>3, <2>5 DEF FileFor
  <2>11. /\ pending' = [pending EXCEPT ![u] = @ \ {m}]
         /\ box' = [box EXCEPT ![u] = @ \union {m}]
         /\ m \in pending[u]
    <3>1. pending[u] \ {m} = {} /\ m \in pending[u]
      BY <2>7, <2>8
    <3>2. box[u] \union {m} = FileFor(child'[k], mailbox'[u], u)
      BY <2>7, <2>10
    <3> QED BY <2>7, <2>8, <3>1, <3>2
  <2>12. marked' = marked
    <3>1. marked' = [marked EXCEPT ![u] = marked[u]]
      BY <2>7, <2>9
    <3> QED BY <3>1, ViewTypes
  <2>13. Box!Deliver(u, m)
    BY <1>2, <2>11, <2>12 DEF Box!Deliver
  <2> QED BY <2>1, <2>2, <2>13 DEF Moves
<1>5. CASE child[k].text = {} /\ child[k].at \in Reads
  <2>1. \A v \in Users : mailbox'[v] = mailbox[v]
    BY <1>1, <1>5
  <2> QED BY <1>0, <1>1, <1>2, <1>5, <2>1, SessionEnds
<1>6. CASE child[k].text = {} /\ child[k].at \notin Reads
  <2>1. \A v \in Users : mailbox'[v] = mailbox[v]
    BY <1>1, <1>6
  <2>2. Clear(child[k]) /\ Clear(child'[k])
    BY <1>2, <1>3, <1>6 DEF Clear, Reads, Rewrites
  <2> QED BY <1>2, <1>3, <2>1, <2>2, ClearStep
<1> QED BY <1>4, <1>5, <1>6

\* What a process has in its hands when it is killed is lost, and on record.
LEMMA KillMoves ==
  ASSUME SessionInv, MailInv, Filed, NEW k \in Children, Kill(k)
  PROVE  Moves
<1> DEFINE u == child[k].user
           S == InHands(k)
<1>0. ServerTypes /\ wire \in [Children -> Message]
  BY DEF SessionInv
<1>1. Becomes(k, "free", NOBODY, {}, {}, {}, {}) /\ lost' = lost \union S /\ S \in SUBSET Mails
  BY <1>0, KillEffect
<1>2. UNCHANGED <<mailbox, removed>>
  BY DEF Kill
<1>3. /\ child'[k].at = "free" /\ child'[k].user = NOBODY /\ child'[k].text = {}
      /\ \A j \in Children \ {k} : child'[j] = child[j]
  BY <1>1 DEF Becomes
<1>4. \A v \in Users : mailbox'[v] = mailbox[v]
  BY <1>2
<1>5. CASE child[k].text # {} \/ child[k].at \in Rewrites
  <2>1. u \in Users /\ HeldBy(child[k], u) /\ child[k].at \notin Reads
    BY <1>0, <1>5, SessionHoldsMailbox DEF MailInv, InOrder, HeldBy, Reads, Rewrites
  <2>2. \A j \in Children \ {k} : child'[j] = child[j] /\ ~HeldBy(child[j], u)
    BY <1>3, <2>1, HolderIsAlone
  <2>3. child[k].user = u /\ child'[k].user \in {u, NOBODY}
    BY <1>3
  <2>4. S = TextFor(child[k], u) \union (IF child[k].at \in Rewrites THEN child[k].inbox \ child[k].deleted ELSE {})
    BY DEF InHands, Kept, TextFor, Rewrites
  <2>5. child[k].at \in Rewrites => mailbox[u] = {} /\ TextFor(child[k], u) = {}
    BY <1>0, SessionFacts DEF TextFor
  <2> HIDE DEF u, S
  <2>6. /\ pending[u] = TextFor(child[k], u)
        /\ marked[u] = MarksFor(child[k], u)
        /\ box[u] = FileFor(child[k], mailbox[u], u)
        /\ pending' = [pending EXCEPT ![u] = TextFor(child'[k], u)]
        /\ marked' = [marked EXCEPT ![u] = MarksFor(child'[k], u)]
        /\ box' = [box EXCEPT ![u] = FileFor(child'[k], mailbox'[u], u)]
    BY <1>4, <2>1, <2>2, <2>3, SeenStep
  <2>7. TextFor(child'[k], u) = {} /\ MarksFor(child'[k], u) = {} /\ MarksFor(child[k], u) = {}
    BY <1>3, <2>1 DEF TextFor, MarksFor, Reads
  <2>8. FileFor(child'[k], mailbox'[u], u) = mailbox[u]
    BY <1>3, <1>4, <2>1 DEF FileFor, Rewrites
  <2>9. pending[u] \subseteq S /\ S \subseteq pending[u] \union box[u] /\ box[u] \ S = mailbox[u]
    <3>1. CASE child[k].at \in Rewrites
      <4>1. S = child[k].inbox \ child[k].deleted /\ pending[u] = {} /\ box[u] = S
        BY <2>3, <2>4, <2>5, <2>6, <3>1 DEF FileFor
      <4> QED BY <2>5, <3>1, <4>1
    <3>2. CASE child[k].at \notin Rewrites
      <4>1. S = pending[u] /\ box[u] = mailbox[u]
        BY <2>4, <2>6, <3>2 DEF FileFor
      <4>2. pending[u] \intersect box[u] = {}
        BY <2>1 DEF Filed
      <4> QED BY <4>1, <4>2
    <3> QED BY <3>1, <3>2
  <2>10. /\ pending' = [pending EXCEPT ![u] = @ \ S]
         /\ box' = [box EXCEPT ![u] = @ \ S]
         /\ marked' = [marked EXCEPT ![u] = @ \ S]
    <3>1. pending[u] \ S = TextFor(child'[k], u)
      BY <2>7, <2>9
    <3>2. box[u] \ S = FileFor(child'[k], mailbox'[u], u)
      BY <2>8, <2>9
    <3>3. marked[u] \ S = MarksFor(child'[k], u)
      BY <2>6, <2>7
    <3> QED BY <2>6, <3>1, <3>2, <3>3
  <2>11. Box!Lose(u, S)
    BY <1>1, <1>2, <2>9, <2>10 DEF Box!Lose
  <2> QED BY <1>1, <2>1, <2>11 DEF Moves
<1>6. CASE child[k].text = {} /\ child[k].at \notin Rewrites
  <2>1. UNCHANGED <<removed, lost>>
    BY <1>1, <1>2, <1>6 DEF InHands, Rewrites
  <2>2. CASE child[k].at \in Reads
    BY <1>0, <1>1, <1>4, <2>1, <2>2, SessionEnds
  <2>3. CASE child[k].at \notin Reads
    <3>1. Clear(child[k]) /\ Clear(child'[k])
      BY <1>3, <1>6, <2>3 DEF Clear, Reads, Rewrites
    <3> QED BY <1>3, <1>4, <2>1, <3>1, ClearStep
  <2> QED BY <2>2, <2>3
<1> QED BY <1>5, <1>6

\* The text that a process takes is a new mail of the user it has in mind.
LEMMA GetMailFiles ==
  ASSUME SessionInv, MailInv, Fresh, Filed, NEW k \in Children, get_mail(k), Guarded
  PROVE  \/ Moves /\ accepted' = accepted
         \/ Filed' /\ \E u \in Users, m \in Mails : Box!Accept(u, m)
<1> DEFINE u == child[k].user
<1>0. ServerTypes /\ wire \in [Children -> Message]
  BY DEF SessionInv
<1>1. child[k].at = "text" /\ UNCHANGED <<mailbox, removed, lost>> /\ IsText(wire[k])
  BY DEF get_mail, IsText, Asked
<1>2. child[k].text = {} /\ u \in Users
  BY <1>0, <1>1, NothingInHands DEF ServerTypes, HasUser
<1>3. \A v \in Users : mailbox'[v] = mailbox[v]
  BY <1>1
<1>4. CASE Becomes(k, "exit", NOBODY, {}, {}, {}, {}) /\ UNCHANGED accepted
  <2>1. Clear(child[k]) /\ Clear(child'[k])
    BY <1>1, <1>2, <1>4 DEF Becomes, Clear, Reads, Rewrites
  <2> QED BY <1>1, <1>3, <1>4, <2>1, ClearStep DEF Becomes
<1>5. CASE /\ Becomes(k, "write", u, wire[k].mails,
                      child[k].inbox, child[k].deleted, child[k].spoilt)
           /\ MayHold(k, u)
           /\ accepted' = accepted \union wire[k].mails
  <2>1. PICK m \in Mails : wire[k].mails = {m}
    BY <1>1 DEF Fresh, OneMailPerText
  <2>2. m \notin accepted
    BY <1>1, <2>1 DEF Fresh, TextsAreNew, TextOf
  <2>3. To[m] = u
    BY <1>1, <2>1 DEF SessionInv, Session, TextsAreFor, For, IsText, Asked
  <2>4. \A j \in Children \ {k} : ~HeldBy(child[j], u)
    BY <1>5, MayHoldIsAlone
  <2>5. /\ child'[k].at = "write" /\ child'[k].user = u /\ child'[k].text = {m}
        /\ \A j \in Children \ {k} : child'[j] = child[j]
    BY <1>5, <2>1 DEF Becomes
  <2>6. child[k].user = u /\ child'[k].user \in {u, NOBODY}
        /\ \A j \in Children \ {k} : child'[j] = child[j] /\ ~HeldBy(child[j], u)
    BY <2>4, <2>5
  <2> HIDE DEF u
  <2>7. /\ pending[u] = TextFor(child[k], u)
        /\ marked[u] = MarksFor(child[k], u)
        /\ box[u] = FileFor(child[k], mailbox[u], u)
        /\ pending' = [pending EXCEPT ![u] = TextFor(child'[k], u)]
        /\ marked' = [marked EXCEPT ![u] = MarksFor(child'[k], u)]
        /\ box' = [box EXCEPT ![u] = FileFor(child'[k], mailbox'[u], u)]
    BY <1>2, <1>3, <2>6, SeenStep
  <2>8. TextFor(child'[k], u) = {m} /\ TextFor(child[k], u) = {}
    BY <1>2, <2>5 DEF TextFor
  <2>9. MarksFor(child[k], u) = {} /\ MarksFor(child'[k], u) = {}
    BY <1>1, <2>5 DEF MarksFor, Reads
  <2>10. FileFor(child'[k], mailbox'[u], u) = FileFor(child[k], mailbox[u], u)
    BY <1>1, <2>5 DEF FileFor, Rewrites
  <2>11. pending' = [pending EXCEPT ![u] = @ \union {m}]
    <3>1. pending[u] \union {m} = TextFor(child'[k], u)
      BY <2>7, <2>8
    <3> QED BY <2>7, <3>1
  <2>12. marked' = marked /\ box' = box
    <3>1. marked' = [marked EXCEPT ![u] = marked[u]]
      BY <2>7, <2>9
    <3>2. box' = [box EXCEPT ![u] = box[u]]
      BY <2>7, <2>10
    <3>3. marked' = marked
      BY <3>1, ViewTypes
    <3>4. box' = box
      BY <3>2, ViewTypes
    <3> QED BY <3>3, <3>4
  <2>13. UNCHANGED <<box, marked, removed, lost>> /\ accepted' = accepted \union {m}
    BY <1>1, <1>5, <2>1, <2>12
  <2> QED BY <1>2, <2>2, <2>3, <2>11, <2>13, AcceptKeepsFiled
<1> QED BY <1>0, <1>4, <1>5, GetMailEffect

\* The steps that bring a process on without a mail or a file.
LEMMA PlainMoves ==
  ASSUME SessionInv, MailInv, TidyOK, Guarded, NEW k \in Children,
         \/ TakeCommand(k) \/ write_mail_to_inbox(k) \/ quit(k)
         \/ TakeUser(k) \/ TakePass(k) \/ get_inbox(k) \/ Quit(k) \/ SignOff(k)
  PROVE  Moves /\ accepted' = accepted
<1>0. ServerTypes /\ wire \in [Children -> Message]
  BY DEF SessionInv
<1>1. UNCHANGED <<mailbox, accepted, removed, lost>>
  BY DEF TakeCommand, write_mail_to_inbox, quit, TakeUser, TakePass, get_inbox, Quit, SignOff
<1>2. \A v \in Users : mailbox'[v] = mailbox[v]
  BY <1>1
<1>3. ASSUME NEW at, NEW user, NEW inbox, NEW spoilt, at \notin Rewrites,
             child[k].at \in {"HELO", "MAIL", "RCPT", "DATA", "USER", "PASS", "get_inbox"},
             \/ Becomes(k, at, user, child[k].text, inbox, child[k].deleted, spoilt)
             \/ Becomes(k, at, user, {}, inbox, {}, spoilt)
      PROVE  Moves /\ accepted' = accepted
  <2>1. child[k].text = {} /\ child[k].deleted = {} /\ child[k].at \notin Reads \union Rewrites
    BY <1>3, NothingInHands DEF TidyOK, Tidy, Reads, Rewrites
  <2>2. /\ Clear(child[k]) /\ Clear(child'[k])
        /\ \A j \in Children \ {k} : child'[j] = child[j]
    BY <1>3, <2>1 DEF Becomes, Clear
  <2> QED BY <1>1, <1>2, <2>2, ClearStep
<1>4. ASSUME NEW at, Becomes(k, at, child[k].user, child[k].text, child[k].inbox, child[k].deleted, child[k].spoilt),
             at \in Reads <=> child[k].at \in Reads, at \in Rewrites <=> child[k].at \in Rewrites
      PROVE  Moves /\ accepted' = accepted
  <2>1. /\ child'[k].user = child[k].user /\ child'[k].text = child[k].text
        /\ child'[k].inbox = child[k].inbox /\ child'[k].deleted = child[k].deleted
        /\ child'[k].at = at /\ \A j \in Children \ {k} : child'[j] = child[j]
    BY <1>4 DEF Becomes
  <2> QED BY <1>1, <1>2, <1>4, <2>1, GoesOnStep
<1>p. "exit" \notin Rewrites /\ "PASS" \notin Rewrites /\ "get_inbox" \notin Rewrites /\ "TRANSACTION" \notin Rewrites
  BY DEF Rewrites
<1>5. CASE TakeCommand(k)
  <2>1. child[k].at \in {"HELO", "MAIL", "RCPT", "DATA"}
    BY <1>0, <1>5, TakeCommandEffect
  <2>2. AfterCommand[child[k].at] \notin Rewrites
    BY <2>1 DEF AfterCommand, Rewrites
  <2>3. CASE Becomes(k, "exit", NOBODY, {}, {}, {}, {})
    BY <1>p, <1>3, <2>1, <2>3
  <2>4. ASSUME NEW u, Becomes(k, AfterCommand[child[k].at], u, child[k].text,
                              child[k].inbox, child[k].deleted, child[k].spoilt)
        PROVE  Moves /\ accepted' = accepted
    BY <1>3, <2>1, <2>2, <2>4
  <2> QED BY <1>0, <1>5, <2>3, <2>4, TakeCommandEffect
<1>6. CASE write_mail_to_inbox(k)
  <2>1. /\ child[k].at = "write"
        /\ Becomes(k, "QUIT", child[k].user, child[k].text, child[k].inbox, child[k].deleted, child[k].spoilt)
    BY <1>0, <1>6, WriteMailEffect DEF Guarded
  <2>2. ("QUIT" \in Reads <=> child[k].at \in Reads) /\ ("QUIT" \in Rewrites <=> child[k].at \in Rewrites)
    BY <2>1 DEF Reads, Rewrites
  <2> QED BY <1>4, <2>1, <2>2
<1>7. CASE quit(k)
  <2>1. /\ child[k].at = "QUIT"
        /\ Becomes(k, "exit", child[k].user, child[k].text, child[k].inbox, child[k].deleted, child[k].spoilt)
    BY <1>0, <1>7, QuitSmtpEffect
  <2>2. ("exit" \in Reads <=> child[k].at \in Reads) /\ ("exit" \in Rewrites <=> child[k].at \in Rewrites)
    BY <2>1 DEF Reads, Rewrites
  <2> QED BY <1>4, <2>1, <2>2
<1>8. CASE TakeUser(k)
  <2>1. child[k].at = "USER"
    BY <1>0, <1>8, TakeUserEffect
  <2>2. CASE Becomes(k, "exit", NOBODY, {}, {}, {}, {})
    BY <1>p, <1>3, <2>1, <2>2
  <2>3. CASE Becomes(k, "PASS", wire[k].user, child[k].text, child[k].inbox, child[k].deleted, child[k].spoilt)
    BY <1>p, <1>3, <2>1, <2>3
  <2> QED BY <1>0, <1>8, <2>2, <2>3, TakeUserEffect
<1>9. CASE TakePass(k)
  <2>1. child[k].at = "PASS"
    BY <1>0, <1>9, TakePassEffect
  <2>2. CASE Becomes(k, "exit", NOBODY, {}, {}, {}, {})
    BY <1>p, <1>3, <2>1, <2>2
  <2>3. CASE Becomes(k, "get_inbox", child[k].user, child[k].text,
                     child[k].inbox, child[k].deleted, child[k].spoilt)
    BY <1>p, <1>3, <2>1, <2>3
  <2> QED BY <1>0, <1>9, <2>2, <2>3, TakePassEffect
<1>10. CASE get_inbox(k)
  <2>1. child[k].at = "get_inbox"
    BY <1>0, <1>10, GetInboxEffect
  <2>2. PICK S \in SUBSET Mails :
          Becomes(k, "TRANSACTION", child[k].user, child[k].text, mailbox[child[k].user], child[k].deleted, S)
    BY <1>0, <1>10, GetInboxEffect
  <2> QED BY <1>p, <1>3, <2>1, <2>2
<1>11. CASE Quit(k)
  <2>1. /\ child[k].at = "TRANSACTION"
        /\ Becomes(k, "UPDATE", child[k].user, child[k].text, child[k].inbox, child[k].deleted, child[k].spoilt)
    BY <1>0, <1>11, QuitPopEffect
  <2>2. ("UPDATE" \in Reads <=> child[k].at \in Reads) /\ ("UPDATE" \in Rewrites <=> child[k].at \in Rewrites)
    BY <2>1 DEF Reads, Rewrites
  <2> QED BY <1>4, <2>1, <2>2
<1>12. CASE SignOff(k)
  <2>1. /\ child[k].at = "sign_off"
        /\ Becomes(k, "fclose", child[k].user, child[k].text, child[k].inbox, child[k].deleted, child[k].spoilt)
    BY <1>0, <1>12, SignOffEffect
  <2>2. ("fclose" \in Reads <=> child[k].at \in Reads) /\ ("fclose" \in Rewrites <=> child[k].at \in Rewrites)
    BY <2>1 DEF Reads, Rewrites
  <2> QED BY <1>4, <2>1, <2>2
<1> QED BY <1>5, <1>6, <1>7, <1>8, <1>9, <1>10, <1>11, <1>12

\* Whatever a server process does, it does to the mailbox.
LEMMA ServerImplements ==
  ASSUME SessionInv, MailInv, Fresh, TidyOK, Filed, Guarded, NEW k \in Children, ServerStep(k) \/ Kill(k)
  PROVE  \/ Moves /\ accepted' = accepted
         \/ Filed' /\ \E u \in Users, m \in Mails : Box!Accept(u, m)
<1>1. CASE SmtpStep(k)
  BY <1>1, PlainMoves, GetMailFiles DEF SmtpStep
<1>2. CASE Transaction(k) \/ Truncate(k) \/ Fclose(k) \/ exit(k) \/ Kill(k)
  <2>1. accepted' = accepted
    BY <1>2 DEF Transaction, Truncate, Fclose, exit, Kill
  <2> QED BY <1>2, <2>1, TransactionMoves, TruncateMoves, FcloseMoves, ExitMoves, KillMoves
<1>3. CASE PopStep(k)
  BY <1>2, <1>3, PlainMoves DEF PopStep
<1> QED BY <1>1, <1>2, <1>3 DEF ServerStep

LEMMA ServerKeepsTidy ==
  ASSUME SessionInv, MailInv, Fresh, TidyOK, Guarded, NEW k \in Children, ServerStep(k) \/ Kill(k)
  PROVE  TidyOK'
<1>0. ServerTypes /\ wire \in [Children -> Message] /\ Tidy(child[k])
  BY DEF SessionInv, TidyOK
<1>1. ASSUME \A j \in Children \ {k} : child'[j] = child[j], Tidy(child'[k]) PROVE TidyOK'
  BY <1>1 DEF TidyOK
<1>2. ASSUME NEW at, NEW user, NEW inbox, NEW spoilt, Becomes(k, at, user, {}, inbox, {}, spoilt) PROVE TidyOK'
  BY <1>1, <1>2 DEF Becomes, Tidy
<1>3. ASSUME NEW at, NEW user, NEW inbox, NEW deleted, NEW spoilt,
             Becomes(k, at, user, child[k].text, inbox, deleted, spoilt),
             at \in Reads \union Rewrites \/ (child[k].at \notin Reads \union Rewrites /\ deleted = child[k].deleted)
      PROVE  TidyOK'
  BY <1>0, <1>1, <1>3 DEF Becomes, Tidy
<1>4. CASE TakeCommand(k)
  <2>1. child[k].at \notin Reads \union Rewrites
    BY <1>0, <1>4, TakeCommandEffect DEF Reads, Rewrites
  <2> QED BY <1>0, <1>2, <1>3, <1>4, <2>1, TakeCommandEffect
<1>5. CASE get_mail(k)
  <2>1. CASE Becomes(k, "write", child[k].user, wire[k].mails,
                     child[k].inbox, child[k].deleted, child[k].spoilt)
    <3>1. child[k].at \notin Reads \union Rewrites /\ \E m \in Mails : wire[k].mails = {m}
      BY <1>5 DEF Fresh, OneMailPerText, get_mail, IsText, Asked, Reads, Rewrites
    <3>2. Tidy(child'[k])
      BY <1>0, <2>1, <3>1 DEF Tidy, Becomes
    <3> QED BY <1>1, <2>1, <3>2 DEF Becomes
  <2> QED BY <1>0, <1>2, <1>5, <2>1, GetMailEffect
<1>6. CASE write_mail_to_inbox(k)
  <2>1. /\ child[k].at \notin Reads \union Rewrites
        /\ Becomes(k, "QUIT", child[k].user, child[k].text, child[k].inbox, child[k].deleted, child[k].spoilt)
    BY <1>0, <1>6, WriteMailEffect DEF Guarded, Reads, Rewrites
  <2> QED BY <1>3, <2>1
<1>7. CASE quit(k)
  <2>1. /\ child[k].at \notin Reads \union Rewrites
        /\ Becomes(k, "exit", child[k].user, child[k].text, child[k].inbox, child[k].deleted, child[k].spoilt)
    BY <1>0, <1>7, QuitSmtpEffect DEF Reads, Rewrites
  <2> QED BY <1>3, <2>1
<1>8. CASE TakeUser(k)
  <2>1. child[k].at \notin Reads \union Rewrites
    BY <1>0, <1>8, TakeUserEffect DEF Reads, Rewrites
  <2> QED BY <1>0, <1>2, <1>3, <1>8, <2>1, TakeUserEffect
<1>9. CASE TakePass(k)
  <2>1. child[k].at \notin Reads \union Rewrites
    BY <1>0, <1>9, TakePassEffect DEF Reads, Rewrites
  <2> QED BY <1>0, <1>2, <1>3, <1>9, <2>1, TakePassEffect
<1>10. CASE get_inbox(k)
  <2>1. "TRANSACTION" \in Reads
    BY DEF Reads
  <2> QED BY <1>0, <1>3, <1>10, <2>1, GetInboxEffect
<1>11. CASE Transaction(k)
  <2>1. "TRANSACTION" \in Reads
    BY DEF Reads
  <2> QED BY <1>0, <1>3, <1>11, <2>1, TransactionEffect
<1>12. CASE Quit(k)
  <2>1. "UPDATE" \in Reads
    BY DEF Reads
  <2> QED BY <1>0, <1>3, <1>12, <2>1, QuitPopEffect
<1>13. CASE Truncate(k)
  <2>1. "sign_off" \in Rewrites
    BY DEF Rewrites
  <2> QED BY <1>0, <1>2, <1>3, <1>13, <2>1, TruncateEffect
<1>14. CASE SignOff(k)
  <2>1. "fclose" \in Rewrites
    BY DEF Rewrites
  <2> QED BY <1>0, <1>3, <1>14, <2>1, SignOffEffect
<1>15. CASE Fclose(k) \/ exit(k) \/ Kill(k)
  <2>1. \E at : Becomes(k, at, NOBODY, {}, {}, {}, {})
    BY <1>0, <1>15, FcloseEffect, ExitEffect, KillEffect
  <2> QED BY <1>2, <2>1
<1> QED BY <1>4, <1>5, <1>6, <1>7, <1>8, <1>9, <1>10, <1>11, <1>12, <1>13, <1>14, <1>15
        DEF ServerStep, SmtpStep, PopStep

-----------------------------------------------------------------------------
(* All steps.                                                              *)

LEMMA ConnectMoves ==
  ASSUME SessionInv, TidyOK, NEW c \in Programs, NEW k \in Children,
         NEW first \in {"HELO", "USER"}, NEW at \in {"greeting", "hello", "other"}, Connect(c, k, first, at)
  PROVE  Moves /\ accepted' = accepted /\ TidyOK'
<1>1. /\ child[k] = IDLE /\ Becomes(k, first, NOBODY, {}, {}, {}, {})
      /\ UNCHANGED <<mailbox, accepted, sent, removed, lost>>
  BY ConnectEffect DEF SessionInv
<1>2. /\ child'[k].at = first /\ child'[k].text = {} /\ child'[k].deleted = {}
      /\ \A j \in Children \ {k} : child'[j] = child[j]
  BY <1>1 DEF Becomes
<1>3. Clear(child[k]) /\ Clear(child'[k])
  BY <1>1, <1>2 DEF Clear, IDLE, Reads, Rewrites
<1>4. Tidy(child'[k])
  BY <1>2 DEF Tidy
<1>5. \A v \in Users : mailbox'[v] = mailbox[v]
  BY <1>1
<1> QED BY <1>1, <1>2, <1>3, <1>4, <1>5, ClearStep DEF TidyOK

LEMMA StillMoves ==
  ASSUME TidyOK, UNCHANGED serverVars
  PROVE  Moves /\ accepted' = accepted /\ TidyOK'
<1>1. UNCHANGED <<pending, box, marked>>
  BY DEF serverVars, pending, box, marked, Rewriting, Kept
<1> QED BY <1>1 DEF serverVars, Moves, Box!vars, TidyOK

LEMMA BoxNext ==
  ASSUME Guarded, BoxInv, [Next]_vars
  PROVE  BoxInv' /\ [Box!Next]_(Box!vars)
<1> DEFINE Seen == /\ TidyOK'
                   /\ \/ Moves /\ accepted' = accepted
                      \/ Filed' /\ \E u \in Users, m \in Mails : Box!Accept(u, m)
<1>0. SessionInv /\ MailInv /\ Fresh /\ TidyOK /\ Filed
  BY DEF BoxInv
<1>1. SessionInv' /\ MailInv' /\ Fresh'
  BY <1>0, NextSession, NextMail, FreshNext
<1>2. Seen
  <2>1. ASSUME NEW k \in Children, ServerStep(k) \/ Kill(k) PROVE Seen
    BY <1>0, <2>1, ServerImplements, ServerKeepsTidy
  <2>2. ASSUME NEW c \in Programs, NEW k \in Children,
               \/ Connect(c, k, "HELO", "greeting") \/ Connect(c, k, "USER", "hello")
               \/ Connect(c, k, "HELO", "other") \/ Connect(c, k, "USER", "other")
        PROVE  Seen
    BY <1>0, <2>2, ConnectMoves
  <2>3. ASSUME NEW c \in Programs, NEW k \in Children,
               Compose(c, k) \/ Prompt(c, k) \/ ClientStep(c, k) \/ OtherStep(c, k) \/ Leave(c, k)
        PROVE  Seen
    BY <1>0, <2>3, ClientsLeaveServers, StillMoves
  <2>4. CASE UNCHANGED vars
    BY <1>0, <2>4, StillMoves DEF vars, serverVars
  <2> QED BY <2>1, <2>2, <2>3, <2>4 DEF Next, UserStep, Programs
<1>3. Filed'
  BY <1>0, <1>2, MovesKeepFiled
<1>4. Moves => [Box!Next]_(Box!vars)
  BY DEF Moves, Box!Next
<1>5. (\E u \in Users, m \in Mails : Box!Accept(u, m)) => [Box!Next]_(Box!vars)
  BY DEF Box!Next
<1> QED BY <1>0, <1>1, <1>2, <1>3, <1>4, <1>5 DEF BoxInv

LEMMA BoxStart == Guarded /\ Init => BoxInv /\ Box!Init
<1> SUFFICES ASSUME Guarded, Init PROVE BoxInv /\ Box!Init
  OBVIOUS
<1>1. /\ \A k \in Children : child[k].at = "free" /\ child[k].text = {} /\ child[k].deleted = {}
      /\ mailbox = [u \in Users |-> {m \in Old : To[m] = u}]
      /\ accepted = Old /\ removed = {} /\ lost = {}
  BY DEF Init, IDLE
<1>2. pending = [u \in Users |-> {}] /\ marked = [u \in Users |-> {}]
  BY <1>1 DEF pending, marked
<1>3. box = [u \in Users |-> {m \in Old : To[m] = u}]
  BY <1>1 DEF box, Rewriting
<1>4. Box!Init
  BY <1>1, <1>2, <1>3 DEF Box!Init, Box!None
<1>5. Filed
  BY <1>1, <1>2, <1>3 DEF Filed
<1>6. TidyOK
  BY <1>1 DEF TidyOK, Tidy
<1> QED BY <1>4, <1>5, <1>6, InitSession, InitMail, FreshInit DEF BoxInv

\* What is in a mailbox file, or in the hands of a process that will write it
\* there, is seen.
LEMMA FiledIsSafe ==
  ASSUME BoxInv
  PROVE  DeletedStaysDeleted
<1>1. ASSUME NEW m \in removed, NEW u \in Users, u = To[m], m \in mailbox[u] PROVE FALSE
  <2>1. m \notin box[u]
    BY <1>1 DEF BoxInv, Filed
  <2>2. PICK k \in Children : k \in Rewriting(u)
    <3>1. box[u] = IF Rewriting(u) = {} THEN mailbox[u] ELSE UNION {Kept(k) : k \in Rewriting(u)}
      BY <1>1 DEF box
    <3>2. Rewriting(u) # {}
      BY <1>1, <2>1, <3>1
    <3> QED BY <3>2 DEF Rewriting
  <2>3. child[k].user = u /\ child[k].at \in {"sign_off", "fclose"}
    BY <2>2 DEF Rewriting
  <2>4. mailbox[u] = {}
    BY <2>3 DEF BoxInv, MailInv, InOrder
  <2> QED BY <1>1, <2>4
<1>2. ASSUME NEW m \in removed, NEW k \in Children, child[k].user = To[m], m \in InHands(k) PROVE FALSE
  <2> DEFINE u == To[m]
  <2>1. u \in Users
    BY <1>2, SessionHoldsMailbox DEF BoxInv, SessionInv, MailInv, InOrder, InHands
  <2>2. m \notin pending[u] /\ m \notin box[u]
    BY <1>2, <2>1 DEF BoxInv, Filed
  <2>3. m \notin child[k].text
    BY <1>2, <2>1, <2>2 DEF pending
  <2>4. k \in Rewriting(u) /\ m \in Kept(k)
    BY <1>2, <2>3 DEF InHands, Rewriting
  <2>5. box[u] = UNION {Kept(j) : j \in Rewriting(u)}
    BY <2>1, <2>4 DEF box
  <2> QED BY <2>2, <2>4, <2>5
<1> QED BY <1>1, <1>2 DEF DeletedStaysDeleted, InMailbox, OnItsWay

-----------------------------------------------------------------------------
(* What mailclient reports as sent.                                        *)

Serving == SmtpPlaces \union {"exit", "free"}  \* where the process is that serves it

\* A client that waits for the answer to its text: the text is on the wire, or
\* the answer, and that is positive only if the mail is accepted.
Told(message, mail, known) ==
  /\ message.is = "command" => message.verb = "text" /\ message.mails = mail
  /\ message.is = "reply" /\ message.ok => mail \subseteq known

SentInv ==
  /\ sent \subseteq accepted
  /\ \A c \in Clients : client[c].at = "QUIT" => client[c].mail \subseteq accepted
  /\ \A c \in Clients : \A k \in Children : client[c].conn = {k} =>
       /\ client[c].at \in Posting => child[k].at \in Serving
       /\ client[c].at = "text" => Told(wire[k], client[c].mail, accepted)

\* What a step of a server process is to those who send it a mail.
Serves(k) ==
  /\ accepted \subseteq accepted'
  /\ child[k].at \in Serving => child'[k].at \in Serving
  /\ child[k].at \in Serving =>
       \A mail : Told(wire[k], mail, accepted) => Told(wire'[k], mail, accepted')

LEMMA AnswerTells ==
  ASSUME wire \in [Children -> Message], NEW k \in Children, NEW ok \in BOOLEAN, NEW mails, Answer(k, ok, mails)
  PROVE  wire'[k].is # "command" /\ (wire'[k].is = "reply" => wire'[k].ok = ok)
BY DEF Answer, Send, Reply, QUIET

LEMMA ServerServes ==
  ASSUME SessionInv, NEW k \in Children, ServerStep(k) \/ Kill(k)
  PROVE  Serves(k)
<1>0. ServerTypes /\ wire \in [Children -> Message]
  BY DEF SessionInv
<1>1. CASE TakeCommand(k)
  <2>1. accepted' = accepted /\ child[k].at \in {"HELO", "MAIL", "RCPT", "DATA"} /\ Asked(k)
    BY <1>0, <1>1, TakeCommandEffect DEF TakeCommand
  <2>2. child'[k].at \in Serving
    <3>1. AfterCommand[child[k].at] \in Serving /\ "exit" \in Serving
      BY <2>1 DEF AfterCommand, Serving, SmtpPlaces
    <3> QED BY <1>0, <1>1, <3>1, TakeCommandEffect DEF Becomes
  <2>3. /\ CommandOk(k) \in BOOLEAN /\ Answer(k, CommandOk(k), {})
        /\ CommandOk(k) => wire[k].verb = child[k].at
    BY <1>1 DEF TakeCommand, CommandOk
  <2>4. wire'[k].is # "command" /\ (wire'[k].is = "reply" => wire'[k].ok = CommandOk(k))
    BY <1>0, <2>3, AnswerTells
  <2> QED BY <2>1, <2>2, <2>3, <2>4 DEF Serves, Told, Asked
<1>2. CASE get_mail(k)
  <2>1. wire[k].ok \in BOOLEAN /\ Answer(k, wire[k].ok, {})
    BY <1>0, <1>2 DEF get_mail, Message
  <2>2. wire'[k].is # "command" /\ (wire'[k].is = "reply" => wire'[k].ok = wire[k].ok)
    BY <1>0, <2>1, AnswerTells
  <2>3. Asked(k) /\ accepted' = IF wire[k].ok THEN accepted \union wire[k].mails ELSE accepted
    BY <1>2 DEF get_mail
  <2>4. child'[k].at \in Serving
    BY <1>0, <1>2, GetMailEffect DEF Becomes, Serving, SmtpPlaces
  <2> QED BY <2>2, <2>3, <2>4 DEF Serves, Told, Asked
<1>3. CASE write_mail_to_inbox(k)
  <2>1. child'[k].at \in Serving
    BY <1>0, <1>3, WriteMailEffect DEF Becomes, Serving, SmtpPlaces
  <2> QED BY <1>3, <2>1 DEF Serves, write_mail_to_inbox
<1>4. CASE quit(k)
  <2>1. (wire[k].verb = "QUIT") \in BOOLEAN /\ Answer(k, wire[k].verb = "QUIT", {}) /\ Asked(k) /\ accepted' = accepted
    BY <1>4 DEF quit
  <2>2. wire'[k].is # "command" /\ (wire'[k].is = "reply" => wire'[k].ok = (wire[k].verb = "QUIT"))
    BY <1>0, <2>1, AnswerTells
  <2>3. child'[k].at \in Serving
    BY <1>0, <1>4, QuitSmtpEffect DEF Becomes, Serving
  <2> QED BY <2>1, <2>2, <2>3 DEF Serves, Told, Asked
<1>5. CASE PopStep(k)
  <2>1. accepted' = accepted
    BY <1>5 DEF PopStep, TakeUser, TakePass, get_inbox, Transaction, Quit, Truncate, SignOff, Fclose
  <2>2. child[k].at \in PopPlaces
    BY <1>5 DEF PopStep, TakeUser, TakePass, get_inbox, Transaction, Quit, Truncate, SignOff, Fclose, PopPlaces
  <2>3. child[k].at \notin Serving
    BY <2>2 DEF PopPlaces, Serving, SmtpPlaces
  <2> QED BY <2>1, <2>3 DEF Serves
<1>6. CASE exit(k) \/ Kill(k)
  <2>1. accepted' = accepted /\ child'[k].at = "free"
    BY <1>0, <1>6, ExitEffect, KillEffect DEF exit, Kill, Becomes
  <2>2. wire'[k] = wire[k] \/ wire'[k].is = "nothing"
    BY <1>0, <1>6 DEF exit, Kill, Send, QUIET
  <2> QED BY <2>1, <2>2 DEF Serves, Serving, Told
<1> QED BY <1>1, <1>2, <1>3, <1>4, <1>5, <1>6 DEF ServerStep, SmtpStep

LEMMA ServerKeepsSent ==
  ASSUME SessionInv, SentInv, NEW k \in Children, ServerStep(k) \/ Kill(k)
  PROVE  SentInv'
<1>1. Serves(k)
  BY ServerServes
<1>2. ServerEffect(k)
  BY ServerStepEffect DEF SessionInv
<1>3. /\ client' = client /\ sent' = sent
      /\ \A j \in Children \ {k} : child'[j] = child[j] /\ wire'[j] = wire[j]
  BY <1>2 DEF ServerEffect, clientVars
<1>4. ASSUME NEW c \in Clients, NEW j \in Children, client[c].conn = {j}
      PROVE  /\ client[c].at \in Posting => child'[j].at \in Serving
             /\ client[c].at = "text" => Told(wire'[j], client[c].mail, accepted')
  <2>1. /\ client[c].at \in Posting => child[j].at \in Serving
        /\ client[c].at = "text" => Told(wire[j], client[c].mail, accepted)
    BY <1>4 DEF SentInv
  <2>2. CASE j = k
    BY <1>1, <2>1, <2>2 DEF Serves, Posting, SmtpPlaces
  <2>3. CASE j # k
    BY <1>1, <1>3, <2>1, <2>3 DEF Serves, Told
  <2> QED BY <2>2, <2>3
<1> QED BY <1>1, <1>3, <1>4 DEF SentInv, Serves

\* A step of client c on its connection k: no other mailclient is there.
LEMMA ClientKeepsSent ==
  ASSUME SessionInv, SentInv, NEW c \in Programs, NEW k \in Children, client[c].conn = {k},
         UNCHANGED serverVars, sent' \subseteq accepted,
         \A d \in Programs \ {c} : client'[d] = client[d],
         \A j \in Children \ {k} : wire'[j] = wire[j],
         c \in Clients /\ client'[c].at \in Posting =>
           /\ client[c].at \in Posting /\ client'[c].conn = {k}
           /\ client'[c].at = "text" => Told(wire'[k], client'[c].mail, accepted)
           /\ client'[c].at = "QUIT" => client'[c].mail \subseteq accepted
  PROVE  SentInv'
<1>1. child' = child /\ accepted' = accepted
  BY DEF serverVars
<1>2. ASSUME NEW d \in Clients \ {c}, NEW j \in Children, client[d].conn = {j} PROVE j # k
  BY <1>2, ClientsDiffer DEF SessionInv, Session, OneClient
<1>3. ASSUME NEW d \in Clients
      PROVE  /\ client'[d].at = "QUIT" => client'[d].mail \subseteq accepted
             /\ \A j \in Children : client'[d].conn = {j} =>
                  /\ client'[d].at \in Posting => child[j].at \in Serving
                  /\ client'[d].at = "text" => Told(wire'[j], client'[d].mail, accepted)
  <2>1. CASE d = c
    <3>1. client[c].at \in Posting => child[k].at \in Serving
      BY <2>1 DEF SentInv
    <3> QED BY <2>1, <3>1 DEF Posting, SmtpPlaces
  <2>2. CASE d # c
    <3>1. client'[d] = client[d]
      BY <2>2, ClientsDiffer
    <3> QED BY <1>2, <2>2, <3>1 DEF SentInv
  <2> QED BY <2>1, <2>2
<1> QED BY <1>1, <1>3 DEF SentInv

LEMMA MuteKeepsSent ==
  ASSUME SessionInv, SentInv, NEW c \in Programs, NEW k \in Children, client[c].conn = {k},
         Mute(c, k), sent' \subseteq accepted
  PROVE  SentInv'
BY ClientKeepsSent DEF Mute

LEMMA ComposeKeepsSent ==
  ASSUME SessionInv, SentInv, NEW c \in Clients, NEW k \in Children, Compose(c, k)
  PROVE  SentInv'
<1>0. /\ c \in Programs /\ client[c].conn = {k} /\ client[c].at = "greeting"
      /\ client \in [Programs -> Program] /\ wire \in [Children -> Message] /\ sent \subseteq accepted
  BY ClientsDiffer DEF Compose, Heard, SessionInv, ClientTypes, SentInv
<1>1. CASE Close(c, k) /\ UNCHANGED sent
  BY <1>0, <1>1, CloseIsMute, MuteKeepsSent
<1>2. ASSUME NEW m \in Mails, Send(k, Right("HELO", NOBODY, {})), UNCHANGED <<connected, sent>>, UNCHANGED serverVars,
             client' = [client EXCEPT ![c].at = "HELO", ![c].mail = {m}]
      PROVE  SentInv'
  <2>1. /\ client'[c].at = "HELO" /\ client'[c].conn = {k}
        /\ \A d \in Programs \ {c} : client'[d] = client[d]
        /\ \A j \in Children \ {k} : wire'[j] = wire[j]
    BY <1>0, <1>2 DEF Send, Program
  <2>2. client[c].at \in Posting /\ sent' \subseteq accepted
    BY <1>0, <1>2 DEF Posting
  <2> QED BY <1>0, <1>2, <2>1, <2>2, ClientKeepsSent
<1> QED BY <1>1, <1>2 DEF Compose

LEMMA SendMailKeepsSent ==
  ASSUME SessionInv, SentInv, NEW c \in Clients, NEW k \in Children, send_mail(c, k)
  PROVE  SentInv'
<1>0. /\ c \in Programs /\ client[c].conn = {k} /\ client[c].at \in SmtpPlaces \ {"write", "QUIT"} /\ Answered(k)
      /\ client \in [Programs -> Program] /\ wire \in [Children -> Message] /\ sent \subseteq accepted
  BY ClientsDiffer DEF send_mail, Heard, SessionInv, ClientTypes, SentInv
<1>1. CASE Close(c, k) /\ UNCHANGED sent
  BY <1>0, <1>1, CloseIsMute, MuteKeepsSent
<1>2. CASE wire[k].ok
  <2> DEFINE mail == client[c].mail
             command == NextCommand(client[c].at, mail)
  <2>1. Say(c, k, command.verb, command) /\ client[c].at \in {"HELO", "MAIL", "RCPT", "DATA", "text"}
    BY <1>0, <1>2 DEF send_mail, SmtpPlaces
  <2>2. /\ command.verb \in {"MAIL", "RCPT", "DATA", "text", "QUIT"}
        /\ command.verb = "text" => command.is = "command" /\ command.mails = mail
        /\ command.verb = "QUIT" => client[c].at = "text"
    BY <2>1 DEF NextCommand, Right, Command
  <2>3. client[c].at = "text" => mail \subseteq accepted
    BY <1>0, <1>2 DEF SentInv, Told, Answered
  <2> HIDE DEF mail, command
  <2>4. /\ client' = [client EXCEPT ![c].at = command.verb,
                                    ![c].mail = IF command.verb \in {"LIST", "prompt"} THEN {} ELSE @]
        /\ wire' = [wire EXCEPT ![k] = command] /\ UNCHANGED sent /\ UNCHANGED serverVars
    BY <2>1 DEF Say, Send
  <2>5. /\ client'[c].at = command.verb /\ client'[c].conn = {k} /\ client'[c].mail = mail
        /\ \A d \in Programs \ {c} : client'[d] = client[d]
        /\ wire'[k] = command /\ \A j \in Children \ {k} : wire'[j] = wire[j]
    BY <1>0, <2>2, <2>4 DEF Program, mail
  <2>6. client'[c].at = "text" => Told(wire'[k], client'[c].mail, accepted)
    BY <2>2, <2>5 DEF Told
  <2>7. client'[c].at = "QUIT" => client'[c].mail \subseteq accepted
    BY <2>2, <2>3, <2>5
  <2>8. client[c].at \in Posting /\ sent' \subseteq accepted
    BY <1>0, <2>4 DEF Posting
  <2> QED BY <1>0, <2>4, <2>5, <2>6, <2>7, <2>8, ClientKeepsSent
<1> QED BY <1>1, <1>2 DEF send_mail

LEMMA SentKeepsSent ==
  ASSUME SessionInv, SentInv, NEW c \in Clients, NEW k \in Children, Sent(c, k)
  PROVE  SentInv'
<1>0. c \in Programs /\ client[c].conn = {k} /\ client[c].at = "QUIT"
  BY ClientsDiffer DEF Sent, Heard
<1>1. sent' \subseteq accepted
  BY <1>0 DEF Sent, SentInv
<1> QED BY <1>0, <1>1, CloseIsMute, MuteKeepsSent DEF Sent

\* The steps of clients and programs that send no mail.
LEMMA OthersKeepSent ==
  ASSUME SessionInv, SentInv, NEW k \in Children,
         \/ \E c \in Clients : Prompt(c, k) \/ manage_mail(c, k) \/ Hangup(c, k)
         \/ \E c \in Others : OtherStep(c, k)
         \/ \E c \in Programs : Leave(c, k)
  PROVE  SentInv'
<1>0. sent \subseteq accepted /\ client \in [Programs -> Program] /\ wire \in [Children -> Message]
  BY DEF SentInv, SessionInv, ClientTypes
<1>1. ASSUME NEW c \in Clients, Prompt(c, k) \/ manage_mail(c, k) PROVE SentInv'
  <2>1. client[c].conn = {k} /\ sent' = sent
    BY <1>1 DEF Prompt, manage_mail, authenticate, display_inbox, display_email, Rows, Say, Heard
  <2> QED BY <1>0, <1>1, <2>1, ClientsDiffer, PromptIsMute, ManageMailIsMute, MuteKeepsSent
<1>2. ASSUME NEW c \in Programs, Hangup(c, k) \/ Leave(c, k) PROVE SentInv'
  BY <1>0, <1>2, CloseIsMute, MuteKeepsSent DEF Hangup, Leave
<1>3. ASSUME NEW c \in Others, OtherStep(c, k) PROVE SentInv'
  <2>0. c \in Programs /\ c \notin Clients /\ client[c].conn = {k}
    BY <1>3, MailAssumption DEF Programs, OtherStep
  <2>1. ASSUME NEW message, Say(c, k, "other", message) PROVE SentInv'
    <3>1. /\ client' = [client EXCEPT ![c].at = "other", ![c].mail = IF "other" \in {"LIST", "prompt"} THEN {} ELSE @]
          /\ wire' = [wire EXCEPT ![k] = message] /\ UNCHANGED sent /\ UNCHANGED serverVars
      BY <2>1 DEF Say, Send
    <3>2. /\ \A d \in Programs \ {c} : client'[d] = client[d]
          /\ \A j \in Children \ {k} : wire'[j] = wire[j]
      BY <1>0, <3>1
    <3> QED BY <1>0, <2>0, <3>1, <3>2, ClientKeepsSent
  <2>2. \E message : Say(c, k, "other", message)
    BY <1>3 DEF OtherStep, Ask, Do
  <2> QED BY <2>1, <2>2
<1> QED BY <1>1, <1>2, <1>3, ClientsDiffer

LEMMA ConnectKeepsSent ==
  ASSUME SessionInv, SentInv, NEW c \in Programs, NEW k \in Children,
         \/ Connect(c, k, "HELO", "greeting") \/ Connect(c, k, "USER", "hello")
         \/ Connect(c, k, "HELO", "other") \/ Connect(c, k, "USER", "other")
  PROVE  SentInv'
<1>1. PICK first \in {"HELO", "USER"}, at \in {"greeting", "hello", "other"} :
        Connect(c, k, first, at) /\ (at = "greeting" => first = "HELO")
  OBVIOUS
<1>2. /\ ~connected[k] /\ Becomes(k, first, NOBODY, {}, {}, {}, {})
      /\ client'[c].at = at /\ client'[c].conn = {k}
      /\ \A d \in Programs \ {c} : client'[d] = client[d]
      /\ \A j \in Children \ {k} : wire'[j] = wire[j]
      /\ UNCHANGED <<mailbox, accepted, sent, removed, lost>>
  BY <1>1, ConnectEffect DEF SessionInv
<1>3. \A d \in Programs : client[d].conn # {k}
  BY <1>2 DEF SessionInv, Session, OneClient
<1>4. child'[k].at = first /\ \A j \in Children \ {k} : child'[j] = child[j]
  BY <1>2 DEF Becomes
<1>5. ASSUME NEW d \in Clients
      PROVE  /\ client'[d].at = "QUIT" => client'[d].mail \subseteq accepted
             /\ \A j \in Children : client'[d].conn = {j} =>
                  /\ client'[d].at \in Posting => child'[j].at \in Serving
                  /\ client'[d].at = "text" => Told(wire'[j], client'[d].mail, accepted)
  <2>1. CASE d = c
    BY <1>1, <1>2, <1>4, <2>1 DEF Posting, Serving, SmtpPlaces
  <2>2. CASE d # c
    <3>1. client'[d] = client[d]
      BY <1>2, <2>2, ClientsDiffer
    <3>2. \A j \in Children : client[d].conn = {j} => j # k
      BY <1>3, ClientsDiffer
    <3> QED BY <1>2, <1>4, <3>1, <3>2 DEF SentInv
  <2> QED BY <2>1, <2>2
<1> QED BY <1>2, <1>5 DEF SentInv

LEMMA SentNext == SessionInv /\ SentInv /\ [Next]_vars => SentInv'
<1> SUFFICES ASSUME SessionInv, SentInv, [Next]_vars PROVE SentInv'
  OBVIOUS
<1>1. CASE UNCHANGED vars
  BY <1>1 DEF vars, SentInv, Told
<1>2. ASSUME NEW c \in Clients, NEW k \in Children, Compose(c, k) \/ ClientStep(c, k) PROVE SentInv'
  BY <1>2, ComposeKeepsSent, SendMailKeepsSent, SentKeepsSent, OthersKeepSent DEF ClientStep
<1>3. CASE Next
  BY <1>2, <1>3, ClientsDiffer, ServerKeepsSent, OthersKeepSent, ConnectKeepsSent DEF Next, UserStep, Programs
<1> QED BY <1>1, <1>3

LEMMA SentInit == Init => SentInv
<1> SUFFICES ASSUME Init PROVE SentInv
  OBVIOUS
<1>1. sent = {} /\ \A c \in Clients : client[c].at = "menu"
  BY DEF Init
<1> QED BY <1>1 DEF SentInv, Posting, SmtpPlaces

-----------------------------------------------------------------------------
(* The theorems.                                                           *)

\* A mail that a session deleted that ended with QUIT does not come back,
\* neither from the copy that a session writes back nor from the buffer of a
\* process - provided that the server processes do not overlap in a mailbox,
\* which the code does not see to.
THEOREM DeletedStays == Guarded => (Spec => []DeletedStaysDeleted)
<1> SUFFICES ASSUME Guarded PROVE Spec => []DeletedStaysDeleted
  OBVIOUS
<1>1. Init => BoxInv
  BY BoxStart
<1>2. BoxInv /\ [Next]_vars => BoxInv'
  BY BoxNext
<1>3. BoxInv => DeletedStaysDeleted
  BY FiledIsSafe
<1> QED BY <1>1, <1>2, <1>3, PTL DEF Spec

\* Under the same condition the servers implement Mailbox: every mail goes
\* from being accepted into its mailbox, and out of it by a deletion that was
\* marked and carried out, or by a loss on record, once and in that order.
THEOREM MailboxRefined == Guarded => (Spec => ImplementsMailbox)
<1> SUFFICES ASSUME Guarded PROVE Spec => ImplementsMailbox
  OBVIOUS
<1>1. Init => BoxInv /\ Box!Init
  BY BoxStart
<1>2. BoxInv /\ [Next]_vars => BoxInv' /\ [Box!Next]_(Box!vars)
  BY BoxNext
<1> QED BY <1>1, <1>2, PTL DEF Spec, ImplementsMailbox, Box!Spec

\* mailclient tells its user that a mail is sent only if the SMTP server has
\* accepted it, whatever goes wrong, and with however many processes at work on
\* a mailbox: no reply to another command is taken for the one to the text.
THEOREM SentIsAccepted == Spec => [](sent \subseteq accepted)
<1>1. Init => SentInv
  BY SentInit
<1>2. SessionInv /\ SentInv /\ [Next]_vars => SentInv'
  BY SentNext
<1>3. SentInv => sent \subseteq accepted
  BY DEF SentInv
<1> QED BY <1>1, <1>2, <1>3, SessionHolds, PTL DEF Spec

\* From the user of mailclient to the mailbox: a mail that was reported as sent
\* is never gone without a trace, if the server processes do not overlap in a
\* mailbox.  The run mail_overlap shows that it can be gone if they do.
THEOREM SentSafety == Guarded => (Spec => []SentNotLost)
<1> SUFFICES ASSUME Guarded PROVE Spec => []SentNotLost
  OBVIOUS
<1>1. Spec => []NoMailLost
  BY MailSafety
<1>2. NoMailLost /\ sent \subseteq accepted => SentNotLost
  BY DEF NoMailLost, SentNotLost
<1> QED BY <1>1, <1>2, SentIsAccepted, PTL
=============================================================================
