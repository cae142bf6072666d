-------------------------------- MODULE Mail --------------------------------
(***************************************************************************)
(* The mail system: the SMTP server, the POP3 server and their clients     *)
(* over the same mailbox files.                                            *)
(***************************************************************************)
EXTENDS SmtpServer, PopServer, MailClient

ServerStep(k) == SmtpStep(k) \/ PopStep(k) \/ exit(k)

UserStep(c, k) ==
  \/ Connect(c, k, "HELO", "greeting")
  \/ Connect(c, k, "USER", "hello")
  \/ Compose(c, k)
  \/ Prompt(c, k)

Next == \E k \in Children :
          \/ ServerStep(k)
          \/ Kill(k)
          \/ \E c \in Clients : UserStep(c, k) \/ ClientStep(c, k)
          \/ \E c \in Others : \/ Connect(c, k, "HELO", "other")
                               \/ Connect(c, k, "USER", "other")
                               \/ OtherStep(c, k)
          \/ \E c \in Clients \union Others : Leave(c, k)

Spec == Init /\ [][Next]_vars

\* Server processes that can go on do, and so does a mailclient that does not
\* wait for its user.
FairSpec == /\ Spec
            /\ \A k \in Children : WF_vars(ServerStep(k))
            /\ \A c \in Clients : WF_vars(\E k \in Children : ClientStep(c, k))
-----------------------------------------------------------------------------
(* Properties.                                                             *)

Message == [is : {"nothing", "command", "reply"}, verb : SmtpVerbs \union PopVerbs \union {"reply"},
            user : Users \union {NOBODY}, mails : SUBSET Mails, ok : BOOLEAN]
Process == [at : SmtpPlaces \union PopPlaces \union {"free", "exit"}, user : Users \union {NOBODY},
            text : SUBSET Mails, inbox : SUBSET Mails, deleted : SUBSET Mails, spoilt : SUBSET Mails]
Program == [at : SmtpPlaces \union PopPlaces \union
                 {"menu", "greeting", "hello", "LIST", "row", "prompt", "mail", "DELE",
                  "signing_off", "other"},
            conn : SUBSET Children, mail : SUBSET Mails, rows : SUBSET Mails]

HasUser == {"DATA", "text", "write"} \union (PopPlaces \ {"USER"})

\* Types.  A process that is past the place where it learns its user has one.
TypeOK ==
  /\ child \in [Children -> Process]
  /\ \A k \in Children : child[k].at \in HasUser => child[k].user \in Users
  /\ connected \in [Children -> BOOLEAN]
  /\ wire \in [Children -> Message]
  /\ mailbox \in [Users -> SUBSET Mails]
  /\ client \in [Clients \union Others -> Program]
  /\ accepted \in SUBSET Mails
  /\ sent \in SUBSET Mails
  /\ removed \in SUBSET Mails
  /\ lost \in SUBSET Mails

\* A mail is where it should be: in the mailbox file of the user it is
\* addressed to, or in the hands of a server process that will write it there.
InMailbox(m) == \E u \in Users : u = To[m] /\ m \in mailbox[u]
OnItsWay(m) == \E k \in Children : child[k].user = To[m] /\ m \in InHands(k)

\* A mail that was accepted for delivery is in its mailbox or on its way there;
\* it is gone only if its user deleted it, or if a process was killed that had
\* it in its hands.
NoMailLost == \A m \in accepted : InMailbox(m) \/ OnItsWay(m) \/ m \in removed \/ m \in lost

\* In particular, a mail that mailclient has reported as sent successfully is
\* never gone without a trace.
SentNotLost == \A m \in sent : InMailbox(m) \/ OnItsWay(m) \/ m \in removed \/ m \in lost

\* A mail that was deleted by a session that ended with QUIT does not come
\* back: not from the copy of a session, and not from a buffer.
DeletedStaysDeleted == \A m \in removed : ~InMailbox(m) /\ ~OnItsWay(m)

\* A mail that mailclient has reported as sent is in the mailbox in the end.
SentIsStored == \A m \in Mails : m \in sent ~> InMailbox(m) \/ m \in removed \union lost

\* A server process whose client is gone ends, when it has answered what there
\* is to answer, and does not wait forever.
OrphansEnd == \A k \in Children : (~connected[k] /\ ~Asked(k)) ~> child[k].at = "free"

\* The mail system as Mailbox sees it: deletions are carried out when the file
\* is truncated, from when on the mailbox is what the session will write.
Rewriting(u) == {k \in Children : child[k].user = u /\ child[k].at \in {"sign_off", "fclose"}}
pending == [u \in Users |-> UNION {child[k].text : k \in {j \in Children : child[j].user = u}}]
box == [u \in Users |-> IF Rewriting(u) = {} THEN mailbox[u] ELSE UNION {Kept(k) : k \in Rewriting(u)}]
marked == [u \in Users |-> UNION {child[k].deleted : k \in
             {j \in Children : child[j].user = u /\ child[j].at \in {"TRANSACTION", "UPDATE"}}}]

Box == INSTANCE Mailbox WITH First <- [u \in Users |-> {m \in Old : To[m] = u}]

\* While one process at a time has a mailbox in its hands, every mailbox is
\* what was delivered to it and not deleted by a session that ended with QUIT.
ImplementsMailbox == Box!Spec
=============================================================================
