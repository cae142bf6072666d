----------------------------- MODULE SmtpServer -----------------------------
(***************************************************************************)
(* smtpmail.c: a process for every connection takes the commands HELO,     *)
(* MAIL, RCPT, DATA, the text of the mail, and QUIT, in that order; any    *)
(* other command ends it.  The mail is accepted before it is written.      *)
(***************************************************************************)
EXTENDS MailState

\* The place, and the command expected there, after a command that is right.
AfterCommand == [HELO |-> "MAIL", MAIL |-> "RCPT", RCPT |-> "DATA", DATA |-> "text"]

\* Mutant of CommandOk: the recipient is not looked up.
CommandOkUnchecked(k) ==
  /\ wire[k].verb = child[k].at
  /\ wire[k].ok
\* 250 and 354, not 500 and not 550, which a recipient gets who is no user.
CommandOk(k) ==
  /\ wire[k].verb = child[k].at
  /\ wire[k].ok
  /\ child[k].at = "RCPT" => wire[k].user \in Users

TakeCommand(k) ==
  /\ child[k].at \in DOMAIN AfterCommand
  /\ Asked(k)
  /\ Answer(k, CommandOk(k), {})
  /\ IF CommandOk(k)
       THEN child' = [child EXCEPT
              ![k].at = AfterCommand[child[k].at],
              ![k].user = IF child[k].at = "RCPT" THEN wire[k].user ELSE child[k].user]
       ELSE Finish(k)
  /\ UNCHANGED <<mailbox, accepted, removed, lost>>
  /\ UNCHANGED clientVars

\* The server reads until a text has its end, or has filled the buffer without
\* one, which is answered with 554.
get_mail(k) ==
  /\ child[k].at = "text"
  /\ Asked(k)
  /\ wire[k].verb = "text"
  /\ Answer(k, wire[k].ok, {})
  /\ IF wire[k].ok
       THEN /\ MayHold(k, child[k].user)
            /\ child' = [child EXCEPT ![k].at = "write", ![k].text = wire[k].mails]
            /\ accepted' = accepted \union wire[k].mails
       ELSE /\ Finish(k)
            /\ UNCHANGED accepted
  /\ UNCHANGED <<mailbox, removed, lost>>
  /\ UNCHANGED clientVars

\* Mutant of write_mail_to_inbox: nothing is put into the buffer.
write_mail_to_nowhere(k) ==
  /\ child[k].at = "write"
  /\ child' = [child EXCEPT ![k].at = "QUIT", ![k].text = {}]
  /\ UNCHANGED <<wire, mailbox, accepted, removed, lost>>
  /\ UNCHANGED clientVars
\* The file is opened for appending, and not closed: a mail stays in stdio's
\* buffer until the process ends.  If it cannot be opened, the mail is gone.
write_mail_to_inbox(k) ==
  /\ child[k].at = "write"
  /\ \E written \in IF "open" \in Faults THEN BOOLEAN ELSE {TRUE} :
       child' = [child EXCEPT ![k].at = "QUIT",
                              ![k].text = IF written THEN child[k].text ELSE {}]
  /\ UNCHANGED <<wire, mailbox, accepted, removed, lost>>
  /\ UNCHANGED clientVars

\* 221 or 500: the process is done either way.
quit(k) ==
  /\ child[k].at = "QUIT"
  /\ Asked(k)
  /\ Answer(k, wire[k].verb = "QUIT", {})
  /\ Goto(k, "exit")
  /\ UNCHANGED <<mailbox, accepted, removed, lost>>
  /\ UNCHANGED clientVars

SmtpStep(k) == TakeCommand(k) \/ get_mail(k) \/ write_mail_to_inbox(k) \/ quit(k)
=============================================================================
