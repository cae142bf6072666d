----------------------------- MODULE PopServer -----------------------------
(***************************************************************************)
(* popserver.c: a process for every connection.  AUTHORIZATION takes USER  *)
(* and PASS; TRANSACTION works on a copy of the mailbox that was read once *)
(* at its beginning; UPDATE empties the file and writes the copy back,     *)
(* without the mails that were deleted.  The file reaches its new contents *)
(* with fclose, after the client has its reply.                            *)
(***************************************************************************)
EXTENDS MailState

\* -ERR ends the process.
TakeUser(k) ==
  LET valid == wire[k].verb = "USER" /\ wire[k].user \in Users
  IN  /\ child[k].at = "USER"
      /\ Asked(k)
      /\ Answer(k, valid, {})
      /\ IF valid THEN child' = [child EXCEPT ![k].at = "PASS", ![k].user = wire[k].user] ELSE Finish(k)
      /\ UNCHANGED <<mailbox, accepted, removed, lost>>
      /\ UNCHANGED clientVars

\* The password is right and the mailbox can be opened, or -ERR; a mailbox
\* that nothing was delivered to may have no file yet.
TakePass(k) ==
  /\ child[k].at = "PASS"
  /\ Asked(k)
  /\ \/ /\ wire[k].verb = "PASS"
        /\ wire[k].ok
        /\ MayHold(k, child[k].user)
        /\ Answer(k, TRUE, {})
        /\ Goto(k, "get_inbox")
     \/ /\ Answer(k, FALSE, {})
        /\ \/ wire[k].verb # "PASS" \/ ~wire[k].ok
           \/ mailbox[child[k].user] = {}
           \/ "open" \in Faults
        /\ Finish(k)
  /\ UNCHANGED <<mailbox, accepted, removed, lost>>
  /\ UNCHANGED clientVars

\* The first mail is appended to a buffer that nobody has emptied: what is in
\* it goes before that mail, which then does not begin with "From:".
Spoilt(inbox) == IF "stack" \in Faults THEN {{}} \union {{m} : m \in inbox} ELSE {{}}

get_inbox(k) ==
  /\ child[k].at = "get_inbox"
  /\ \E S \in Spoilt(mailbox[child[k].user]) :
       child' = [child EXCEPT ![k].at = "TRANSACTION",
                              ![k].inbox = mailbox[child[k].user], ![k].spoilt = S]
  /\ UNCHANGED <<wire, mailbox, accepted, removed, lost>>
  /\ UNCHANGED clientVars

\* The mails that a command can name.
Listed(k) == Kept(k)

\* Any command but QUIT; one that is not known is answered with -ERR.
Transaction(k) ==
  LET verb == wire[k].verb
      named == wire[k].mails # {} /\ wire[k].mails \subseteq Listed(k)
  IN  /\ child[k].at = "TRANSACTION"
      /\ Asked(k)
      /\ verb # "QUIT"
      /\ Answer(k, verb \in {"STAT", "RSET"} \/ (verb = "LIST" /\ wire[k].mails = {})
                   \/ (verb \in {"LIST", "RETR", "DELE"} /\ named),
                CASE verb = "LIST" /\ wire[k].mails = {} -> Listed(k)
                  [] verb = "RETR" /\ named -> wire[k].mails
                  [] OTHER -> {})
      /\ child' = [child EXCEPT
           ![k].deleted = CASE verb = "DELE" /\ named -> child[k].deleted \union wire[k].mails
                            [] verb = "RSET" -> {}
                            [] OTHER -> child[k].deleted]
      /\ UNCHANGED <<mailbox, accepted, removed, lost>>
      /\ UNCHANGED clientVars

Quit(k) ==
  /\ child[k].at = "TRANSACTION"
  /\ Asked(k)
  /\ wire[k].verb = "QUIT"
  /\ Send(k, QUIET)
  /\ Goto(k, "UPDATE")
  /\ UNCHANGED <<mailbox, accepted, removed, lost>>
  /\ UNCHANGED clientVars

\* fseek() and ftruncate(); when one fails, -ERR and the file is as it was.
Truncate(k) ==
  /\ child[k].at = "UPDATE"
  /\ \/ /\ Goto(k, "sign_off")
        /\ mailbox' = [mailbox EXCEPT ![child[k].user] = {}]
        /\ removed' = removed \union child[k].deleted
        /\ UNCHANGED wire
     \/ /\ Finish(k)
        /\ Answer(k, FALSE, {})
        /\ UNCHANGED <<mailbox, removed>>
  /\ UNCHANGED <<accepted, lost>>
  /\ UNCHANGED clientVars

SignOff(k) ==
  /\ child[k].at = "sign_off"
  /\ Answer(k, TRUE, {})
  /\ Goto(k, "fclose")
  /\ UNCHANGED <<mailbox, accepted, removed, lost>>
  /\ UNCHANGED clientVars

\* Mutant of Written: the deleted mails are written back too.
WrittenAll(k) == child[k].inbox \ child[k].spoilt
\* A mail that does not begin with "From:" is not a mail to those who read
\* the file.
Written(k) == Kept(k) \ child[k].spoilt

\* The text is written from the start of the file over what is there, if
\* others have written since: any part of that may be left.
Fclose(k) ==
  LET u == child[k].user
  IN  /\ child[k].at = "fclose"
      /\ \E rest \in SUBSET mailbox[u] :
           /\ Kept(k) = {} => rest = mailbox[u]
           /\ mailbox' = [mailbox EXCEPT ![u] = Written(k) \union rest]
      /\ Finish(k)
      /\ UNCHANGED <<wire, accepted, removed, lost>>
      /\ UNCHANGED clientVars

PopStep(k) == \/ TakeUser(k) \/ TakePass(k) \/ get_inbox(k)
              \/ Transaction(k) \/ Quit(k)
              \/ Truncate(k) \/ SignOff(k) \/ Fclose(k)
=============================================================================
