----------------------------- MODULE MailProofs -----------------------------
(* Theorems about Mail, for any number of clients, server processes, users *)
(* and mails.                                                              *)
EXTENDS Mail, TLAPS

-----------------------------------------------------------------------------
(* Messages and processes.                                                 *)

Places == SmtpPlaces \union PopPlaces \union {"free", "exit"}
Verbs == SmtpVerbs \union PopVerbs \union {"reply"}

LEMMA CommandType ==
  ASSUME NEW verb \in Verbs, NEW user \in Users \union {NOBODY},
         NEW mails \in SUBSET Mails, NEW ok \in BOOLEAN
  PROVE  /\ Command(verb, user, mails, ok) \in Message
         /\ Command(verb, user, mails, ok).is = "command"
         /\ Command(verb, user, mails, ok).verb = verb
         /\ Command(verb, user, mails, ok).user = user
         /\ Command(verb, user, mails, ok).mails = mails
BY DEF Command, Message, Verbs

LEMMA RightCommandType ==
  ASSUME NEW verb \in Verbs, NEW user \in Users \union {NOBODY}, NEW mails \in SUBSET Mails
  PROVE  /\ Right(verb, user, mails) \in Message
         /\ Right(verb, user, mails).is = "command"
         /\ Right(verb, user, mails).verb = verb
         /\ Right(verb, user, mails).user = user
         /\ Right(verb, user, mails).mails = mails
BY DEF Right, Command, Message, Verbs

LEMMA ReplyType ==
  ASSUME NEW mails \in SUBSET Mails, NEW ok \in BOOLEAN
  PROVE  Reply(ok, mails) \in Message /\ Reply(ok, mails).is = "reply"
BY DEF Reply, Message

LEMMA QuietType == QUIET \in Message /\ QUIET.is = "nothing"
BY DEF QUIET, Message

LEMMA SendEffect ==
  ASSUME wire \in [Children -> Message], NEW k \in Children, NEW message \in Message, Send(k, message)
  PROVE  /\ wire' \in [Children -> Message]
         /\ wire'[k] = message
         /\ \A j \in Children \ {k} : wire'[j] = wire[j]
BY DEF Send

\* An answer is not a command.
LEMMA AnswerEffect ==
  ASSUME wire \in [Children -> Message], NEW k \in Children,
         NEW mails \in SUBSET Mails, NEW ok \in BOOLEAN, Answer(k, ok, mails)
  PROVE  /\ wire' \in [Children -> Message]
         /\ wire'[k].is # "command"
         /\ \A j \in Children \ {k} : wire'[j] = wire[j]
<1> DEFINE message == IF connected[k] THEN Reply(ok, mails) ELSE QUIET
<1>1. message \in Message /\ message.is # "command"
  BY ReplyType, QuietType
<1>2. Send(k, message)
  BY DEF Answer
<1> HIDE DEF message
<1> QED BY <1>1, <1>2, SendEffect

\* What becomes of process k: the other processes stay as they are.
Becomes(k, at, user, text, inbox, deleted, spoilt) ==
  /\ child' \in [Children -> Process]
  /\ child'[k].at = at
  /\ child'[k].user = user
  /\ child'[k].text = text
  /\ child'[k].inbox = inbox
  /\ child'[k].deleted = deleted
  /\ child'[k].spoilt = spoilt
  /\ \A j \in Children \ {k} : child'[j] = child[j]

\* A new value for a process.
LEMMA ChildEffect ==
  ASSUME child \in [Children -> Process], NEW k \in Children, NEW p \in Process,
         child' = [child EXCEPT ![k] = p]
  PROVE  Becomes(k, p.at, p.user, p.text, p.inbox, p.deleted, p.spoilt)
BY DEF Becomes

LEMMA IdleType ==
  /\ IDLE \in Process
  /\ [IDLE EXCEPT !.at = "exit"] \in Process
BY DEF IDLE, Process

LEMMA IdleEffect ==
  ASSUME child \in [Children -> Process], NEW k \in Children, child' = [child EXCEPT ![k] = IDLE]
  PROVE  Becomes(k, "free", NOBODY, {}, {}, {}, {})
BY ChildEffect, IdleType DEF IDLE

LEMMA FinishEffect ==
  ASSUME child \in [Children -> Process], NEW k \in Children, Finish(k)
  PROVE  Becomes(k, "exit", NOBODY, {}, {}, {}, {})
<1>1. child' = [child EXCEPT ![k] = [IDLE EXCEPT !.at = "exit"]]
  BY DEF Finish
<1>2. Becomes(k, [IDLE EXCEPT !.at = "exit"].at, [IDLE EXCEPT !.at = "exit"].user,
              [IDLE EXCEPT !.at = "exit"].text, [IDLE EXCEPT !.at = "exit"].inbox,
              [IDLE EXCEPT !.at = "exit"].deleted, [IDLE EXCEPT !.at = "exit"].spoilt)
  BY <1>1, ChildEffect, IdleType
<1> QED BY <1>2 DEF IDLE

LEMMA GotoEffect ==
  ASSUME child \in [Children -> Process], NEW k \in Children, NEW l \in Places, Goto(k, l)
  PROVE  Becomes(k, l, child[k].user, child[k].text, child[k].inbox, child[k].deleted, child[k].spoilt)
BY DEF Becomes, Goto, Process, Places

-----------------------------------------------------------------------------
(* Types.                                                                  *)

Programs == Clients \union Others

\* A mailclient that sends a mail has one.
OneMail == \A c \in Clients : client[c].at \in SmtpPlaces => \E m \in Mails : client[c].mail = {m}

TypeInv == TypeOK /\ OneMail

ServerTypes ==
  /\ child \in [Children -> Process]
  /\ \A k \in Children : child[k].at \in HasUser => child[k].user \in Users
  /\ mailbox \in [Users -> SUBSET Mails]
  /\ accepted \in SUBSET Mails
  /\ removed \in SUBSET Mails
  /\ lost \in SUBSET Mails

ClientTypes ==
  /\ connected \in [Children -> BOOLEAN]
  /\ client \in [Programs -> Program]
  /\ sent \in SUBSET Mails
  /\ OneMail

LEMMA TypeParts == TypeInv <=> ServerTypes /\ ClientTypes /\ wire \in [Children -> Message]
BY DEF TypeInv, TypeOK, ServerTypes, ClientTypes, Programs

\* The state of a process after a step keeps the rule about its user.
LEMMA UserStays ==
  ASSUME ServerTypes, NEW k \in Children, NEW at, NEW user, NEW text, NEW inbox, NEW deleted, NEW spoilt,
         Becomes(k, at, user, text, inbox, deleted, spoilt), at \in HasUser => user \in Users
  PROVE  \A j \in Children : child'[j].at \in HasUser => child'[j].user \in Users
BY DEF ServerTypes, Becomes

-----------------------------------------------------------------------------
(* What the steps of a server process do to it.                            *)

LEMMA TakeCommandEffect ==
  ASSUME ServerTypes, wire \in [Children -> Message], NEW k \in Children, TakeCommand(k)
  PROVE  /\ child[k].at \in {"HELO", "MAIL", "RCPT", "DATA"}
         /\ Asked(k)
         /\ wire' \in [Children -> Message] /\ wire'[k].is # "command"
         /\ \A j \in Children \ {k} : wire'[j] = wire[j]
         /\ \/ Becomes(k, "exit", NOBODY, {}, {}, {}, {})
            \/ \E u \in Users \union {NOBODY} :
                 /\ Becomes(k, AfterCommand[child[k].at], u, child[k].text,
                            child[k].inbox, child[k].deleted, child[k].spoilt)
                 /\ wire[k].verb = child[k].at
                 /\ IF child[k].at = "RCPT" THEN u = wire[k].user /\ u \in Users
                                            ELSE u = child[k].user
<1>1. /\ child[k].at \in {"HELO", "MAIL", "RCPT", "DATA"}
      /\ Asked(k)
      /\ child \in [Children -> Process]
  BY DEF TakeCommand, AfterCommand, ServerTypes
<1>2. CommandOk(k) \in BOOLEAN
  BY DEF CommandOk, Message
<1>3. /\ wire' \in [Children -> Message] /\ wire'[k].is # "command"
      /\ \A j \in Children \ {k} : wire'[j] = wire[j]
  BY <1>2, AnswerEffect DEF TakeCommand
<1>4. CASE CommandOk(k)
  <2> DEFINE u == IF child[k].at = "RCPT" THEN wire[k].user ELSE child[k].user
             l == AfterCommand[child[k].at]
  <2>1. child' = [child EXCEPT ![k].at = l, ![k].user = u]
    BY <1>4 DEF TakeCommand
  <2>2. l \in Places
    BY <1>1 DEF AfterCommand, Places, SmtpPlaces
  <2>3. u \in Users \union {NOBODY}
    BY <1>1 DEF Message, Process
  <2>4. wire[k].verb = child[k].at /\ (child[k].at = "RCPT" => wire[k].user \in Users)
    BY <1>4 DEF CommandOk
  <2> HIDE DEF u, l
  <2>5. Becomes(k, l, u, child[k].text, child[k].inbox, child[k].deleted, child[k].spoilt)
    BY <1>1, <2>1, <2>2, <2>3 DEF Becomes, Process, Places
  <2> QED BY <1>1, <1>3, <2>3, <2>4, <2>5 DEF u, l
<1>5. CASE ~CommandOk(k)
  <2>1. Finish(k)
    BY <1>5 DEF TakeCommand
  <2> QED BY <1>1, <1>3, <2>1, FinishEffect
<1> QED BY <1>4, <1>5

LEMMA GetMailEffect ==
  ASSUME ServerTypes, wire \in [Children -> Message], NEW k \in Children, get_mail(k)
  PROVE  /\ child[k].at = "text"
         /\ Asked(k) /\ wire[k].verb = "text"
         /\ wire' \in [Children -> Message] /\ wire'[k].is # "command"
         /\ \A j \in Children \ {k} : wire'[j] = wire[j]
         /\ \/ Becomes(k, "exit", NOBODY, {}, {}, {}, {}) /\ UNCHANGED accepted
            \/ /\ Becomes(k, "write", child[k].user, wire[k].mails,
                          child[k].inbox, child[k].deleted, child[k].spoilt)
               /\ MayHold(k, child[k].user)
               /\ accepted' = accepted \union wire[k].mails
<1>1. child \in [Children -> Process] /\ wire[k].ok \in BOOLEAN /\ wire[k].mails \in SUBSET Mails
  BY DEF ServerTypes, Message
<1>2. child[k].at = "text" /\ Asked(k) /\ wire[k].verb = "text"
  BY DEF get_mail
<1>3. /\ wire' \in [Children -> Message] /\ wire'[k].is # "command"
      /\ \A j \in Children \ {k} : wire'[j] = wire[j]
  BY <1>1, AnswerEffect DEF get_mail
<1>4. CASE wire[k].ok
  <2>1. child' = [child EXCEPT ![k].at = "write", ![k].text = wire[k].mails]
    BY <1>4 DEF get_mail
  <2>2. Becomes(k, "write", child[k].user, wire[k].mails, child[k].inbox, child[k].deleted, child[k].spoilt)
    BY <1>1, <2>1 DEF Becomes, Process, SmtpPlaces
  <2> QED BY <1>2, <1>3, <1>4, <2>2 DEF get_mail
<1>5. CASE ~wire[k].ok
  <2>1. Finish(k) /\ UNCHANGED accepted
    BY <1>5 DEF get_mail
  <2> QED BY <1>1, <1>2, <1>3, <2>1, FinishEffect
<1> QED BY <1>4, <1>5

LEMMA WriteMailEffect ==
  ASSUME ServerTypes, NEW k \in Children, write_mail_to_inbox(k)
  PROVE  /\ child[k].at = "write"
         /\ \E text \in SUBSET Mails :
              /\ Becomes(k, "QUIT", child[k].user, text, child[k].inbox, child[k].deleted, child[k].spoilt)
              /\ text \subseteq child[k].text
              /\ "open" \notin Faults => text = child[k].text
<1>1. child \in [Children -> Process]
  BY DEF ServerTypes
<1>2. PICK written \in IF "open" \in Faults THEN BOOLEAN ELSE {TRUE} :
        child' = [child EXCEPT ![k].at = "QUIT", ![k].text = IF written THEN child[k].text ELSE {}]
  BY DEF write_mail_to_inbox
<1> DEFINE text == IF written THEN child[k].text ELSE {}
<1>3. text \in SUBSET Mails /\ text \subseteq child[k].text
  BY <1>1 DEF Process
<1>4. "open" \notin Faults => text = child[k].text
  BY <1>2
<1>5. child' = [child EXCEPT ![k].at = "QUIT", ![k].text = text]
  BY <1>2
<1> HIDE DEF text
<1>6. Becomes(k, "QUIT", child[k].user, text, child[k].inbox, child[k].deleted, child[k].spoilt)
  BY <1>1, <1>3, <1>5 DEF Becomes, Process, SmtpPlaces
<1> QED BY <1>3, <1>4, <1>6 DEF write_mail_to_inbox

LEMMA QuitSmtpEffect ==
  ASSUME ServerTypes, wire \in [Children -> Message], NEW k \in Children, quit(k)
  PROVE  /\ child[k].at = "QUIT"
         /\ wire' \in [Children -> Message] /\ wire'[k].is # "command"
         /\ \A j \in Children \ {k} : wire'[j] = wire[j]
         /\ Becomes(k, "exit", child[k].user, child[k].text, child[k].inbox, child[k].deleted, child[k].spoilt)
<1>1. child \in [Children -> Process] /\ (wire[k].verb = "QUIT") \in BOOLEAN
  BY DEF ServerTypes
<1>2. /\ wire' \in [Children -> Message] /\ wire'[k].is # "command"
      /\ \A j \in Children \ {k} : wire'[j] = wire[j]
  BY <1>1, AnswerEffect DEF quit
<1>3. "exit" \in Places
  BY DEF Places
<1> QED BY <1>1, <1>2, <1>3, GotoEffect DEF quit

LEMMA TakeUserEffect ==
  ASSUME ServerTypes, wire \in [Children -> Message], NEW k \in Children, TakeUser(k)
  PROVE  /\ child[k].at = "USER"
         /\ wire' \in [Children -> Message] /\ wire'[k].is # "command"
         /\ \A j \in Children \ {k} : wire'[j] = wire[j]
         /\ \/ Becomes(k, "exit", NOBODY, {}, {}, {}, {})
            \/ /\ Becomes(k, "PASS", wire[k].user, child[k].text,
                          child[k].inbox, child[k].deleted, child[k].spoilt)
               /\ wire[k].user \in Users
<1> DEFINE valid == wire[k].verb = "USER" /\ wire[k].user \in Users
<1>1. child \in [Children -> Process] /\ valid \in BOOLEAN
  BY DEF ServerTypes
<1>2. child[k].at = "USER"
  BY DEF TakeUser
<1>3. /\ wire' \in [Children -> Message] /\ wire'[k].is # "command"
      /\ \A j \in Children \ {k} : wire'[j] = wire[j]
  <2>1. Answer(k, valid, {})
    BY DEF TakeUser
  <2> QED BY <1>1, <2>1, AnswerEffect
<1>4. CASE valid
  <2>1. child' = [child EXCEPT ![k].at = "PASS", ![k].user = wire[k].user]
    BY <1>4 DEF TakeUser
  <2>2. Becomes(k, "PASS", wire[k].user, child[k].text, child[k].inbox, child[k].deleted, child[k].spoilt)
    BY <1>1, <1>4, <2>1 DEF Becomes, Process, PopPlaces
  <2> QED BY <1>2, <1>3, <1>4, <2>2
<1>5. CASE ~valid
  <2>1. Finish(k)
    BY <1>5 DEF TakeUser
  <2> QED BY <1>1, <1>2, <1>3, <2>1, FinishEffect
<1> QED BY <1>4, <1>5

LEMMA TakePassEffect ==
  ASSUME ServerTypes, wire \in [Children -> Message], NEW k \in Children, TakePass(k)
  PROVE  /\ child[k].at = "PASS"
         /\ wire' \in [Children -> Message] /\ wire'[k].is # "command"
         /\ \A j \in Children \ {k} : wire'[j] = wire[j]
         /\ \/ Becomes(k, "exit", NOBODY, {}, {}, {}, {})
            \/ /\ Becomes(k, "get_inbox", child[k].user, child[k].text,
                          child[k].inbox, child[k].deleted, child[k].spoilt)
               /\ MayHold(k, child[k].user)
<1>1. child \in [Children -> Process] /\ "get_inbox" \in Places
  BY DEF ServerTypes, Places, PopPlaces
<1>2. PICK ok \in BOOLEAN : Answer(k, ok, {})
  BY DEF TakePass
<1>3. /\ wire' \in [Children -> Message] /\ wire'[k].is # "command"
      /\ \A j \in Children \ {k} : wire'[j] = wire[j]
  BY <1>2, AnswerEffect
<1>4. Finish(k) \/ (Goto(k, "get_inbox") /\ MayHold(k, child[k].user))
  BY DEF TakePass
<1> QED BY <1>1, <1>3, <1>4, FinishEffect, GotoEffect DEF TakePass

LEMMA GetInboxEffect ==
  ASSUME ServerTypes, NEW k \in Children, get_inbox(k)
  PROVE  /\ child[k].at = "get_inbox"
         /\ \E S \in SUBSET Mails :
              /\ Becomes(k, "TRANSACTION", child[k].user, child[k].text,
                         mailbox[child[k].user], child[k].deleted, S)
              /\ "stack" \notin Faults => S = {}
<1>1. child \in [Children -> Process] /\ child[k].at = "get_inbox"
  BY DEF ServerTypes, get_inbox
<1>2. child[k].user \in Users
  BY <1>1 DEF ServerTypes, HasUser, PopPlaces
<1>3. mailbox[child[k].user] \in SUBSET Mails
  BY <1>2 DEF ServerTypes
<1>4. PICK S \in Spoilt(mailbox[child[k].user]) :
        child' = [child EXCEPT ![k].at = "TRANSACTION",
                               ![k].inbox = mailbox[child[k].user], ![k].spoilt = S]
  BY DEF get_inbox
<1>5. S \in SUBSET Mails /\ ("stack" \notin Faults => S = {})
  BY <1>3 DEF Spoilt
<1>6. Becomes(k, "TRANSACTION", child[k].user, child[k].text, mailbox[child[k].user], child[k].deleted, S)
  BY <1>1, <1>3, <1>4, <1>5 DEF Becomes, Process, PopPlaces
<1> QED BY <1>1, <1>5, <1>6

LEMMA TransactionEffect ==
  ASSUME ServerTypes, wire \in [Children -> Message], NEW k \in Children, Transaction(k)
  PROVE  /\ child[k].at = "TRANSACTION"
         /\ wire' \in [Children -> Message] /\ wire'[k].is # "command"
         /\ \A j \in Children \ {k} : wire'[j] = wire[j]
         /\ \E deleted \in SUBSET Mails :
              Becomes(k, "TRANSACTION", child[k].user, child[k].text,
                      child[k].inbox, deleted, child[k].spoilt)
<1> DEFINE verb == wire[k].verb
           named == wire[k].mails # {} /\ wire[k].mails \subseteq Listed(k)
           ok == verb \in {"STAT", "RSET"} \/ (verb = "LIST" /\ wire[k].mails = {})
                   \/ (verb \in {"LIST", "RETR", "DELE"} /\ named)
           mails == CASE verb = "LIST" /\ wire[k].mails = {} -> Listed(k)
                      [] verb = "RETR" /\ named -> wire[k].mails
                      [] OTHER -> {}
           deleted == CASE verb = "DELE" /\ named -> child[k].deleted \union wire[k].mails
                        [] verb = "RSET" -> {}
                        [] OTHER -> child[k].deleted
<1>1. /\ child \in [Children -> Process]
      /\ child[k] \in Process /\ wire[k] \in Message
      /\ child[k].at = "TRANSACTION"
  BY DEF ServerTypes, Transaction
<1>2. /\ Answer(k, ok, mails)
      /\ child' = [child EXCEPT ![k].deleted = deleted]
  BY DEF Transaction
<1>3. child[k].inbox \subseteq Mails /\ child[k].deleted \subseteq Mails /\ wire[k].mails \subseteq Mails
  BY <1>1 DEF Process, Message
<1>4. ok \in BOOLEAN /\ mails \in SUBSET Mails
  <2>1. Listed(k) \subseteq Mails
    BY <1>3 DEF Listed, Kept
  <2> QED BY <1>3, <2>1
<1>5. deleted \in SUBSET Mails
  BY <1>3
<1> HIDE DEF ok, mails, deleted
<1>6. /\ wire' \in [Children -> Message] /\ wire'[k].is # "command"
      /\ \A j \in Children \ {k} : wire'[j] = wire[j]
  BY <1>2, <1>4, AnswerEffect
<1>7. Becomes(k, "TRANSACTION", child[k].user, child[k].text, child[k].inbox, deleted, child[k].spoilt)
  BY <1>1, <1>2, <1>5 DEF Becomes, Process
<1> QED BY <1>1, <1>5, <1>6, <1>7

LEMMA QuitPopEffect ==
  ASSUME ServerTypes, wire \in [Children -> Message], NEW k \in Children, Quit(k)
  PROVE  /\ child[k].at = "TRANSACTION"
         /\ wire' \in [Children -> Message] /\ wire'[k].is # "command"
         /\ \A j \in Children \ {k} : wire'[j] = wire[j]
         /\ Becomes(k, "UPDATE", child[k].user, child[k].text,
                    child[k].inbox, child[k].deleted, child[k].spoilt)
<1>1. child \in [Children -> Process] /\ "UPDATE" \in Places
  BY DEF ServerTypes, Places, PopPlaces
<1>2. child[k].at = "TRANSACTION" /\ Send(k, QUIET) /\ Goto(k, "UPDATE")
  BY DEF Quit
<1> QED BY <1>1, <1>2, QuietType, SendEffect, GotoEffect

LEMMA TruncateEffect ==
  ASSUME ServerTypes, wire \in [Children -> Message], NEW k \in Children, Truncate(k)
  PROVE  /\ child[k].at = "UPDATE"
         /\ \/ /\ Becomes(k, "sign_off", child[k].user, child[k].text,
                          child[k].inbox, child[k].deleted, child[k].spoilt)
               /\ mailbox' = [mailbox EXCEPT ![child[k].user] = {}]
               /\ removed' = removed \union child[k].deleted
               /\ UNCHANGED wire
            \/ /\ Becomes(k, "exit", NOBODY, {}, {}, {}, {})
               /\ wire' \in [Children -> Message] /\ wire'[k].is # "command"
               /\ \A j \in Children \ {k} : wire'[j] = wire[j]
               /\ UNCHANGED <<mailbox, removed>>
<1>1. child \in [Children -> Process] /\ "sign_off" \in Places
  BY DEF ServerTypes, Places, PopPlaces
<1>2. child[k].at = "UPDATE"
  BY DEF Truncate
<1>3. CASE /\ Goto(k, "sign_off")
           /\ mailbox' = [mailbox EXCEPT ![child[k].user] = {}]
           /\ removed' = removed \union child[k].deleted
           /\ UNCHANGED wire
  BY <1>1, <1>2, <1>3, GotoEffect
<1>4. CASE /\ Finish(k)
           /\ Answer(k, FALSE, {})
           /\ UNCHANGED <<mailbox, removed>>
  BY <1>1, <1>2, <1>4, FinishEffect, AnswerEffect
<1> QED BY <1>3, <1>4 DEF Truncate

LEMMA SignOffEffect ==
  ASSUME ServerTypes, wire \in [Children -> Message], NEW k \in Children, SignOff(k)
  PROVE  /\ child[k].at = "sign_off"
         /\ wire' \in [Children -> Message] /\ wire'[k].is # "command"
         /\ \A j \in Children \ {k} : wire'[j] = wire[j]
         /\ Becomes(k, "fclose", child[k].user, child[k].text,
                    child[k].inbox, child[k].deleted, child[k].spoilt)
<1>1. child \in [Children -> Process] /\ "fclose" \in Places
  BY DEF ServerTypes, Places, PopPlaces
<1>2. child[k].at = "sign_off" /\ Answer(k, TRUE, {}) /\ Goto(k, "fclose")
  BY DEF SignOff
<1> QED BY <1>1, <1>2, AnswerEffect, GotoEffect

LEMMA FcloseEffect ==
  ASSUME ServerTypes, NEW k \in Children, Fclose(k)
  PROVE  /\ child[k].at = "fclose"
         /\ Becomes(k, "exit", NOBODY, {}, {}, {}, {})
         /\ \E rest \in SUBSET mailbox[child[k].user] :
              mailbox' = [mailbox EXCEPT ![child[k].user] = Written(k) \union rest]
         /\ mailbox' \in [Users -> SUBSET Mails]
<1>1. child \in [Children -> Process] /\ child[k].at = "fclose" /\ Finish(k)
  BY DEF ServerTypes, Fclose
<1>2. PICK rest \in SUBSET mailbox[child[k].user] :
        mailbox' = [mailbox EXCEPT ![child[k].user] = Written(k) \union rest]
  BY DEF Fclose
<1>3. child[k].user \in Users
  BY <1>1 DEF ServerTypes, HasUser, PopPlaces
<1>4. Written(k) \union rest \in SUBSET Mails
  BY <1>1, <1>3 DEF ServerTypes, Process, Written, Kept
<1>5. mailbox' \in [Users -> SUBSET Mails]
  BY <1>2, <1>3, <1>4 DEF ServerTypes
<1> QED BY <1>1, <1>2, <1>5, FinishEffect

LEMMA ExitEffect ==
  ASSUME ServerTypes, NEW k \in Children, exit(k)
  PROVE  /\ Becomes(k, "free", NOBODY, {}, {}, {}, {})
         /\ mailbox' \in [Users -> SUBSET Mails]
         /\ \A u \in Users : mailbox'[u] = IF child[k].user = u THEN mailbox[u] \union child[k].text
                                                              ELSE mailbox[u]
         /\ child[k].at = "exit" \/ Waiting(k)
<1>1. child \in [Children -> Process] /\ child' = [child EXCEPT ![k] = IDLE]
  BY DEF ServerTypes, exit
<1>2. mailbox' = [u \in Users |-> IF child[k].user = u THEN mailbox[u] \union child[k].text
                                                       ELSE mailbox[u]]
  BY DEF exit
<1>3. child[k].text \in SUBSET Mails /\ \A u \in Users : mailbox[u] \in SUBSET Mails
  BY <1>1 DEF ServerTypes, Process
<1>4. mailbox' \in [Users -> SUBSET Mails]
  BY <1>2, <1>3
<1> QED BY <1>1, <1>2, <1>4, IdleEffect DEF exit, Ends

LEMMA KillEffect ==
  ASSUME ServerTypes, wire \in [Children -> Message], NEW k \in Children, Kill(k)
  PROVE  /\ Becomes(k, "free", NOBODY, {}, {}, {}, {})
         /\ wire' \in [Children -> Message] /\ wire'[k].is # "command"
         /\ \A j \in Children \ {k} : wire'[j] = wire[j]
         /\ lost' = lost \union InHands(k)
         /\ InHands(k) \in SUBSET Mails
<1>1. child \in [Children -> Process] /\ child' = [child EXCEPT ![k] = IDLE]
  BY DEF ServerTypes, Kill
<1> DEFINE message == IF Answered(k) THEN wire[k] ELSE QUIET
<1>2. message \in Message /\ message.is # "command"
  BY QuietType DEF Answered
<1>3. Send(k, message)
  BY DEF Kill
<1> HIDE DEF message
<1>4. InHands(k) \in SUBSET Mails
  BY <1>1 DEF InHands, Kept, Process
<1> QED BY <1>1, <1>2, <1>3, <1>4, SendEffect, IdleEffect DEF Kill

-----------------------------------------------------------------------------
(* What the steps of a client do to it and to its connection.              *)

ClientPlaces == SmtpPlaces \union PopPlaces \union
                  {"menu", "greeting", "hello", "LIST", "row", "prompt", "mail", "DELE",
                   "signing_off", "other"}

\* The client goes on to a place, with a mail, and puts a message on the wire.
Talks(c, k, at, mail, message) ==
  /\ UNCHANGED serverVars /\ UNCHANGED <<connected, sent>>
  /\ client' \in [Programs -> Program]
  /\ client'[c].at = at
  /\ client'[c].conn = client[c].conn
  /\ client'[c].mail = mail
  /\ \A d \in Programs \ {c} : client'[d] = client[d]
  /\ wire' \in [Children -> Message]
  /\ wire'[k] = message
  /\ \A j \in Children \ {k} : wire'[j] = wire[j]

\* The client closes the connection.
Closes(c, k) ==
  /\ UNCHANGED serverVars
  /\ connected' \in [Children -> BOOLEAN]
  /\ \A j \in Children \ {k} : connected'[j] = connected[j]
  /\ client' \in [Programs -> Program]
  /\ client'[c].at = "menu"
  /\ client'[c].conn = {}
  /\ \A d \in Programs \ {c} : client'[d] = client[d]
  /\ wire' \in [Children -> Message]
  /\ wire'[k] = wire[k] \/ wire'[k].is # "command"
  /\ \A j \in Children \ {k} : wire'[j] = wire[j]

LEMMA SayEffect ==
  ASSUME ClientTypes, wire \in [Children -> Message], NEW c \in Programs, NEW k \in Children,
         NEW at \in ClientPlaces, NEW message \in Message, Say(c, k, at, message)
  PROVE  Talks(c, k, at, IF at \in {"LIST", "prompt"} THEN {} ELSE client[c].mail, message)
<1> DEFINE mail == IF at \in {"LIST", "prompt"} THEN {} ELSE client[c].mail
<1>1. client \in [Programs -> Program]
  BY DEF ClientTypes
<1>2. mail \in SUBSET Mails
  BY <1>1 DEF Program
<1>3. client' = [client EXCEPT ![c].at = at, ![c].mail = mail]
  BY <1>1 DEF Say
<1> HIDE DEF mail
<1>4. /\ client' \in [Programs -> Program]
      /\ client'[c].at = at /\ client'[c].conn = client[c].conn /\ client'[c].mail = mail
      /\ \A d \in Programs \ {c} : client'[d] = client[d]
  BY <1>1, <1>2, <1>3 DEF Program, ClientPlaces
<1>5. Send(k, message) /\ UNCHANGED serverVars /\ UNCHANGED <<connected, sent>>
  BY DEF Say
<1>6. Talks(c, k, at, mail, message)
  BY <1>4, <1>5, SendEffect DEF Talks
<1> QED BY <1>6 DEF mail

LEMMA CloseEffect ==
  ASSUME ClientTypes, wire \in [Children -> Message], NEW c \in Programs, NEW k \in Children, Close(c, k)
  PROVE  Closes(c, k)
<1>1. client \in [Programs -> Program] /\ connected \in [Children -> BOOLEAN]
  BY DEF ClientTypes
<1>2. client' = [client EXCEPT ![c] = MENU] /\ connected' = [connected EXCEPT ![k] = FALSE] /\ UNCHANGED serverVars
  BY DEF Close
<1>3. MENU \in Program /\ MENU.at = "menu" /\ MENU.conn = {}
  BY DEF MENU, Program
<1>4. /\ client' \in [Programs -> Program]
      /\ client'[c].at = "menu" /\ client'[c].conn = {}
      /\ \A d \in Programs \ {c} : client'[d] = client[d]
  BY <1>1, <1>2, <1>3
<1>5. connected' \in [Children -> BOOLEAN] /\ \A j \in Children \ {k} : connected'[j] = connected[j]
  BY <1>1, <1>2
<1> DEFINE message == IF Asked(k) /\ child[k].at # "free" THEN wire[k] ELSE QUIET
<1>6. message \in Message /\ (message = wire[k] \/ message.is # "command") /\ Send(k, message)
  BY QuietType DEF Close
<1> HIDE DEF message
<1>7. /\ wire' \in [Children -> Message]
      /\ wire'[k] = wire[k] \/ wire'[k].is # "command"
      /\ \A j \in Children \ {k} : wire'[j] = wire[j]
  BY <1>6, SendEffect
<1> QED BY <1>2, <1>4, <1>5, <1>7 DEF Closes

LEMMA ConnectEffect ==
  ASSUME ServerTypes, ClientTypes, wire \in [Children -> Message], NEW c \in Programs, NEW k \in Children,
         NEW first \in {"HELO", "USER"}, NEW at \in {"greeting", "hello", "other"},
         Connect(c, k, first, at)
  PROVE  /\ child[k] = IDLE /\ ~connected[k]
         /\ Becomes(k, first, NOBODY, {}, {}, {}, {})
         /\ connected' \in [Children -> BOOLEAN]
         /\ connected'[k]
         /\ \A j \in Children \ {k} : connected'[j] = connected[j]
         /\ client' \in [Programs -> Program]
         /\ client'[c].at = at
         /\ client'[c].conn = {k}
         /\ \A d \in Programs \ {c} : client'[d] = client[d]
         /\ wire' \in [Children -> Message] /\ wire'[k].is = "reply"
         /\ \A j \in Children \ {k} : wire'[j] = wire[j]
         /\ UNCHANGED <<mailbox, accepted, sent, removed, lost>>
<1>1. /\ child \in [Children -> Process]
      /\ client \in [Programs -> Program]
      /\ connected \in [Children -> BOOLEAN]
  BY DEF ServerTypes, ClientTypes
<1>2. /\ child[k] = IDLE /\ ~connected[k]
      /\ child' = [child EXCEPT ![k].at = first]
      /\ connected' = [connected EXCEPT ![k] = TRUE]
      /\ Send(k, Reply(TRUE, {}))
      /\ client' = [client EXCEPT ![c].at = at, ![c].conn = {k}]
      /\ UNCHANGED <<mailbox, accepted, sent, removed, lost>>
  BY DEF Connect, Unused
<1>3. Becomes(k, first, NOBODY, {}, {}, {}, {})
  <2>1. Becomes(k, first, child[k].user, child[k].text, child[k].inbox, child[k].deleted, child[k].spoilt)
    BY <1>1, <1>2 DEF Becomes, Process, SmtpPlaces, PopPlaces
  <2> QED BY <1>2, <2>1 DEF IDLE
<1>4. /\ client' \in [Programs -> Program]
      /\ client'[c].at = at /\ client'[c].conn = {k}
      /\ \A d \in Programs \ {c} : client'[d] = client[d]
  BY <1>1, <1>2 DEF Program
<1>5. /\ wire' \in [Children -> Message] /\ wire'[k].is = "reply"
      /\ \A j \in Children \ {k} : wire'[j] = wire[j]
  <2>1. Reply(TRUE, {}) \in Message /\ Reply(TRUE, {}).is = "reply"
    BY ReplyType
  <2> QED BY <1>2, <2>1, SendEffect
<1> QED BY <1>1, <1>2, <1>3, <1>4, <1>5

-----------------------------------------------------------------------------
(* The sessions of mailclient.  It has to be known that a text that reaches *)
(* the server is for the user whom the server has in mind, and this rests   *)
(* on client and server going through the commands in step.                 *)

Named == {"DATA", "text"}  \* where an SMTP process knows whom the mail is for
For(user, mails) == \A m \in mails : user = To[m]

\* A connection has one client.
OneClient ==
  \A c \in Programs : \A k \in Children :
    client[c].conn = {k} => /\ connected[k]
                            /\ \A d \in Programs : client[d].conn = {k} => c = d

\* A text is for the user of the process that waits for it.
TextsAreFor ==
  \A k \in Children :
    (Asked(k) /\ wire[k].verb = "text" /\ child[k].at = "text") => For(child[k].user, wire[k].mails)

\* The command that a mailclient waits for an answer to is the one on the wire;
\* before the greeting there is none.
CommandOnWire ==
  \A c \in Clients : \A k \in Children :
    (client[c].conn = {k} /\ client[c].at \in {"greeting", "HELO", "MAIL", "RCPT", "DATA"} /\ Asked(k))
      => /\ wire[k].verb = client[c].at
         /\ client[c].at = "RCPT" => For(wire[k].user, client[c].mail)

\* The server has a user in mind only when the mailclient has named one.
NotNamed ==
  \A c \in Clients : \A k \in Children :
    (client[c].conn = {k} /\ client[c].at \in {"greeting", "HELO", "MAIL"}) => child[k].at \notin Named
NamedRight ==
  \A c \in Clients : \A k \in Children :
    (client[c].conn = {k} /\ client[c].at \in {"RCPT", "DATA"} /\ child[k].at \in Named)
      => For(child[k].user, client[c].mail)

Session == OneClient /\ TextsAreFor /\ CommandOnWire /\ NotNamed /\ NamedRight

SessionInv == ServerTypes /\ ClientTypes /\ wire \in [Children -> Message] /\ Session

LEMMA ClientsDiffer == \A c \in Clients : c \in Programs /\ c \notin Others
BY MailAssumption DEF Programs

\* What a message may be that takes a client to a place.
Fits(c, k, at, mail, message) ==
  /\ c \in Clients /\ at \in SmtpPlaces => \E m \in Mails : mail = {m}
  /\ (message.is = "command" /\ message.verb = "text" /\ child[k].at = "text")
       => For(child[k].user, message.mails)
  /\ c \in Clients /\ at \in {"greeting", "HELO", "MAIL", "RCPT", "DATA"} =>
       /\ message.is = "command" => message.verb = at
       /\ message.is = "command" /\ at = "RCPT" => For(message.user, mail)
  /\ c \in Clients /\ at \in {"greeting", "HELO", "MAIL"} => child[k].at \notin Named
  /\ c \in Clients /\ at \in {"RCPT", "DATA"} /\ child[k].at \in Named => For(child[k].user, mail)

LEMMA TalkKeepsSession ==
  ASSUME SessionInv, NEW c \in Programs, NEW k \in Children, client[c].conn = {k},
         NEW at, NEW mail, NEW message, Talks(c, k, at, mail, message), Fits(c, k, at, mail, message)
  PROVE  SessionInv'
<1>0. /\ child' = child /\ connected' = connected
      /\ client'[c].at = at /\ client'[c].conn = {k} /\ client'[c].mail = mail
      /\ \A d \in Programs \ {c} : client'[d] = client[d]
      /\ wire'[k] = message
      /\ \A j \in Children \ {k} : wire'[j] = wire[j]
      /\ \A d \in Programs \ {c} : client[d].conn # {k}
  BY DEF Talks, serverVars, SessionInv, Session, OneClient
<1>s. OneClient /\ TextsAreFor /\ CommandOnWire /\ NotNamed /\ NamedRight
  BY DEF SessionInv, Session
<1>1. ServerTypes'
  BY DEF Talks, serverVars, SessionInv, ServerTypes
<1>2. ClientTypes'
  <2>1. OneMail'
    BY <1>0, ClientsDiffer DEF Fits, OneMail, SessionInv, ClientTypes
  <2> QED BY <2>1 DEF Talks, SessionInv, ClientTypes
<1>3. wire' \in [Children -> Message]
  BY DEF Talks
<1>4. OneClient'
  BY <1>0, <1>s DEF OneClient
<1>5. TextsAreFor'
  BY <1>0, <1>s DEF TextsAreFor, Fits, Asked, For
<1>6. CommandOnWire'
  BY <1>0, <1>s, ClientsDiffer DEF CommandOnWire, Fits, Asked, For
<1>7. NotNamed'
  BY <1>0, <1>s, ClientsDiffer DEF NotNamed, Fits
<1>8. NamedRight'
  BY <1>0, <1>s, ClientsDiffer DEF NamedRight, Fits, For
<1> QED BY <1>1, <1>2, <1>3, <1>4, <1>5, <1>6, <1>7, <1>8 DEF SessionInv, Session

LEMMA CloseKeepsSession ==
  ASSUME SessionInv, NEW c \in Programs, NEW k \in Children, client[c].conn = {k},
         Closes(c, k), sent' \in SUBSET Mails
  PROVE  SessionInv'
<1>0. /\ child' = child
      /\ client'[c].at = "menu" /\ client'[c].conn = {}
      /\ \A j \in Children \ {k} : connected'[j] = connected[j]
      /\ \A d \in Programs \ {c} : client'[d] = client[d]
      /\ wire'[k] = wire[k] \/ wire'[k].is # "command"
      /\ \A j \in Children \ {k} : wire'[j] = wire[j]
      /\ \A d \in Programs \ {c} : client[d].conn # {k}
  BY DEF Closes, serverVars, SessionInv, Session, OneClient
<1>s. OneClient /\ TextsAreFor /\ CommandOnWire /\ NotNamed /\ NamedRight
  BY DEF SessionInv, Session
<1>1. ServerTypes'
  BY DEF Closes, serverVars, SessionInv, ServerTypes
<1>2. ClientTypes'
  <2>1. OneMail'
    BY <1>0, ClientsDiffer DEF OneMail, SessionInv, ClientTypes, SmtpPlaces
  <2> QED BY <2>1 DEF Closes, SessionInv, ClientTypes
<1>3. wire' \in [Children -> Message]
  BY DEF Closes
<1>4. OneClient'
  BY <1>0, <1>s DEF OneClient
<1>5. TextsAreFor'
  BY <1>0, <1>s DEF TextsAreFor, Asked, For
<1>6. CommandOnWire'
  BY <1>0, <1>s, ClientsDiffer DEF CommandOnWire, Asked, For
<1>7. NotNamed'
  BY <1>0, <1>s, ClientsDiffer DEF NotNamed
<1>8. NamedRight'
  BY <1>0, <1>s, ClientsDiffer DEF NamedRight, For
<1> QED BY <1>1, <1>2, <1>3, <1>4, <1>5, <1>6, <1>7, <1>8 DEF SessionInv, Session

LEMMA ConnectKeepsSession ==
  ASSUME SessionInv, NEW c \in Programs, NEW k \in Children,
         NEW first \in {"HELO", "USER"}, NEW at \in {"greeting", "hello", "other"},
         Connect(c, k, first, at)
  PROVE  SessionInv'
<1>t. ServerTypes /\ ClientTypes /\ wire \in [Children -> Message]
  BY DEF SessionInv
<1>e. /\ ~connected[k]
      /\ Becomes(k, first, NOBODY, {}, {}, {}, {})
      /\ connected' \in [Children -> BOOLEAN]
      /\ connected'[k]
      /\ \A j \in Children \ {k} : connected'[j] = connected[j]
      /\ client' \in [Programs -> Program]
      /\ client'[c].at = at /\ client'[c].conn = {k}
      /\ \A d \in Programs \ {c} : client'[d] = client[d]
      /\ wire' \in [Children -> Message] /\ wire'[k].is = "reply"
      /\ \A j \in Children \ {k} : wire'[j] = wire[j]
      /\ UNCHANGED <<mailbox, accepted, sent, removed, lost>>
  BY <1>t, ConnectEffect
<1>0. /\ child'[k].at \in {"HELO", "USER"}
      /\ \A j \in Children \ {k} : child'[j] = child[j]
      /\ \A d \in Programs : client[d].conn # {k}
  BY <1>e DEF Becomes, SessionInv, Session, OneClient
<1>s. OneClient /\ TextsAreFor /\ CommandOnWire /\ NotNamed /\ NamedRight
  BY DEF SessionInv, Session
<1>1. ServerTypes'
  <2>1. first \notin HasUser
    BY DEF HasUser, PopPlaces
  <2>2. \A j \in Children : child'[j].at \in HasUser => child'[j].user \in Users
    BY <1>t, <1>e, <2>1, UserStays
  <2> QED BY <1>t, <1>e, <2>2 DEF ServerTypes, Becomes
<1>2. ClientTypes'
  <2>1. OneMail'
    BY <1>t, <1>e, ClientsDiffer DEF OneMail, ClientTypes, SmtpPlaces
  <2> QED BY <1>t, <1>e, <2>1 DEF ClientTypes
<1>4. OneClient'
  BY <1>0, <1>e, <1>s DEF OneClient
<1>5. TextsAreFor'
  BY <1>0, <1>e, <1>s DEF TextsAreFor, Asked, For
<1>6. CommandOnWire'
  BY <1>0, <1>e, <1>s, ClientsDiffer DEF CommandOnWire, Asked, For
<1>7. NotNamed'
  BY <1>0, <1>e, <1>s, ClientsDiffer DEF NotNamed, Named
<1>8. NamedRight'
  BY <1>0, <1>e, <1>s, ClientsDiffer DEF NamedRight, Named, For
<1> QED BY <1>1, <1>2, <1>e, <1>4, <1>5, <1>6, <1>7, <1>8 DEF SessionInv, Session

\* What matters to a session of a step of a server process.
ServerEffect(k) ==
  /\ ServerTypes'
  /\ UNCHANGED clientVars
  /\ \A j \in Children \ {k} : child'[j] = child[j] /\ wire'[j] = wire[j]
  /\ wire' \in [Children -> Message]
  /\ wire'[k].is = "command" => wire'[k] = wire[k] /\ child'[k].at \notin Named
  /\ child'[k].at \in Named =>
       \/ child[k].at \in Named /\ child'[k].user = child[k].user
       \/ /\ Asked(k) /\ wire[k].verb = "RCPT"
          /\ child'[k].user = wire[k].user

LEMMA ServerKeepsSession ==
  ASSUME SessionInv, NEW k \in Children, ServerEffect(k)
  PROVE  SessionInv'
<1>0. /\ client' = client /\ connected' = connected /\ sent' = sent
      /\ \A j \in Children \ {k} : child'[j] = child[j] /\ wire'[j] = wire[j]
      /\ wire'[k].is = "command" => wire'[k] = wire[k] /\ child'[k].at \notin Named
      /\ child'[k].at \in Named =>
           \/ child[k].at \in Named /\ child'[k].user = child[k].user
           \/ /\ Asked(k) /\ wire[k].verb = "RCPT"
              /\ child'[k].user = wire[k].user
  BY DEF ServerEffect, clientVars
<1>s. OneClient /\ TextsAreFor /\ CommandOnWire /\ NotNamed /\ NamedRight
  BY DEF SessionInv, Session
<1>1. ServerTypes' /\ wire' \in [Children -> Message]
  BY DEF ServerEffect
<1>2. ClientTypes'
  BY <1>0 DEF SessionInv, ClientTypes, OneMail
<1>4. OneClient'
  BY <1>0, <1>s DEF OneClient
<1>5. TextsAreFor'
  BY <1>0, <1>s DEF TextsAreFor, Asked, For, Named
<1>6. CommandOnWire'
  BY <1>0, <1>s DEF CommandOnWire, Asked, For
<1>7. NotNamed'
  BY <1>0, <1>s DEF NotNamed, CommandOnWire
<1>8. NamedRight'
  <2> SUFFICES ASSUME NEW c \in Clients, client[c].conn = {k}, client[c].at \in {"RCPT", "DATA"},
                      child'[k].at \in Named
               PROVE  For(child'[k].user, client[c].mail)
    BY <1>0, <1>s DEF NamedRight, For
  <2>1. CASE child[k].at \in Named /\ child'[k].user = child[k].user
    BY <2>1, <1>s DEF NamedRight, For
  <2>2. CASE Asked(k) /\ wire[k].verb = "RCPT" /\ child'[k].user = wire[k].user
    BY <2>2, <1>s DEF CommandOnWire, For
  <2> QED BY <1>0, <2>1, <2>2
<1> QED BY <1>1, <1>2, <1>4, <1>5, <1>6, <1>7, <1>8 DEF SessionInv, Session

\* The steps of the server processes.
LEMMA ServerStepEffect ==
  ASSUME ServerTypes, wire \in [Children -> Message], NEW k \in Children, ServerStep(k) \/ Kill(k)
  PROVE  ServerEffect(k)
<1>0. /\ child \in [Children -> Process]
      /\ \A j \in Children : child[j].at \in HasUser => child[j].user \in Users
      /\ mailbox \in [Users -> SUBSET Mails]
      /\ accepted \in SUBSET Mails /\ removed \in SUBSET Mails /\ lost \in SUBSET Mails
  BY DEF ServerTypes
<1> USE DEF ServerEffect
<1>1. CASE TakeCommand(k)
  <2>1. UNCHANGED <<mailbox, accepted, removed, lost>> /\ UNCHANGED clientVars
    BY <1>1 DEF TakeCommand
  <2>2. /\ child[k].at \in {"HELO", "MAIL", "RCPT", "DATA"}
        /\ Asked(k)
        /\ wire' \in [Children -> Message] /\ wire'[k].is # "command"
        /\ \A j \in Children \ {k} : wire'[j] = wire[j]
    BY <1>1, TakeCommandEffect
  <2>3. CASE Becomes(k, "exit", NOBODY, {}, {}, {}, {})
    <3>1. \A j \in Children : child'[j].at \in HasUser => child'[j].user \in Users
      BY <2>3, UserStays DEF HasUser, PopPlaces
    <3> QED BY <1>0, <2>1, <2>2, <2>3, <3>1 DEF ServerTypes, Becomes, Named
  <2>4. ASSUME NEW u \in Users \union {NOBODY},
               Becomes(k, AfterCommand[child[k].at], u, child[k].text,
                       child[k].inbox, child[k].deleted, child[k].spoilt),
               wire[k].verb = child[k].at,
               IF child[k].at = "RCPT" THEN u = wire[k].user /\ u \in Users ELSE u = child[k].user
        PROVE  ServerEffect(k)
    <3>1. AfterCommand[child[k].at] \in HasUser => child[k].at \in {"RCPT", "DATA"}
      BY <2>2 DEF AfterCommand, HasUser, PopPlaces
    <3>2. child[k].at = "DATA" => child[k].user \in Users
      BY <1>0 DEF HasUser
    <3>3. AfterCommand[child[k].at] \in HasUser => u \in Users
      BY <2>4, <3>1, <3>2
    <3>4. \A j \in Children : child'[j].at \in HasUser => child'[j].user \in Users
      BY <2>4, <3>3, UserStays
    <3>5. child'[k].at \in Named =>
            \/ child[k].at \in Named /\ child'[k].user = child[k].user
            \/ Asked(k) /\ wire[k].verb = "RCPT" /\ child'[k].user = wire[k].user
      BY <2>2, <2>4 DEF AfterCommand, Named, Becomes
    <3> QED BY <1>0, <2>1, <2>2, <2>4, <3>4, <3>5 DEF ServerTypes, Becomes
  <2> QED BY <1>1, <2>3, <2>4, TakeCommandEffect
<1>2. CASE get_mail(k)
  <2>1. UNCHANGED <<mailbox, removed, lost>> /\ UNCHANGED clientVars
    BY <1>2 DEF get_mail
  <2>2. /\ child[k].at = "text"
        /\ wire' \in [Children -> Message] /\ wire'[k].is # "command"
        /\ \A j \in Children \ {k} : wire'[j] = wire[j]
    BY <1>2, GetMailEffect
  <2>3. CASE Becomes(k, "exit", NOBODY, {}, {}, {}, {}) /\ UNCHANGED accepted
    <3>1. \A j \in Children : child'[j].at \in HasUser => child'[j].user \in Users
      BY <2>3, UserStays DEF HasUser, PopPlaces
    <3> QED BY <1>0, <2>1, <2>2, <2>3, <3>1 DEF ServerTypes, Becomes, Named
  <2>4. CASE /\ Becomes(k, "write", child[k].user, wire[k].mails,
                        child[k].inbox, child[k].deleted, child[k].spoilt)
             /\ accepted' = accepted \union wire[k].mails
    <3>1. child[k].user \in Users
      BY <1>0, <2>2 DEF HasUser
    <3>2. \A j \in Children : child'[j].at \in HasUser => child'[j].user \in Users
      BY <2>4, <3>1, UserStays
    <3>3. accepted' \in SUBSET Mails
      BY <1>0, <2>4 DEF Message
    <3> QED BY <1>0, <2>1, <2>2, <2>4, <3>2, <3>3 DEF ServerTypes, Becomes, Named
  <2> QED BY <1>2, <2>3, <2>4, GetMailEffect
<1>3. CASE write_mail_to_inbox(k)
  <2>1. UNCHANGED <<wire, mailbox, accepted, removed, lost>> /\ UNCHANGED clientVars
    BY <1>3 DEF write_mail_to_inbox
  <2>2. PICK text \in SUBSET Mails :
          Becomes(k, "QUIT", child[k].user, text, child[k].inbox, child[k].deleted, child[k].spoilt)
    BY <1>3, WriteMailEffect
  <2>3. \A j \in Children : child'[j].at \in HasUser => child'[j].user \in Users
    BY <2>2, UserStays DEF HasUser, PopPlaces
  <2> QED BY <1>0, <2>1, <2>2, <2>3 DEF ServerTypes, Becomes, Named
<1>4. CASE quit(k)
  <2>1. UNCHANGED <<mailbox, accepted, removed, lost>> /\ UNCHANGED clientVars
    BY <1>4 DEF quit
  <2>2. /\ wire' \in [Children -> Message] /\ wire'[k].is # "command"
        /\ \A j \in Children \ {k} : wire'[j] = wire[j]
        /\ Becomes(k, "exit", child[k].user, child[k].text, child[k].inbox, child[k].deleted, child[k].spoilt)
    BY <1>4, QuitSmtpEffect
  <2>3. \A j \in Children : child'[j].at \in HasUser => child'[j].user \in Users
    BY <2>2, UserStays DEF HasUser, PopPlaces
  <2> QED BY <1>0, <2>1, <2>2, <2>3 DEF ServerTypes, Becomes, Named
<1>5. CASE TakeUser(k)
  <2>1. UNCHANGED <<mailbox, accepted, removed, lost>> /\ UNCHANGED clientVars
    BY <1>5 DEF TakeUser
  <2>2. /\ wire' \in [Children -> Message] /\ wire'[k].is # "command"
        /\ \A j \in Children \ {k} : wire'[j] = wire[j]
    BY <1>5, TakeUserEffect
  <2>3. CASE Becomes(k, "exit", NOBODY, {}, {}, {}, {})
    <3>1. \A j \in Children : child'[j].at \in HasUser => child'[j].user \in Users
      BY <2>3, UserStays DEF HasUser, PopPlaces
    <3> QED BY <1>0, <2>1, <2>2, <2>3, <3>1 DEF ServerTypes, Becomes, Named
  <2>4. CASE /\ Becomes(k, "PASS", wire[k].user, child[k].text,
                        child[k].inbox, child[k].deleted, child[k].spoilt)
             /\ wire[k].user \in Users
    <3>1. \A j \in Children : child'[j].at \in HasUser => child'[j].user \in Users
      BY <2>4, UserStays
    <3> QED BY <1>0, <2>1, <2>2, <2>4, <3>1 DEF ServerTypes, Becomes, Named
  <2> QED BY <1>5, <2>3, <2>4, TakeUserEffect
<1>6. CASE TakePass(k)
  <2>1. UNCHANGED <<mailbox, accepted, removed, lost>> /\ UNCHANGED clientVars
    BY <1>6 DEF TakePass
  <2>2. /\ child[k].at = "PASS"
        /\ wire' \in [Children -> Message] /\ wire'[k].is # "command"
        /\ \A j \in Children \ {k} : wire'[j] = wire[j]
    BY <1>6, TakePassEffect
  <2>3. CASE Becomes(k, "exit", NOBODY, {}, {}, {}, {})
    <3>1. \A j \in Children : child'[j].at \in HasUser => child'[j].user \in Users
      BY <2>3, UserStays DEF HasUser, PopPlaces
    <3> QED BY <1>0, <2>1, <2>2, <2>3, <3>1 DEF ServerTypes, Becomes, Named
  <2>4. CASE Becomes(k, "get_inbox", child[k].user, child[k].text,
                     child[k].inbox, child[k].deleted, child[k].spoilt)
    <3>1. child[k].user \in Users
      BY <1>0, <2>2 DEF HasUser, PopPlaces
    <3>2. \A j \in Children : child'[j].at \in HasUser => child'[j].user \in Users
      BY <2>4, <3>1, UserStays
    <3> QED BY <1>0, <2>1, <2>2, <2>4, <3>2 DEF ServerTypes, Becomes, Named
  <2> QED BY <1>6, <2>3, <2>4, TakePassEffect
<1>7. CASE get_inbox(k)
  <2>1. UNCHANGED <<wire, mailbox, accepted, removed, lost>> /\ UNCHANGED clientVars
    BY <1>7 DEF get_inbox
  <2>2. child[k].at = "get_inbox"
    BY <1>7, GetInboxEffect
  <2>3. PICK S \in SUBSET Mails :
          Becomes(k, "TRANSACTION", child[k].user, child[k].text,
                  mailbox[child[k].user], child[k].deleted, S)
    BY <1>7, GetInboxEffect
  <2>4. child[k].user \in Users
    BY <1>0, <2>2 DEF HasUser, PopPlaces
  <2>5. \A j \in Children : child'[j].at \in HasUser => child'[j].user \in Users
    BY <2>3, <2>4, UserStays
  <2> QED BY <1>0, <2>1, <2>3, <2>5 DEF ServerTypes, Becomes, Named
<1>8. CASE Transaction(k)
  <2>1. UNCHANGED <<mailbox, accepted, removed, lost>> /\ UNCHANGED clientVars
    BY <1>8 DEF Transaction
  <2>2. /\ child[k].at = "TRANSACTION"
        /\ wire' \in [Children -> Message] /\ wire'[k].is # "command"
        /\ \A j \in Children \ {k} : wire'[j] = wire[j]
    BY <1>8, TransactionEffect
  <2>3. PICK deleted \in SUBSET Mails :
          Becomes(k, "TRANSACTION", child[k].user, child[k].text, child[k].inbox, deleted, child[k].spoilt)
    BY <1>8, TransactionEffect
  <2>4. child[k].user \in Users
    BY <1>0, <2>2 DEF HasUser, PopPlaces
  <2>5. \A j \in Children : child'[j].at \in HasUser => child'[j].user \in Users
    BY <2>3, <2>4, UserStays
  <2> QED BY <1>0, <2>1, <2>2, <2>3, <2>5 DEF ServerTypes, Becomes, Named
<1>9. CASE Quit(k)
  <2>1. UNCHANGED <<mailbox, accepted, removed, lost>> /\ UNCHANGED clientVars
    BY <1>9 DEF Quit
  <2>2. /\ child[k].at = "TRANSACTION"
        /\ wire' \in [Children -> Message] /\ wire'[k].is # "command"
        /\ \A j \in Children \ {k} : wire'[j] = wire[j]
        /\ Becomes(k, "UPDATE", child[k].user, child[k].text,
                   child[k].inbox, child[k].deleted, child[k].spoilt)
    BY <1>9, QuitPopEffect
  <2>3. child[k].user \in Users
    BY <1>0, <2>2 DEF HasUser, PopPlaces
  <2>4. \A j \in Children : child'[j].at \in HasUser => child'[j].user \in Users
    BY <2>2, <2>3, UserStays
  <2> QED BY <1>0, <2>1, <2>2, <2>4 DEF ServerTypes, Becomes, Named
<1>10. CASE Truncate(k)
  <2>1. UNCHANGED <<accepted, lost>> /\ UNCHANGED clientVars
    BY <1>10 DEF Truncate
  <2>2. child[k].at = "UPDATE" /\ child[k].user \in Users
    BY <1>0, <1>10, TruncateEffect DEF HasUser, PopPlaces
  <2>3. CASE /\ Becomes(k, "sign_off", child[k].user, child[k].text,
                        child[k].inbox, child[k].deleted, child[k].spoilt)
             /\ mailbox' = [mailbox EXCEPT ![child[k].user] = {}]
             /\ removed' = removed \union child[k].deleted
             /\ UNCHANGED wire
    <3>1. \A j \in Children : child'[j].at \in HasUser => child'[j].user \in Users
      BY <2>2, <2>3, UserStays
    <3>2. mailbox' \in [Users -> SUBSET Mails] /\ removed' \in SUBSET Mails
      BY <1>0, <2>3 DEF Process
    <3>3. wire' = wire /\ wire' \in [Children -> Message]
      BY <2>3
    <3> QED BY <1>0, <2>1, <2>3, <3>1, <3>2, <3>3 DEF ServerTypes, Becomes, Named
  <2>4. CASE /\ Becomes(k, "exit", NOBODY, {}, {}, {}, {})
             /\ wire' \in [Children -> Message] /\ wire'[k].is # "command"
             /\ \A j \in Children \ {k} : wire'[j] = wire[j]
             /\ UNCHANGED <<mailbox, removed>>
    <3>1. \A j \in Children : child'[j].at \in HasUser => child'[j].user \in Users
      BY <2>4, UserStays DEF HasUser, PopPlaces
    <3> QED BY <1>0, <2>1, <2>4, <3>1 DEF ServerTypes, Becomes, Named
  <2> QED BY <1>10, <2>3, <2>4, TruncateEffect
<1>11. CASE SignOff(k)
  <2>1. UNCHANGED <<mailbox, accepted, removed, lost>> /\ UNCHANGED clientVars
    BY <1>11 DEF SignOff
  <2>2. /\ child[k].at = "sign_off"
        /\ wire' \in [Children -> Message] /\ wire'[k].is # "command"
        /\ \A j \in Children \ {k} : wire'[j] = wire[j]
        /\ Becomes(k, "fclose", child[k].user, child[k].text,
                   child[k].inbox, child[k].deleted, child[k].spoilt)
    BY <1>11, SignOffEffect
  <2>3. child[k].user \in Users
    BY <1>0, <2>2 DEF HasUser, PopPlaces
  <2>4. \A j \in Children : child'[j].at \in HasUser => child'[j].user \in Users
    BY <2>2, <2>3, UserStays
  <2> QED BY <1>0, <2>1, <2>2, <2>4 DEF ServerTypes, Becomes, Named
<1>12. CASE Fclose(k)
  <2>1. UNCHANGED <<wire, accepted, removed, lost>> /\ UNCHANGED clientVars
    BY <1>12 DEF Fclose
  <2>2. Becomes(k, "exit", NOBODY, {}, {}, {}, {}) /\ mailbox' \in [Users -> SUBSET Mails]
    BY <1>12, FcloseEffect
  <2>3. \A j \in Children : child'[j].at \in HasUser => child'[j].user \in Users
    BY <2>2, UserStays DEF HasUser, PopPlaces
  <2> QED BY <1>0, <2>1, <2>2, <2>3 DEF ServerTypes, Becomes, Named
<1>13. CASE exit(k)
  <2>1. UNCHANGED <<wire, accepted, removed, lost>> /\ UNCHANGED clientVars
    BY <1>13 DEF exit
  <2>2. Becomes(k, "free", NOBODY, {}, {}, {}, {}) /\ mailbox' \in [Users -> SUBSET Mails]
    BY <1>13, ExitEffect
  <2>3. \A j \in Children : child'[j].at \in HasUser => child'[j].user \in Users
    BY <2>2, UserStays DEF HasUser, PopPlaces
  <2> QED BY <1>0, <2>1, <2>2, <2>3 DEF ServerTypes, Becomes, Named
<1>14. CASE Kill(k)
  <2>1. UNCHANGED <<mailbox, accepted, removed>> /\ UNCHANGED clientVars
    BY <1>14 DEF Kill
  <2>2. /\ Becomes(k, "free", NOBODY, {}, {}, {}, {})
        /\ wire' \in [Children -> Message] /\ wire'[k].is # "command"
        /\ \A j \in Children \ {k} : wire'[j] = wire[j]
        /\ lost' \in SUBSET Mails
    BY <1>0, <1>14, KillEffect
  <2>3. \A j \in Children : child'[j].at \in HasUser => child'[j].user \in Users
    BY <2>2, UserStays DEF HasUser, PopPlaces
  <2> QED BY <1>0, <2>1, <2>2, <2>3 DEF ServerTypes, Becomes, Named
<1> QED BY <1>1, <1>2, <1>3, <1>4, <1>5, <1>6, <1>7, <1>8, <1>9, <1>10, <1>11, <1>12, <1>13, <1>14
        DEF ServerStep, SmtpStep, PopStep

-----------------------------------------------------------------------------
(* The steps of the clients keep the sessions.                             *)

\* A step that says something which has nothing to do with sending a mail.
LEMMA SayKeepsSession ==
  ASSUME SessionInv, NEW c \in Programs, NEW k \in Children, client[c].conn = {k},
         NEW at \in ClientPlaces \ (SmtpPlaces \union {"greeting"}),
         NEW message \in Message, message.is = "command" => message.verb # "text",
         Say(c, k, at, message)
  PROVE  SessionInv'
<1> DEFINE mail == IF at \in {"LIST", "prompt"} THEN {} ELSE client[c].mail
<1>1. Talks(c, k, at, mail, message)
  BY SayEffect DEF SessionInv
<1> HIDE DEF mail
<1>2. Fits(c, k, at, mail, message)
  BY DEF Fits, SmtpPlaces
<1> QED BY <1>1, <1>2, TalkKeepsSession

\* The same for a step that chooses the mails it is about.
LEMMA ChooseKeepsSession ==
  ASSUME SessionInv, NEW c \in Programs, NEW k \in Children, client[c].conn = {k},
         NEW at \in ClientPlaces \ (SmtpPlaces \union {"greeting"}),
         NEW message \in Message, message.is = "command" => message.verb # "text",
         Send(k, message), UNCHANGED serverVars, UNCHANGED <<connected, sent>>,
         client' \in [Programs -> Program], client'[c].at = at, client'[c].conn = client[c].conn,
         \A d \in Programs \ {c} : client'[d] = client[d]
  PROVE  SessionInv'
<1>1. Talks(c, k, at, client'[c].mail, message)
  BY SendEffect DEF Talks, SessionInv
<1>2. Fits(c, k, at, client'[c].mail, message)
  BY DEF Fits, SmtpPlaces
<1> QED BY <1>1, <1>2, TalkKeepsSession

LEMMA ComposeKeepsSession ==
  ASSUME SessionInv, NEW c \in Clients, NEW k \in Children, Compose(c, k)
  PROVE  SessionInv'
<1>0. /\ c \in Programs /\ client[c].conn = {k} /\ client[c].at = "greeting"
      /\ client \in [Programs -> Program]
      /\ wire \in [Children -> Message]
  BY ClientsDiffer DEF Compose, Heard, SessionInv, ClientTypes
<1>1. ASSUME NEW m \in Mails,
             Send(k, Right("HELO", NOBODY, {})),
             client' = [client EXCEPT ![c].at = "HELO", ![c].mail = {m}],
             UNCHANGED <<connected, sent>>, UNCHANGED serverVars
      PROVE  SessionInv'
  <2> DEFINE message == Right("HELO", NOBODY, {})
  <2>1. message \in Message /\ message.verb = "HELO"
    BY DEF Right, Command, Message, SmtpVerbs
  <2>2. Send(k, message)
    BY <1>1
  <2> HIDE DEF message
  <2>3. /\ client' \in [Programs -> Program]
        /\ client'[c].at = "HELO" /\ client'[c].conn = client[c].conn /\ client'[c].mail = {m}
        /\ \A d \in Programs \ {c} : client'[d] = client[d]
    BY <1>0, <1>1 DEF Program, SmtpPlaces
  <2>4. Talks(c, k, "HELO", {m}, message)
    BY <1>0, <1>1, <2>1, <2>2, <2>3, SendEffect DEF Talks
  <2>5. child[k].at \notin Named
    BY <1>0 DEF SessionInv, Session, NotNamed
  <2>6. Fits(c, k, "HELO", {m}, message)
    BY <2>1, <2>5 DEF Fits
  <2> QED BY <1>0, <2>4, <2>6, TalkKeepsSession
<1>2. CASE Close(c, k) /\ UNCHANGED sent
  <2>1. Closes(c, k) /\ sent' \in SUBSET Mails
    BY <1>0, <1>2, CloseEffect DEF SessionInv, ClientTypes
  <2> QED BY <1>0, <2>1, CloseKeepsSession
<1> QED BY <1>1, <1>2 DEF Compose

LEMMA SendMailKeepsSession ==
  ASSUME SessionInv, NEW c \in Clients, NEW k \in Children, send_mail(c, k)
  PROVE  SessionInv'
<1>0. /\ c \in Programs /\ client[c].conn = {k} /\ client[c].at \in SmtpPlaces \ {"write", "QUIT"}
      /\ client \in [Programs -> Program]
      /\ wire \in [Children -> Message]
  BY ClientsDiffer DEF send_mail, Heard, SessionInv, ClientTypes
<1>1. PICK m \in Mails : client[c].mail = {m}
  BY <1>0 DEF SessionInv, ClientTypes, OneMail
<1>2. CASE wire[k].ok
  <2> DEFINE verb == client[c].at
             command == NextCommand(verb, {m})
  <2>1. Say(c, k, command.verb, command)
    BY <1>1, <1>2 DEF send_mail
  <2> DEFINE named == CHOOSE u \in Users \union {NOBODY} : \A n \in {m} : u = To[n]
  <2>2. named \in Users \union {NOBODY} /\ named = To[m]
    BY MailAssumption
  <2>3. verb \in {"HELO", "MAIL", "RCPT", "DATA", "text"}
    BY <1>0, <1>2 DEF SmtpPlaces
  <2>4. /\ verb = "HELO" => command = Right("MAIL", NOBODY, {})
        /\ verb = "MAIL" => command = Right("RCPT", named, {})
        /\ verb = "RCPT" => command = Right("DATA", NOBODY, {})
        /\ verb = "DATA" => command = Right("text", NOBODY, {m})
        /\ verb = "text" => command = Right("QUIT", NOBODY, {})
    BY DEF NextCommand
  <2>5. /\ child[k].at \in Named => verb \notin {"HELO", "MAIL"}
        /\ (verb \in {"RCPT", "DATA"} /\ child[k].at \in Named) => child[k].user = To[m]
    BY <1>0, <1>1 DEF SessionInv, Session, NotNamed, NamedRight, For
  <2> HIDE DEF named, command, verb
  <2>6. /\ command \in Message
        /\ command.verb \in {"MAIL", "RCPT", "DATA", "text", "QUIT"}
        /\ command.verb = "MAIL" => verb = "HELO"
        /\ command.verb = "RCPT" => verb = "MAIL" /\ command.user = To[m]
        /\ command.verb = "DATA" => verb = "RCPT"
        /\ command.verb = "text" => verb = "DATA" /\ command.mails = {m}
    <3>1. CASE verb = "HELO"
      <4>1. command = Right("MAIL", NOBODY, {})
        BY <3>1, <2>4
      <4>2. "MAIL" \in Verbs /\ NOBODY \in Users \union {NOBODY} /\ {} \in SUBSET Mails
        BY SMT DEF Verbs, SmtpVerbs
      <4>3. /\ Right("MAIL", NOBODY, {}) \in Message
            /\ Right("MAIL", NOBODY, {}).verb = "MAIL"
            /\ Right("MAIL", NOBODY, {}).user = NOBODY
            /\ Right("MAIL", NOBODY, {}).mails = {}
        BY <4>2, RightCommandType
      <4> QED BY <3>1, <4>1, <4>3
    <3>2. CASE verb = "MAIL"
      <4>1. command = Right("RCPT", named, {})
        BY <3>2, <2>4
      <4>2. "RCPT" \in Verbs /\ named \in Users \union {NOBODY} /\ {} \in SUBSET Mails
        BY <2>2, SMT DEF Verbs, SmtpVerbs
      <4>3. /\ Right("RCPT", named, {}) \in Message
            /\ Right("RCPT", named, {}).verb = "RCPT"
            /\ Right("RCPT", named, {}).user = named
            /\ Right("RCPT", named, {}).mails = {}
        BY <4>2, RightCommandType
      <4> QED BY <3>2, <2>2, <4>1, <4>3
    <3>3. CASE verb = "RCPT"
      <4>1. command = Right("DATA", NOBODY, {})
        BY <3>3, <2>4
      <4>2. "DATA" \in Verbs /\ NOBODY \in Users \union {NOBODY} /\ {} \in SUBSET Mails
        BY SMT DEF Verbs, SmtpVerbs
      <4>3. /\ Right("DATA", NOBODY, {}) \in Message
            /\ Right("DATA", NOBODY, {}).verb = "DATA"
            /\ Right("DATA", NOBODY, {}).user = NOBODY
            /\ Right("DATA", NOBODY, {}).mails = {}
        BY <4>2, RightCommandType
      <4> QED BY <3>3, <4>1, <4>3
    <3>4. CASE verb = "DATA"
      <4>1. command = Right("text", NOBODY, {m})
        BY <3>4, <2>4
      <4>2. "text" \in Verbs /\ NOBODY \in Users \union {NOBODY} /\ {m} \in SUBSET Mails
        BY SMT DEF Verbs, SmtpVerbs
      <4>3. /\ Right("text", NOBODY, {m}) \in Message
            /\ Right("text", NOBODY, {m}).verb = "text"
            /\ Right("text", NOBODY, {m}).user = NOBODY
            /\ Right("text", NOBODY, {m}).mails = {m}
        BY <4>2, RightCommandType
      <4> QED BY <3>4, <4>1, <4>3
    <3>5. CASE verb = "text"
      <4>1. command = Right("QUIT", NOBODY, {})
        BY <3>5, <2>4
      <4>2. "QUIT" \in Verbs /\ NOBODY \in Users \union {NOBODY} /\ {} \in SUBSET Mails
        BY SMT DEF Verbs, SmtpVerbs
      <4>3. /\ Right("QUIT", NOBODY, {}) \in Message
            /\ Right("QUIT", NOBODY, {}).verb = "QUIT"
            /\ Right("QUIT", NOBODY, {}).user = NOBODY
            /\ Right("QUIT", NOBODY, {}).mails = {}
        BY <4>2, RightCommandType
      <4> QED BY <3>5, <4>1, <4>3
    <3> QED BY <2>3, <3>1, <3>2, <3>3, <3>4, <3>5
  <2>7. Talks(c, k, command.verb, {m}, command)
    <3>1. command.verb \in ClientPlaces /\ command.verb \notin {"LIST", "prompt"}
      BY <2>6 DEF ClientPlaces, SmtpPlaces
    <3>2. Talks(c, k, command.verb, IF command.verb \in {"LIST", "prompt"} THEN {} ELSE client[c].mail, command)
      BY <1>0, <2>1, <2>6, <3>1, SayEffect DEF SessionInv
    <3> QED BY <1>1, <3>1, <3>2
  <2>8. Fits(c, k, command.verb, {m}, command)
    BY <2>5, <2>6 DEF Fits, For, Named
  <2> QED BY <1>0, <2>7, <2>8, TalkKeepsSession
<1>3. CASE Close(c, k) /\ UNCHANGED sent
  <2>1. Closes(c, k) /\ sent' \in SUBSET Mails
    BY <1>0, <1>3, CloseEffect DEF SessionInv, ClientTypes
  <2> QED BY <1>0, <2>1, CloseKeepsSession
<1> QED BY <1>2, <1>3 DEF send_mail

LEMMA SentKeepsSession ==
  ASSUME SessionInv, NEW c \in Clients, NEW k \in Children, Sent(c, k)
  PROVE  SessionInv'
<1>0. /\ c \in Programs /\ client[c].conn = {k}
      /\ client \in [Programs -> Program]
  BY ClientsDiffer DEF Sent, Heard, SessionInv, ClientTypes
<1>1. Closes(c, k)
  BY <1>0, CloseEffect DEF Sent, SessionInv
<1>2. sent' \in SUBSET Mails
  BY <1>0 DEF Sent, SessionInv, ClientTypes, Program
<1> QED BY <1>0, <1>1, <1>2, CloseKeepsSession

LEMMA CloseAlone ==
  ASSUME SessionInv, NEW c \in Programs, NEW k \in Children, client[c].conn = {k},
         Close(c, k), UNCHANGED sent
  PROVE  SessionInv'
<1>1. Closes(c, k) /\ sent' \in SUBSET Mails
  BY CloseEffect DEF SessionInv, ClientTypes
<1> QED BY <1>1, CloseKeepsSession

\* The commands and the places of the client's POP3 sessions.
LEMMA PopCommands ==
  ASSUME NEW verb \in PopVerbs, NEW user \in Users \union {NOBODY}, NEW mails \in SUBSET Mails
  PROVE  /\ Right(verb, user, mails) \in Message
         /\ Right(verb, user, mails).verb # "text"
<1>1. verb \in Verbs /\ verb # "text"
  BY DEF Verbs, PopVerbs
<1> QED BY <1>1, RightCommandType

MailPlaces == {"USER", "PASS", "LIST", "row", "prompt", "mail", "DELE", "signing_off", "other"}

LEMMA MailPlacesAreOthers == MailPlaces \subseteq ClientPlaces \ (SmtpPlaces \union {"greeting"})
BY DEF MailPlaces, ClientPlaces, SmtpPlaces, PopPlaces

LEMMA PopSays ==
  ASSUME SessionInv, NEW c \in Clients, NEW k \in Children, client[c].conn = {k},
         NEW at \in MailPlaces, NEW verb \in PopVerbs, NEW user \in Users \union {NOBODY},
         NEW mails \in SUBSET Mails, Say(c, k, at, Right(verb, user, mails))
  PROVE  SessionInv'
<1> DEFINE command == Right(verb, user, mails)
<1>1. command \in Message /\ command.verb # "text"
  BY PopCommands
<1>2. Say(c, k, at, command) /\ c \in Programs
  BY ClientsDiffer
<1> HIDE DEF command
<1> QED BY <1>1, <1>2, MailPlacesAreOthers, SayKeepsSession

LEMMA PopVerbsAre == {"USER", "PASS", "LIST", "RETR", "DELE", "QUIT"} \subseteq PopVerbs
BY DEF PopVerbs

LEMMA AuthenticateKeepsSession ==
  ASSUME SessionInv, NEW c \in Clients, NEW k \in Children, authenticate(c, k)
  PROVE  SessionInv'
<1>0. client[c].conn = {k} /\ c \in Programs /\ Login[c] \in Users \union {NOBODY}
  BY ClientsDiffer, MailAssumption DEF authenticate, Heard
<1>p. /\ "USER" \in MailPlaces /\ "PASS" \in MailPlaces /\ "LIST" \in MailPlaces
      /\ "USER" \in PopVerbs /\ "PASS" \in PopVerbs /\ "LIST" \in PopVerbs
  BY DEF MailPlaces, PopVerbs
<1>1. CASE Say(c, k, "USER", Right("USER", Login[c], {}))
  BY <1>0, <1>p, <1>1, PopSays
<1>2. CASE Say(c, k, "PASS", Right("PASS", NOBODY, {}))
  <2>1. NOBODY \in Users \union {NOBODY} /\ {} \in SUBSET Mails
    OBVIOUS
  <2> QED BY <1>0, <1>p, <1>2, <2>1, PopSays
<1>3. CASE Say(c, k, "LIST", LIST)
  BY <1>0, <1>p, <1>3, PopSays DEF LIST
<1>4. CASE Close(c, k) /\ UNCHANGED sent
  BY <1>0, <1>4, CloseAlone
<1> QED BY <1>1, <1>2, <1>3, <1>4 DEF authenticate

LEMMA DisplayInboxKeepsSession ==
  ASSUME SessionInv, NEW c \in Clients, NEW k \in Children, display_inbox(c, k)
  PROVE  SessionInv'
<1>0. /\ client[c].conn = {k} /\ c \in Programs
      /\ client \in [Programs -> Program]
      /\ wire \in [Children -> Message]
  BY ClientsDiffer DEF display_inbox, Heard, SessionInv, ClientTypes
<1>p. "signing_off" \in MailPlaces /\ "row" \in MailPlaces /\ "prompt" \in MailPlaces
  BY DEF MailPlaces
<1>1. CASE Say(c, k, "signing_off", POPQUIT)
  <2>1. "QUIT" \in PopVerbs /\ NOBODY \in Users \union {NOBODY} /\ {} \in SUBSET Mails
    BY PopVerbsAre
  <2> QED BY <1>0, <1>p, <1>1, <2>1, PopSays DEF POPQUIT
<1> DEFINE all == IF client[c].at = "LIST" THEN wire[k].mails ELSE client[c].rows
<1>2. all \in SUBSET Mails
  BY <1>0 DEF Message, Program
<1>3. ASSUME NEW rows \in SUBSET Mails, Rows(c, k, rows)
      PROVE  SessionInv'
  <2>1. UNCHANGED serverVars /\ UNCHANGED <<connected, sent>>
    BY <1>3 DEF Rows
  <2>2. CASE rows # {}
    <3> DEFINE m == CHOOSE m \in rows : TRUE
               message == Right("RETR", NOBODY, {m})
    <3>1. m \in rows
      BY <2>2
    <3>2. Send(k, message) /\ client' = [client EXCEPT ![c].at = "row", ![c].rows = rows \ {m}]
      BY <1>3, <2>2 DEF Rows, RETR
    <3> HIDE DEF m
    <3>3. message \in Message /\ message.verb # "text"
      <4>1. "RETR" \in PopVerbs /\ {m} \in SUBSET Mails /\ NOBODY \in Users \union {NOBODY}
        BY <3>1, PopVerbsAre
      <4> QED BY <4>1, PopCommands
    <3> HIDE DEF message
    <3>4. /\ client' \in [Programs -> Program]
          /\ client'[c].at = "row" /\ client'[c].conn = client[c].conn
          /\ \A d \in Programs \ {c} : client'[d] = client[d]
      BY <1>0, <3>2 DEF Program
    <3> QED BY <1>0, <1>p, <2>1, <3>2, <3>3, <3>4, MailPlacesAreOthers, ChooseKeepsSession
  <2>3. CASE rows = {}
    <3>1. Send(k, QUIET) /\ client' = [client EXCEPT ![c].at = "prompt", ![c].rows = {}]
      BY <1>3, <2>3 DEF Rows
    <3>2. /\ client' \in [Programs -> Program]
          /\ client'[c].at = "prompt" /\ client'[c].conn = client[c].conn
          /\ \A d \in Programs \ {c} : client'[d] = client[d]
      BY <1>0, <3>1 DEF Program
    <3>3. QUIET \in Message /\ QUIET.is # "command"
      BY QuietType
    <3> QED BY <1>0, <1>p, <2>1, <3>1, <3>2, <3>3, MailPlacesAreOthers, ChooseKeepsSession
  <2> QED BY <2>2, <2>3
<1>4. CASE Rows(c, k, all)
  <2> HIDE DEF all
  <2> QED BY <1>2, <1>3, <1>4
<1> QED BY <1>1, <1>4 DEF display_inbox

LEMMA PromptKeepsSession ==
  ASSUME SessionInv, NEW c \in Clients, NEW k \in Children, Prompt(c, k)
  PROVE  SessionInv'
<1>0. /\ client[c].conn = {k} /\ c \in Programs
      /\ client \in [Programs -> Program]
  BY ClientsDiffer DEF Prompt, SessionInv, ClientTypes
<1>p. "signing_off" \in MailPlaces /\ "mail" \in MailPlaces
  BY DEF MailPlaces
<1>1. CASE Say(c, k, "signing_off", POPQUIT)
  BY <1>0, <1>p, <1>1, PopSays, PopVerbsAre DEF POPQUIT
<1>2. ASSUME NEW m \in Mails,
             Send(k, RETR(m)),
             client' = [client EXCEPT ![c].at = "mail", ![c].mail = {m}],
             UNCHANGED <<connected, sent>>, UNCHANGED serverVars
      PROVE  SessionInv'
  <2> DEFINE message == Right("RETR", NOBODY, {m})
  <2>1. message \in Message /\ message.verb # "text"
    <3>1. "RETR" \in PopVerbs /\ {m} \in SUBSET Mails /\ NOBODY \in Users \union {NOBODY}
      BY PopVerbsAre
    <3> QED BY <3>1, PopCommands
  <2>2. Send(k, message)
    BY <1>2 DEF RETR
  <2> HIDE DEF message
  <2>3. /\ client' \in [Programs -> Program]
        /\ client'[c].at = "mail" /\ client'[c].conn = client[c].conn
        /\ \A d \in Programs \ {c} : client'[d] = client[d]
    BY <1>0, <1>2 DEF Program
  <2> QED BY <1>0, <1>p, <1>2, <2>1, <2>2, <2>3, MailPlacesAreOthers, ChooseKeepsSession
<1> QED BY <1>1, <1>2 DEF Prompt

LEMMA DisplayEmailKeepsSession ==
  ASSUME SessionInv, NEW c \in Clients, NEW k \in Children, display_email(c, k)
  PROVE  SessionInv'
<1>0. /\ client[c].conn = {k} /\ c \in Programs
      /\ client[c].mail \in SUBSET Mails
  BY ClientsDiffer DEF display_email, Heard, SessionInv, ClientTypes, Program
<1>p. "DELE" \in MailPlaces /\ "LIST" \in MailPlaces /\ "prompt" \in MailPlaces
  BY DEF MailPlaces
<1>1. CASE Say(c, k, "DELE", Right("DELE", NOBODY, client[c].mail))
  BY <1>0, <1>p, <1>1, PopSays, PopVerbsAre
<1>2. CASE Say(c, k, "LIST", LIST)
  BY <1>0, <1>p, <1>2, PopSays, PopVerbsAre DEF LIST
<1>3. CASE Say(c, k, "prompt", QUIET)
  <2>1. QUIET \in Message /\ QUIET.is # "command"
    BY QuietType
  <2> QED BY <1>0, <1>p, <1>3, <2>1, MailPlacesAreOthers, SayKeepsSession
<1> QED BY <1>1, <1>2, <1>3 DEF display_email

LEMMA ManageMailKeepsSession ==
  ASSUME SessionInv, NEW c \in Clients, NEW k \in Children, manage_mail(c, k)
  PROVE  SessionInv'
<1>0. c \in Programs
  BY ClientsDiffer
<1>1. CASE Heard(c, k, "DELE") /\ Say(c, k, "LIST", LIST)
  <2>1. client[c].conn = {k} /\ "LIST" \in MailPlaces
    BY <1>1 DEF Heard, MailPlaces
  <2> QED BY <1>1, <2>1, PopSays, PopVerbsAre DEF LIST
<1>2. CASE Heard(c, k, "signing_off") /\ Close(c, k) /\ UNCHANGED sent
  BY <1>0, <1>2, CloseAlone DEF Heard
<1> QED BY <1>1, <1>2, AuthenticateKeepsSession, DisplayInboxKeepsSession, DisplayEmailKeepsSession
        DEF manage_mail

LEMMA ClientStepKeepsSession ==
  ASSUME SessionInv, NEW c \in Clients, NEW k \in Children, ClientStep(c, k)
  PROVE  SessionInv'
<1>1. CASE Hangup(c, k)
  BY <1>1, ClientsDiffer, CloseAlone DEF Hangup
<1> QED BY <1>1, SendMailKeepsSession, SentKeepsSession, ManageMailKeepsSession DEF ClientStep

LEMMA LeaveKeepsSession ==
  ASSUME SessionInv, NEW c \in Programs, NEW k \in Children, Leave(c, k)
  PROVE  SessionInv'
BY CloseAlone DEF Leave

\* Another program sends a command that is not a text.
LEMMA AskKeepsSession ==
  ASSUME SessionInv, NEW c \in Others, NEW k \in Children, client[c].conn = {k},
         NEW verb \in Verbs \ {"text", "reply"}, NEW user \in Users \union {NOBODY},
         NEW mails \in SUBSET Mails, NEW ok \in BOOLEAN, Ask(c, k, verb, user, mails, ok)
  PROVE  SessionInv'
<1> DEFINE command == Command(verb, user, mails, ok)
<1>1. command \in Message /\ command.verb # "text"
  BY DEF Command, Message, Verbs
<1>2. "other" \in ClientPlaces \ (SmtpPlaces \union {"greeting"}) /\ c \in Programs
  BY DEF ClientPlaces, SmtpPlaces, Programs
<1>3. Say(c, k, "other", command)
  BY DEF Ask
<1> HIDE DEF command
<1> QED BY <1>1, <1>2, <1>3, SayKeepsSession

LEMMA DoKeepsSession ==
  ASSUME SessionInv, NEW c \in Others, NEW k \in Children, client[c].conn = {k},
         NEW verb \in Verbs \ {"text", "reply"}, NEW user \in Users \union {NOBODY},
         NEW mails \in SUBSET Mails, Do(c, k, verb, user, mails)
  PROVE  SessionInv'
<1> DEFINE command == Right(verb, user, mails)
<1>1. command \in Message /\ command.verb # "text"
  BY RightCommandType
<1>2. "other" \in ClientPlaces \ (SmtpPlaces \union {"greeting"}) /\ c \in Programs
  BY DEF ClientPlaces, SmtpPlaces, Programs
<1>3. Say(c, k, "other", command)
  BY DEF Do
<1> HIDE DEF command
<1> QED BY <1>1, <1>2, <1>3, SayKeepsSession

\* The text of another program goes to the user whom it has named.
LEMMA TextKeepsSession ==
  ASSUME SessionInv, NEW c \in Others, NEW k \in Children, client[c].conn = {k},
         NEW m \in Mails, To[m] = child[k].user, NEW ok \in BOOLEAN,
         Ask(c, k, "text", NOBODY, {m}, ok)
  PROVE  SessionInv'
<1> DEFINE command == Command("text", NOBODY, {m}, ok)
<1>0. c \in Programs
  BY DEF Programs
<1>1. command \in Message /\ For(child[k].user, command.mails)
  BY DEF Command, Message, SmtpVerbs, For
<1>2. Say(c, k, "other", command)
  BY DEF Ask
<1> HIDE DEF command
<1>3. "other" \in ClientPlaces /\ "other" # "LIST" /\ c \notin Clients
  BY ClientsDiffer DEF ClientPlaces
<1>4. Talks(c, k, "other", client[c].mail, command)
  <2>1. Talks(c, k, "other", IF "other" \in {"LIST", "prompt"} THEN {} ELSE client[c].mail, command)
    BY <1>0, <1>1, <1>2, <1>3, SayEffect DEF SessionInv
  <2> QED BY <2>1
<1>5. Fits(c, k, "other", client[c].mail, command)
  BY <1>1, <1>3 DEF Fits
<1> QED BY <1>0, <1>1, <1>4, <1>5, TalkKeepsSession

\* Whatever another program says.
LEMMA OtherStepKeepsSession ==
  ASSUME SessionInv, NEW c \in Others, NEW k \in Children, OtherStep(c, k)
  PROVE  SessionInv'
<1> DEFINE at == child[k].at
<1>0. client[c].conn = {k} /\ NOBODY \in Users \union {NOBODY} /\ {} \in SUBSET Mails
  BY DEF OtherStep
<1>1. CASE \E m \in Mails, ok \in BOOLEAN : To[m] = child[k].user /\ Ask(c, k, "text", NOBODY, {m}, ok)
  BY <1>0, <1>1, TextKeepsSession
<1>2. CASE at \in {"USER", "RCPT"} /\ \E u \in Users \union {NOBODY} : Do(c, k, at, u, {})
  <2>1. at \in Verbs \ {"text", "reply"}
    BY <1>2 DEF Verbs, SmtpVerbs, PopVerbs
  <2> QED BY <1>0, <1>2, <2>1, DoKeepsSession
<1>3. CASE \E verb \in {"STAT", "LIST", "RSET", "QUIT", "HELO"} : Do(c, k, verb, NOBODY, {})
  <2>1. {"STAT", "LIST", "RSET", "QUIT", "HELO"} \subseteq Verbs \ {"text", "reply"}
    BY DEF Verbs, SmtpVerbs, PopVerbs
  <2> QED BY <1>0, <1>3, <2>1, DoKeepsSession
<1>4. CASE \E verb \in {"LIST", "RETR", "DELE"}, m \in Mails : Do(c, k, verb, NOBODY, {m})
  <2>1. {"LIST", "RETR", "DELE"} \subseteq Verbs \ {"text", "reply"}
    BY DEF Verbs, SmtpVerbs, PopVerbs
  <2>2. \A m \in Mails : {m} \in SUBSET Mails
    OBVIOUS
  <2> QED BY <1>0, <1>4, <2>1, <2>2, DoKeepsSession
<1>5. CASE at \in {"MAIL", "PASS"} /\ \E ok \in BOOLEAN : Ask(c, k, at, NOBODY, {}, ok)
  <2>1. at \in Verbs \ {"text", "reply"}
    BY <1>5 DEF Verbs, SmtpVerbs, PopVerbs
  <2> QED BY <1>0, <1>5, <2>1, AskKeepsSession
<1>6. CASE at \in {"HELO", "DATA", "QUIT"} /\ Do(c, k, at, NOBODY, {})
  <2>1. at \in Verbs \ {"text", "reply"}
    BY <1>6 DEF Verbs, SmtpVerbs, PopVerbs
  <2> QED BY <1>0, <1>6, <2>1, DoKeepsSession
<1>7. CASE Do(c, k, "STAT", NOBODY, {})
  <2>1. "STAT" \in Verbs \ {"text", "reply"}
    BY DEF Verbs, SmtpVerbs, PopVerbs
  <2> QED BY <1>0, <1>7, <2>1, DoKeepsSession
<1> QED BY <1>1, <1>2, <1>3, <1>4, <1>5, <1>6, <1>7 DEF OtherStep

LEMMA InitSession == Init => SessionInv
<1> SUFFICES ASSUME Init PROVE SessionInv
  OBVIOUS
<1>1. /\ child = [k \in Children |-> IDLE]
      /\ connected = [k \in Children |-> FALSE]
      /\ wire = [k \in Children |-> QUIET]
      /\ mailbox = [u \in Users |-> {m \in Old : To[m] = u}]
      /\ client = [c \in Programs |-> [at |-> "menu", conn |-> {}, mail |-> {}, rows |-> {}]]
      /\ accepted = Old /\ sent = {} /\ removed = {} /\ lost = {}
  BY DEF Init, Programs
<1>2. \A k \in Children : child[k] = IDLE /\ IDLE.at = "free" /\ wire[k] = QUIET
  BY <1>1 DEF IDLE
<1>3. \A c \in Programs : client[c].at = "menu" /\ client[c].conn = {}
  BY <1>1
<1>4. ServerTypes
  <2>1. Old \subseteq Mails
    BY MailAssumption
  <2>2. child \in [Children -> Process]
    BY <1>1, IdleType
  <2> QED BY <1>1, <1>2, <2>1, <2>2 DEF ServerTypes, HasUser, PopPlaces
<1>5. ClientTypes
  <2>1. client \in [Programs -> Program]
    BY <1>1 DEF Program
  <2>2. OneMail
    BY <1>3, ClientsDiffer DEF OneMail, SmtpPlaces
  <2> QED BY <1>1, <2>1, <2>2 DEF ClientTypes
<1>6. wire \in [Children -> Message]
  BY <1>1, QuietType
<1>7. Session
  <2>1. \A c \in Programs : \A k \in Children : client[c].conn # {k}
    BY <1>3
  <2>2. \A k \in Children : ~Asked(k)
    BY <1>2, QuietType DEF Asked
  <2> QED BY <2>1, <2>2, ClientsDiffer
          DEF Session, OneClient, TextsAreFor, CommandOnWire, NotNamed, NamedRight
<1> QED BY <1>4, <1>5, <1>6, <1>7 DEF SessionInv

LEMMA NextSession == SessionInv /\ [Next]_vars => SessionInv'
<1> SUFFICES ASSUME SessionInv, [Next]_vars PROVE SessionInv'
  OBVIOUS
<1>1. ASSUME NEW k \in Children, ServerStep(k) \/ Kill(k) PROVE SessionInv'
  <2>1. ServerEffect(k)
    BY <1>1, ServerStepEffect DEF SessionInv
  <2> QED BY <2>1, ServerKeepsSession
<1>2. ASSUME NEW k \in Children, NEW c \in Clients, UserStep(c, k) PROVE SessionInv'
  <2>1. c \in Programs
    BY ClientsDiffer
  <2> QED BY <1>2, <2>1, ConnectKeepsSession, ComposeKeepsSession, PromptKeepsSession DEF UserStep
<1>3. ASSUME NEW k \in Children, NEW c \in Clients, ClientStep(c, k) PROVE SessionInv'
  BY <1>3, ClientStepKeepsSession
<1>4. ASSUME NEW k \in Children, NEW c \in Others,
             Connect(c, k, "HELO", "other") \/ Connect(c, k, "USER", "other") \/ OtherStep(c, k)
      PROVE  SessionInv'
  <2>1. c \in Programs
    BY DEF Programs
  <2> QED BY <1>4, <2>1, ConnectKeepsSession, OtherStepKeepsSession
<1>5. ASSUME NEW k \in Children, NEW c \in Programs, Leave(c, k) PROVE SessionInv'
  BY <1>5, LeaveKeepsSession
<1>6. CASE UNCHANGED vars
  BY <1>6 DEF vars, SessionInv, ServerTypes, ClientTypes, OneMail, Session, OneClient, TextsAreFor,
              CommandOnWire, NotNamed, NamedRight, Asked, For
<1> QED BY <1>1, <1>2, <1>3, <1>4, <1>5, <1>6 DEF Next, Programs

LEMMA SessionHolds == Spec => []SessionInv
<1>1. Init => SessionInv
  BY InitSession
<1>2. SessionInv /\ [Next]_vars => SessionInv'
  BY NextSession
<1> QED BY <1>1, <1>2, PTL DEF Spec

\* A server process that works on a mail or a mailbox does so for a user who
\* exists, and what goes over the connections is of the protocols, whatever
\* programs connect and however processes are killed.
THEOREM TypeCorrect == Spec => []TypeOK
<1>1. SessionInv => TypeOK
  BY TypeParts DEF SessionInv, TypeInv
<1> QED BY <1>1, SessionHolds, PTL
=============================================================================
