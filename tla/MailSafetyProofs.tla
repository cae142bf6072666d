--------------------------- MODULE MailSafetyProofs ---------------------------
(* No accepted mail is lost while one server process at a time has a       *)
(* mailbox in its hands, however processes are killed.                     *)
EXTENDS MailProofs

\* What the rules about a process p and its mailbox say, of the state before a
\* step and of the state after it.
HandsOf(p) == p.text \union (IF p.at \in {"sign_off", "fclose"} THEN p.inbox \ p.deleted ELSE {})
HeldBy(p, u) == p.user = u /\ (p.text # {} \/ p.at \in PopPlaces \ {"USER", "PASS"})

\* A mail is in the hands of a process that writes it or has written it to its
\* buffer, for a user; the copy of a session is what is in the file, until the
\* file is emptied, and then nothing is written to it by others.
InOrder(p, files) ==
  /\ p.text # {} => p.at \in {"write", "QUIT", "exit"} /\ p.user \in Users
  /\ p.spoilt = {}
  /\ p.at \in {"TRANSACTION", "UPDATE"} => p.inbox = files[p.user]
  /\ p.at \in {"sign_off", "fclose"} => files[p.user] = {}

Somewhere(m, processes, files, deletions, losses) ==
  \/ \E u \in Users : u = To[m] /\ m \in files[u]
  \/ \E k \in Children : processes[k].user = To[m] /\ m \in HandsOf(processes[k])
  \/ m \in deletions
  \/ m \in losses

Alone(processes) ==
  \A u \in Users : \A j, k \in Children : HeldBy(processes[j], u) /\ HeldBy(processes[k], u) => j = k

\* The inductive invariant, beside SessionInv.
MailInv ==
  /\ Alone(child)
  /\ \A k \in Children : InOrder(child[k], mailbox)
  /\ \A m \in accepted : Somewhere(m, child, mailbox, removed, lost)

LEMMA MailInvIsSafe == MailInv => NoMailLost
BY DEF MailInv, Somewhere, HandsOf, NoMailLost, InMailbox, OnItsWay, InHands, Kept

\* A process in the middle of a session holds the mailbox of its user.
LEMMA SessionHoldsMailbox ==
  ASSUME ServerTypes, NEW k \in Children,
         child[k].at \in {"TRANSACTION", "UPDATE", "sign_off", "fclose"}
  PROVE  child[k].user \in Users /\ HeldBy(child[k], child[k].user)
BY DEF ServerTypes, HasUser, HeldBy, PopPlaces

\* A step of one process that takes a mailbox only if nobody has it, writes
\* only to a mailbox that it has, and leaves every mail somewhere.
LEMMA StepKeepsMail ==
  ASSUME ServerTypes, MailInv, NEW k \in Children,
         \A j \in Children \ {k} : child'[j] = child[j],
         \A u \in Users : HeldBy(child'[k], u) =>
             HeldBy(child[k], u) \/ \A j \in Children \ {k} : ~HeldBy(child[j], u),
         \A u \in Users : mailbox'[u] = mailbox[u] \/ HeldBy(child[k], u),
         InOrder(child'[k], mailbox'),
         removed \subseteq removed', lost \subseteq lost',
         \A m \in accepted' \ accepted : Somewhere(m, child', mailbox', removed', lost'),
         \A m \in accepted : (\E u \in Users : u = To[m] /\ m \in mailbox[u]) =>
             Somewhere(m, child', mailbox', removed', lost'),
         \A m \in accepted : child[k].user = To[m] /\ m \in HandsOf(child[k]) =>
             Somewhere(m, child', mailbox', removed', lost')
  PROVE  MailInv'
<1>1. Alone(child')
  <2> SUFFICES ASSUME NEW u \in Users, NEW i \in Children, NEW j \in Children,
                      HeldBy(child'[i], u), HeldBy(child'[j], u), i # j
               PROVE  FALSE
    BY DEF Alone
  <2> QED BY DEF MailInv, Alone
<1>2. \A j \in Children : InOrder(child'[j], mailbox')
  <2> SUFFICES ASSUME NEW j \in Children \ {k} PROVE InOrder(child[j], mailbox')
    OBVIOUS
  <2>1. InOrder(child[j], mailbox)
    BY DEF MailInv
  <2>2. CASE child[j].at \in {"TRANSACTION", "UPDATE", "sign_off", "fclose"}
    <3>1. child[j].user \in Users /\ HeldBy(child[j], child[j].user)
      BY <2>2, SessionHoldsMailbox
    <3>2. ~HeldBy(child[k], child[j].user)
      BY <3>1 DEF MailInv, Alone
    <3>3. mailbox'[child[j].user] = mailbox[child[j].user]
      BY <3>1, <3>2
    <3> QED BY <2>1, <3>3 DEF InOrder
  <2> QED BY <2>1, <2>2 DEF InOrder
<1>3. \A m \in accepted' : Somewhere(m, child', mailbox', removed', lost')
  <2> SUFFICES ASSUME NEW m \in accepted PROVE Somewhere(m, child', mailbox', removed', lost')
    OBVIOUS
  <2>1. Somewhere(m, child, mailbox, removed, lost)
    BY DEF MailInv
  <2>2. CASE m \in removed \/ m \in lost
    BY <2>2 DEF Somewhere
  <2>3. CASE \E j \in Children \ {k} : child[j].user = To[m] /\ m \in HandsOf(child[j])
    BY <2>3 DEF Somewhere
  <2> QED BY <2>1, <2>2, <2>3 DEF Somewhere
<1> QED BY <1>1, <1>2, <1>3 DEF MailInv

\* A step that touches no file and no mail: what was in the hands of the
\* process stays there.
LEMMA HandsKeepMail ==
  ASSUME ServerTypes, MailInv, NEW k \in Children,
         \A j \in Children \ {k} : child'[j] = child[j],
         \A u \in Users : HeldBy(child'[k], u) =>
             HeldBy(child[k], u) \/ \A j \in Children \ {k} : ~HeldBy(child[j], u),
         InOrder(child'[k], mailbox),
         UNCHANGED <<mailbox, accepted, removed, lost>>,
         \/ HandsOf(child[k]) = {}
         \/ child'[k].user = child[k].user /\ HandsOf(child[k]) \subseteq HandsOf(child'[k])
  PROVE  MailInv'
<1>1. \A m \in accepted : (\E u \in Users : u = To[m] /\ m \in mailbox[u]) =>
             Somewhere(m, child', mailbox', removed', lost')
  BY DEF Somewhere
<1>2. \A m \in accepted : child[k].user = To[m] /\ m \in HandsOf(child[k]) =>
             Somewhere(m, child', mailbox', removed', lost')
  BY DEF Somewhere
<1> QED BY <1>1, <1>2, StepKeepsMail

-----------------------------------------------------------------------------
(* The steps.                                                              *)

\* One process at a time in a mailbox; processes may be killed, and no more
\* than that goes wrong.
Guarded == OneAtATime /\ Faults \subseteq {"kill"}

LEMMA MayHoldIsAlone ==
  ASSUME Guarded, NEW k \in Children, NEW u, MayHold(k, u)
  PROVE  \A j \in Children \ {k} : ~HeldBy(child[j], u)
BY DEF Guarded, MayHold, Holds, HeldBy

\* The process is done, and has nothing in its hands before or after.
LEMMA DoneKeepsMail ==
  ASSUME ServerTypes, MailInv, NEW k \in Children, NEW at \in {"exit", "free"},
         Becomes(k, at, NOBODY, {}, {}, {}, {}),
         HandsOf(child[k]) = {}, UNCHANGED <<mailbox, accepted, removed, lost>>
  PROVE  MailInv'
<1>1. InOrder(child'[k], mailbox)
  BY DEF Becomes, InOrder
<1>2. \A u \in Users : ~HeldBy(child'[k], u)
  BY DEF Becomes, HeldBy, PopPlaces
<1> QED BY <1>1, <1>2, HandsKeepMail DEF Becomes

\* Nothing is in the hands of a process but a text or what is left of a
\* mailbox that is being rewritten.
LEMMA NothingInHands ==
  ASSUME MailInv, NEW k \in Children,
         child[k].at \notin {"write", "QUIT", "exit", "sign_off", "fclose"}
  PROVE  HandsOf(child[k]) = {} /\ child[k].text = {} /\ child[k].spoilt = {}
BY DEF MailInv, InOrder, HandsOf

LEMMA SmtpStepKeepsMail ==
  ASSUME SessionInv, MailInv, Guarded, NEW k \in Children, SmtpStep(k)
  PROVE  MailInv'
<1>0. ServerTypes /\ wire \in [Children -> Message]
  BY DEF SessionInv
<1>i. InOrder(child[k], mailbox)
  BY DEF MailInv
<1>1. CASE TakeCommand(k)
  <2>1. child[k].at \in {"HELO", "MAIL", "RCPT", "DATA"} /\ UNCHANGED <<mailbox, accepted, removed, lost>>
    BY <1>0, <1>1, TakeCommandEffect DEF TakeCommand
  <2>2. HandsOf(child[k]) = {} /\ child[k].text = {} /\ child[k].spoilt = {}
    BY <2>1, NothingInHands
  <2>3. CASE Becomes(k, "exit", NOBODY, {}, {}, {}, {})
    BY <1>0, <2>1, <2>2, <2>3, DoneKeepsMail
  <2>4. ASSUME NEW u,
               Becomes(k, AfterCommand[child[k].at], u, child[k].text,
                       child[k].inbox, child[k].deleted, child[k].spoilt)
        PROVE  MailInv'
    <3>1. AfterCommand[child[k].at] \in {"MAIL", "RCPT", "DATA", "text"}
      BY <2>1 DEF AfterCommand
    <3>2. InOrder(child'[k], mailbox)
      BY <2>2, <2>4, <3>1 DEF Becomes, InOrder
    <3>3. \A v \in Users : ~HeldBy(child'[k], v)
      BY <2>2, <2>4, <3>1 DEF Becomes, HeldBy, PopPlaces
    <3> QED BY <1>0, <2>1, <2>2, <2>4, <3>2, <3>3, HandsKeepMail DEF Becomes
  <2> QED BY <1>0, <1>1, <2>3, <2>4, TakeCommandEffect
<1>2. CASE get_mail(k)
  <2>1. child[k].at = "text" /\ UNCHANGED <<mailbox, removed, lost>>
    BY <1>2 DEF get_mail
  <2>2. HandsOf(child[k]) = {} /\ child[k].text = {} /\ child[k].spoilt = {}
    BY <2>1, NothingInHands
  <2>3. CASE Becomes(k, "exit", NOBODY, {}, {}, {}, {}) /\ UNCHANGED accepted
    BY <1>0, <2>1, <2>2, <2>3, DoneKeepsMail
  <2>4. CASE /\ Becomes(k, "write", child[k].user, wire[k].mails,
                        child[k].inbox, child[k].deleted, child[k].spoilt)
             /\ MayHold(k, child[k].user)
             /\ accepted' = accepted \union wire[k].mails
    <3>1. For(child[k].user, wire[k].mails)
      BY <1>0, <1>2, GetMailEffect DEF SessionInv, Session, TextsAreFor
    <3>2. child[k].user \in Users
      BY <1>0, <2>1 DEF ServerTypes, HasUser
    <3>3. InOrder(child'[k], mailbox')
      BY <2>1, <2>2, <2>4, <3>2 DEF Becomes, InOrder
    <3>4. \A u \in Users : HeldBy(child'[k], u) => \A j \in Children \ {k} : ~HeldBy(child[j], u)
      <4>1. \A j \in Children \ {k} : ~HeldBy(child[j], child[k].user)
        BY <2>4, MayHoldIsAlone
      <4>2. \A u \in Users : HeldBy(child'[k], u) => u = child[k].user
        BY <2>4 DEF Becomes, HeldBy
      <4> QED BY <4>1, <4>2
    <3>5. \A m \in accepted' \ accepted : Somewhere(m, child', mailbox', removed', lost')
      <4> SUFFICES ASSUME NEW m \in wire[k].mails
                   PROVE  child'[k].user = To[m] /\ m \in HandsOf(child'[k])
        BY <2>4 DEF Somewhere
      <4> QED BY <2>4, <3>1 DEF For, Becomes, HandsOf
    <3>6. \A m \in accepted : (\E u \in Users : u = To[m] /\ m \in mailbox[u]) =>
             Somewhere(m, child', mailbox', removed', lost')
      BY <2>1 DEF Somewhere
    <3>7. \A j \in Children \ {k} : child'[j] = child[j]
      BY <2>4 DEF Becomes
    <3> QED BY <1>0, <2>1, <2>2, <3>3, <3>4, <3>5, <3>6, <3>7, StepKeepsMail
  <2> QED BY <1>0, <1>2, <2>3, <2>4, GetMailEffect
<1>3. CASE write_mail_to_inbox(k)
  <2>1. child[k].at = "write" /\ UNCHANGED <<mailbox, accepted, removed, lost>>
    BY <1>3 DEF write_mail_to_inbox
  <2>2. Becomes(k, "QUIT", child[k].user, child[k].text, child[k].inbox, child[k].deleted, child[k].spoilt)
    BY <1>0, <1>3, WriteMailEffect DEF Guarded
  <2>3. InOrder(child'[k], mailbox)
    BY <1>i, <2>1, <2>2 DEF Becomes, InOrder
  <2>4. \A u \in Users : HeldBy(child'[k], u) => HeldBy(child[k], u)
    BY <2>2 DEF Becomes, HeldBy, PopPlaces
  <2>5. child'[k].user = child[k].user /\ HandsOf(child[k]) \subseteq HandsOf(child'[k])
    BY <2>1, <2>2 DEF Becomes, HandsOf
  <2> QED BY <1>0, <2>1, <2>2, <2>3, <2>4, <2>5, HandsKeepMail DEF Becomes
<1>4. CASE quit(k)
  <2>1. child[k].at = "QUIT" /\ UNCHANGED <<mailbox, accepted, removed, lost>>
    BY <1>4 DEF quit
  <2>2. Becomes(k, "exit", child[k].user, child[k].text, child[k].inbox, child[k].deleted, child[k].spoilt)
    BY <1>0, <1>4, QuitSmtpEffect
  <2>3. InOrder(child'[k], mailbox)
    BY <1>i, <2>1, <2>2 DEF Becomes, InOrder
  <2>4. \A u \in Users : HeldBy(child'[k], u) => HeldBy(child[k], u)
    BY <2>2 DEF Becomes, HeldBy, PopPlaces
  <2>5. child'[k].user = child[k].user /\ HandsOf(child[k]) \subseteq HandsOf(child'[k])
    BY <2>1, <2>2 DEF Becomes, HandsOf
  <2> QED BY <1>0, <2>1, <2>2, <2>3, <2>4, <2>5, HandsKeepMail DEF Becomes
<1> QED BY <1>1, <1>2, <1>3, <1>4 DEF SmtpStep

LEMMA PopStepKeepsMail ==
  ASSUME SessionInv, MailInv, Guarded, NEW k \in Children, PopStep(k)
  PROVE  MailInv'
<1>0. ServerTypes /\ wire \in [Children -> Message]
  BY DEF SessionInv
<1>i. InOrder(child[k], mailbox)
  BY DEF MailInv
<1>1. CASE TakeUser(k)
  <2>1. child[k].at = "USER" /\ UNCHANGED <<mailbox, accepted, removed, lost>>
    BY <1>1 DEF TakeUser
  <2>2. HandsOf(child[k]) = {} /\ child[k].text = {} /\ child[k].spoilt = {}
    BY <2>1, NothingInHands
  <2>3. CASE Becomes(k, "exit", NOBODY, {}, {}, {}, {})
    BY <1>0, <2>1, <2>2, <2>3, DoneKeepsMail
  <2>4. CASE Becomes(k, "PASS", wire[k].user, child[k].text, child[k].inbox, child[k].deleted, child[k].spoilt)
    <3>1. InOrder(child'[k], mailbox)
      BY <2>2, <2>4 DEF Becomes, InOrder
    <3>2. \A v \in Users : ~HeldBy(child'[k], v)
      BY <2>2, <2>4 DEF Becomes, HeldBy, PopPlaces
    <3> QED BY <1>0, <2>1, <2>2, <2>4, <3>1, <3>2, HandsKeepMail DEF Becomes
  <2> QED BY <1>0, <1>1, <2>3, <2>4, TakeUserEffect
<1>2. CASE TakePass(k)
  <2>1. child[k].at = "PASS" /\ UNCHANGED <<mailbox, accepted, removed, lost>>
    BY <1>2 DEF TakePass
  <2>2. HandsOf(child[k]) = {} /\ child[k].text = {} /\ child[k].spoilt = {}
    BY <2>1, NothingInHands
  <2>3. CASE Becomes(k, "exit", NOBODY, {}, {}, {}, {})
    BY <1>0, <2>1, <2>2, <2>3, DoneKeepsMail
  <2>4. CASE /\ Becomes(k, "get_inbox", child[k].user, child[k].text,
                        child[k].inbox, child[k].deleted, child[k].spoilt)
             /\ MayHold(k, child[k].user)
    <3>1. InOrder(child'[k], mailbox)
      BY <2>2, <2>4 DEF Becomes, InOrder
    <3>2. \A u \in Users : HeldBy(child'[k], u) => \A j \in Children \ {k} : ~HeldBy(child[j], u)
      <4>1. \A j \in Children \ {k} : ~HeldBy(child[j], child[k].user)
        BY <2>4, MayHoldIsAlone
      <4>2. \A u \in Users : HeldBy(child'[k], u) => u = child[k].user
        BY <2>4 DEF Becomes, HeldBy
      <4> QED BY <4>1, <4>2
    <3> QED BY <1>0, <2>1, <2>2, <2>4, <3>1, <3>2, HandsKeepMail DEF Becomes
  <2> QED BY <1>0, <1>2, <2>3, <2>4, TakePassEffect
<1>3. CASE get_inbox(k)
  <2>1. child[k].at = "get_inbox" /\ UNCHANGED <<mailbox, accepted, removed, lost>>
    BY <1>3 DEF get_inbox
  <2>2. HandsOf(child[k]) = {} /\ child[k].text = {} /\ child[k].spoilt = {}
    BY <2>1, NothingInHands
  <2>3. Becomes(k, "TRANSACTION", child[k].user, child[k].text, mailbox[child[k].user], child[k].deleted, {})
    BY <1>0, <1>3, GetInboxEffect DEF Guarded
  <2>4. InOrder(child'[k], mailbox)
    BY <2>2, <2>3 DEF Becomes, InOrder
  <2>5. \A u \in Users : HeldBy(child'[k], u) => HeldBy(child[k], u)
    BY <2>1, <2>3 DEF Becomes, HeldBy, PopPlaces
  <2> QED BY <1>0, <2>1, <2>2, <2>3, <2>4, <2>5, HandsKeepMail DEF Becomes
<1>4. CASE Transaction(k)
  <2>1. child[k].at = "TRANSACTION" /\ UNCHANGED <<mailbox, accepted, removed, lost>>
    BY <1>4 DEF Transaction
  <2>2. HandsOf(child[k]) = {} /\ child[k].text = {} /\ child[k].spoilt = {}
    BY <2>1, NothingInHands
  <2>3. PICK deleted \in SUBSET Mails :
          Becomes(k, "TRANSACTION", child[k].user, child[k].text, child[k].inbox, deleted, child[k].spoilt)
    BY <1>0, <1>4, TransactionEffect
  <2>4. InOrder(child'[k], mailbox)
    BY <1>i, <2>1, <2>2, <2>3 DEF Becomes, InOrder
  <2>5. \A u \in Users : HeldBy(child'[k], u) => HeldBy(child[k], u)
    BY <2>1, <2>3 DEF Becomes, HeldBy, PopPlaces
  <2> QED BY <1>0, <2>1, <2>2, <2>3, <2>4, <2>5, HandsKeepMail DEF Becomes
<1>5. CASE Quit(k)
  <2>1. child[k].at = "TRANSACTION" /\ UNCHANGED <<mailbox, accepted, removed, lost>>
    BY <1>5 DEF Quit
  <2>2. HandsOf(child[k]) = {} /\ child[k].text = {} /\ child[k].spoilt = {}
    BY <2>1, NothingInHands
  <2>3. Becomes(k, "UPDATE", child[k].user, child[k].text, child[k].inbox, child[k].deleted, child[k].spoilt)
    BY <1>0, <1>5, QuitPopEffect
  <2>4. InOrder(child'[k], mailbox)
    BY <1>i, <2>1, <2>2, <2>3 DEF Becomes, InOrder
  <2>5. \A u \in Users : HeldBy(child'[k], u) => HeldBy(child[k], u)
    BY <2>1, <2>3 DEF Becomes, HeldBy, PopPlaces
  <2> QED BY <1>0, <2>1, <2>2, <2>3, <2>4, <2>5, HandsKeepMail DEF Becomes
<1>6. CASE Truncate(k)
  <2>1. child[k].at = "UPDATE" /\ UNCHANGED <<accepted, lost>>
    BY <1>6 DEF Truncate
  <2>2. HandsOf(child[k]) = {} /\ child[k].text = {} /\ child[k].spoilt = {}
    BY <2>1, NothingInHands
  <2>3. CASE Becomes(k, "exit", NOBODY, {}, {}, {}, {}) /\ UNCHANGED <<mailbox, removed>>
    BY <1>0, <2>1, <2>2, <2>3, DoneKeepsMail
  <2>4. CASE /\ Becomes(k, "sign_off", child[k].user, child[k].text,
                        child[k].inbox, child[k].deleted, child[k].spoilt)
             /\ mailbox' = [mailbox EXCEPT ![child[k].user] = {}]
             /\ removed' = removed \union child[k].deleted
    <3> DEFINE u == child[k].user
    <3>1. u \in Users /\ HeldBy(child[k], u) /\ child[k].inbox = mailbox[u]
      BY <1>0, <1>i, <2>1, SessionHoldsMailbox DEF InOrder
    <3>2. mailbox'[u] = {} /\ \A v \in Users : v # u => mailbox'[v] = mailbox[v]
      BY <1>0, <2>4, <3>1 DEF ServerTypes
    <3>3. InOrder(child'[k], mailbox')
      BY <2>2, <2>4, <3>2 DEF Becomes, InOrder
    <3>4. \A v \in Users : HeldBy(child'[k], v) => HeldBy(child[k], v)
      BY <2>1, <2>4 DEF Becomes, HeldBy, PopPlaces
    <3>5. \A v \in Users : mailbox'[v] = mailbox[v] \/ HeldBy(child[k], v)
      BY <3>1, <3>2
    <3>6. \A m \in mailbox[u] : m \in removed' \/ m \in HandsOf(child'[k])
      BY <2>4, <3>1 DEF Becomes, HandsOf
    <3>7. \A m \in accepted : (\E v \in Users : v = To[m] /\ m \in mailbox[v]) =>
             Somewhere(m, child', mailbox', removed', lost')
      <4> SUFFICES ASSUME NEW m \in accepted, NEW v \in Users, v = To[m], m \in mailbox[v]
                   PROVE  Somewhere(m, child', mailbox', removed', lost')
        OBVIOUS
      <4>1. CASE v = u
        BY <2>4, <3>6, <4>1 DEF Somewhere, Becomes
      <4>2. CASE v # u
        BY <3>2, <4>2 DEF Somewhere
      <4> QED BY <4>1, <4>2
    <3>8. \A j \in Children \ {k} : child'[j] = child[j]
      BY <2>4 DEF Becomes
    <3> QED BY <1>0, <2>1, <2>2, <2>4, <3>3, <3>4, <3>5, <3>7, <3>8, StepKeepsMail
  <2> QED BY <1>0, <1>6, <2>3, <2>4, TruncateEffect
<1>7. CASE SignOff(k)
  <2>1. child[k].at = "sign_off" /\ UNCHANGED <<mailbox, accepted, removed, lost>>
    BY <1>7 DEF SignOff
  <2>2. Becomes(k, "fclose", child[k].user, child[k].text, child[k].inbox, child[k].deleted, child[k].spoilt)
    BY <1>0, <1>7, SignOffEffect
  <2>3. InOrder(child'[k], mailbox)
    BY <1>i, <2>1, <2>2 DEF Becomes, InOrder
  <2>4. \A u \in Users : HeldBy(child'[k], u) => HeldBy(child[k], u)
    BY <2>1, <2>2 DEF Becomes, HeldBy, PopPlaces
  <2>5. child'[k].user = child[k].user /\ HandsOf(child[k]) \subseteq HandsOf(child'[k])
    BY <2>1, <2>2 DEF Becomes, HandsOf
  <2> QED BY <1>0, <2>1, <2>2, <2>3, <2>4, <2>5, HandsKeepMail DEF Becomes
<1>8. CASE Fclose(k)
  <2> DEFINE u == child[k].user
  <2>1. child[k].at = "fclose" /\ UNCHANGED <<accepted, removed, lost>>
    BY <1>8 DEF Fclose
  <2>2. Becomes(k, "exit", NOBODY, {}, {}, {}, {})
    BY <1>0, <1>8, FcloseEffect
  <2>3. u \in Users /\ HeldBy(child[k], u) /\ mailbox[u] = {} /\ child[k].text = {} /\ child[k].spoilt = {}
    BY <1>0, <1>i, <2>1, SessionHoldsMailbox DEF InOrder
  <2>4. mailbox' = [mailbox EXCEPT ![u] = Written(k)]
    <3>1. PICK rest \in SUBSET mailbox[u] : mailbox' = [mailbox EXCEPT ![u] = Written(k) \union rest]
      BY <1>0, <1>8, FcloseEffect
    <3>2. Written(k) \union rest = Written(k)
      BY <2>3, <3>1
    <3> QED BY <3>1, <3>2
  <2>5. mailbox'[u] = HandsOf(child[k]) /\ \A v \in Users : v # u => mailbox'[v] = mailbox[v]
    BY <1>0, <2>1, <2>3, <2>4 DEF ServerTypes, Written, Kept, HandsOf
  <2>6. InOrder(child'[k], mailbox') /\ \A v \in Users : ~HeldBy(child'[k], v)
    BY <2>2 DEF Becomes, InOrder, HeldBy, PopPlaces
  <2>7. \A v \in Users : mailbox'[v] = mailbox[v] \/ HeldBy(child[k], v)
    BY <2>3, <2>5
  <2>8. \A m \in accepted : (\E v \in Users : v = To[m] /\ m \in mailbox[v]) =>
             Somewhere(m, child', mailbox', removed', lost')
    BY <2>3, <2>5 DEF Somewhere
  <2>9. \A m \in accepted : child[k].user = To[m] /\ m \in HandsOf(child[k]) =>
             Somewhere(m, child', mailbox', removed', lost')
    BY <2>3, <2>5 DEF Somewhere
  <2>10. \A j \in Children \ {k} : child'[j] = child[j]
    BY <2>2 DEF Becomes
  <2> QED BY <1>0, <2>1, <2>6, <2>7, <2>8, <2>9, <2>10, StepKeepsMail
<1> QED BY <1>1, <1>2, <1>3, <1>4, <1>5, <1>6, <1>7, <1>8 DEF PopStep

\* With the end of a process its text reaches the file.
LEMMA ExitKeepsMail ==
  ASSUME ServerTypes, MailInv, NEW k \in Children, exit(k)
  PROVE  MailInv'
<1> DEFINE u == child[k].user
<1>1. /\ Becomes(k, "free", NOBODY, {}, {}, {}, {})
      /\ \A v \in Users : mailbox'[v] = IF u = v THEN mailbox[v] \union child[k].text ELSE mailbox[v]
      /\ child[k].at = "exit" \/ Waiting(k)
  BY ExitEffect
<1>2. UNCHANGED <<accepted, removed, lost>>
  BY DEF exit
<1>3. HandsOf(child[k]) = child[k].text
  BY <1>1 DEF Waiting, HandsOf
<1>4. child[k].text # {} => u \in Users /\ HeldBy(child[k], u)
  BY DEF MailInv, InOrder, HeldBy
<1>5. \A v \in Users : mailbox'[v] = mailbox[v] \/ HeldBy(child[k], v)
  BY <1>1, <1>4
<1>6. InOrder(child'[k], mailbox') /\ \A v \in Users : ~HeldBy(child'[k], v)
  BY <1>1 DEF Becomes, InOrder, HeldBy, PopPlaces
<1>7. \A m \in accepted : (\E v \in Users : v = To[m] /\ m \in mailbox[v]) =>
           Somewhere(m, child', mailbox', removed', lost')
  BY <1>1 DEF Somewhere
<1>8. \A m \in accepted : child[k].user = To[m] /\ m \in HandsOf(child[k]) =>
           Somewhere(m, child', mailbox', removed', lost')
  BY <1>1, <1>3, <1>4 DEF Somewhere
<1>9. \A j \in Children \ {k} : child'[j] = child[j]
  BY <1>1 DEF Becomes
<1> QED BY <1>2, <1>5, <1>6, <1>7, <1>8, <1>9, StepKeepsMail

\* What a process has in its hands when it is killed is lost, and no more.
LEMMA KillKeepsMail ==
  ASSUME ServerTypes, wire \in [Children -> Message], MailInv, NEW k \in Children, Kill(k)
  PROVE  MailInv'
<1>1. /\ Becomes(k, "free", NOBODY, {}, {}, {}, {})
      /\ lost' = lost \union InHands(k)
  BY KillEffect
<1>2. UNCHANGED <<mailbox, accepted, removed>>
  BY DEF Kill
<1>3. InHands(k) = HandsOf(child[k])
  BY DEF InHands, Kept, HandsOf
<1>4. InOrder(child'[k], mailbox') /\ \A v \in Users : ~HeldBy(child'[k], v)
  BY <1>1 DEF Becomes, InOrder, HeldBy, PopPlaces
<1>5. \A m \in accepted : (\E v \in Users : v = To[m] /\ m \in mailbox[v]) =>
           Somewhere(m, child', mailbox', removed', lost')
  BY <1>2 DEF Somewhere
<1>6. \A m \in accepted : child[k].user = To[m] /\ m \in HandsOf(child[k]) =>
           Somewhere(m, child', mailbox', removed', lost')
  BY <1>1, <1>3 DEF Somewhere
<1>7. \A j \in Children \ {k} : child'[j] = child[j]
  BY <1>1 DEF Becomes
<1>8. lost \subseteq lost' /\ removed \subseteq removed' /\ accepted' \ accepted = {}
  BY <1>1, <1>2
<1> QED BY <1>2, <1>4, <1>5, <1>6, <1>7, <1>8, StepKeepsMail

LEMMA ConnectKeepsMail ==
  ASSUME SessionInv, MailInv, NEW c \in Programs, NEW k \in Children,
         NEW first \in {"HELO", "USER"}, NEW at \in {"greeting", "hello", "other"},
         Connect(c, k, first, at)
  PROVE  MailInv'
<1>1. /\ child[k] = IDLE
      /\ Becomes(k, first, NOBODY, {}, {}, {}, {})
      /\ UNCHANGED <<mailbox, accepted, removed, lost>>
  BY ConnectEffect DEF SessionInv
<1>2. HandsOf(child[k]) = {}
  BY <1>1 DEF IDLE, HandsOf
<1>3. InOrder(child'[k], mailbox) /\ \A v \in Users : ~HeldBy(child'[k], v)
  BY <1>1 DEF Becomes, InOrder, HeldBy, PopPlaces
<1> QED BY <1>1, <1>2, <1>3, HandsKeepMail DEF Becomes, SessionInv

\* The other steps of a client do nothing to the server processes and files.
LEMMA ClientsLeaveServers ==
  ASSUME NEW c, NEW k \in Children,
         Compose(c, k) \/ Prompt(c, k) \/ ClientStep(c, k) \/ OtherStep(c, k) \/ Leave(c, k)
  PROVE  UNCHANGED serverVars
<1>1. Compose(c, k) => UNCHANGED serverVars
  BY DEF Compose, Close
<1>2. Prompt(c, k) => UNCHANGED serverVars
  BY DEF Prompt, Say
<1>3. send_mail(c, k) => UNCHANGED serverVars
  BY DEF send_mail, Say, Close
<1>4. manage_mail(c, k) => UNCHANGED serverVars
  BY DEF manage_mail, authenticate, display_inbox, display_email, Rows, Say, Close
<1>5. Sent(c, k) \/ Hangup(c, k) \/ Leave(c, k) => UNCHANGED serverVars
  BY DEF Sent, Hangup, Leave, Close
<1>6. OtherStep(c, k) => UNCHANGED serverVars
  BY DEF OtherStep, Ask, Do, Say
<1> QED BY <1>1, <1>2, <1>3, <1>4, <1>5, <1>6 DEF ClientStep

LEMMA InitMail == Init => MailInv
<1> SUFFICES ASSUME Init PROVE MailInv
  OBVIOUS
<1>1. /\ \A k \in Children : child[k] = IDLE
      /\ mailbox = [u \in Users |-> {m \in Old : To[m] = u}]
      /\ accepted = Old
  BY DEF Init
<1>2. IDLE.text = {} /\ IDLE.spoilt = {} /\ IDLE.at = "free"
  BY DEF IDLE
<1>3. \A m \in Old : To[m] \in Users
  BY MailAssumption
<1>4. \A m \in accepted : \E u \in Users : u = To[m] /\ m \in mailbox[u]
  BY <1>1, <1>3
<1>5. \A k \in Children : InOrder(child[k], mailbox) /\ \A u \in Users : ~HeldBy(child[k], u)
  BY <1>1, <1>2 DEF InOrder, HeldBy, PopPlaces
<1> QED BY <1>4, <1>5 DEF MailInv, Alone, Somewhere

LEMMA NextMail == Guarded /\ SessionInv /\ MailInv /\ [Next]_vars => MailInv'
<1> SUFFICES ASSUME Guarded, SessionInv, MailInv, [Next]_vars PROVE MailInv'
  OBVIOUS
<1>0. ServerTypes /\ wire \in [Children -> Message]
  BY DEF SessionInv
<1>1. ASSUME NEW k \in Children, ServerStep(k) \/ Kill(k) PROVE MailInv'
  BY <1>0, <1>1, SmtpStepKeepsMail, PopStepKeepsMail, ExitKeepsMail, KillKeepsMail DEF ServerStep
<1>2. ASSUME NEW c \in Programs, NEW k \in Children,
             \/ Connect(c, k, "HELO", "greeting") \/ Connect(c, k, "USER", "hello")
             \/ Connect(c, k, "HELO", "other") \/ Connect(c, k, "USER", "other")
      PROVE  MailInv'
  BY <1>2, ConnectKeepsMail
<1>3. CASE UNCHANGED serverVars
  BY <1>3 DEF serverVars, MailInv, Alone
<1>4. ASSUME NEW c \in Programs, NEW k \in Children,
             Compose(c, k) \/ Prompt(c, k) \/ ClientStep(c, k) \/ OtherStep(c, k) \/ Leave(c, k)
      PROVE  MailInv'
  BY <1>3, <1>4, ClientsLeaveServers
<1>5. CASE UNCHANGED vars
  BY <1>3, <1>5 DEF vars, serverVars
<1> QED BY <1>1, <1>2, <1>4, <1>5 DEF Next, UserStep, Programs

\* Every mail that the SMTP server accepts is in its user's mailbox or on its
\* way there until a session deletes it or a process is killed that has it in
\* its hands - provided that the server processes do not overlap in a mailbox,
\* which the code does not see to.
THEOREM MailSafety == Guarded => (Spec => []NoMailLost)
<1> SUFFICES ASSUME Guarded PROVE Spec => []NoMailLost
  OBVIOUS
<1>1. Init => MailInv
  BY InitMail
<1>2. SessionInv /\ MailInv /\ [Next]_vars => MailInv'
  BY NextMail
<1>3. MailInv => NoMailLost
  BY MailInvIsSafe
<1> QED BY <1>1, <1>2, <1>3, SessionHolds, PTL DEF Spec
=============================================================================
