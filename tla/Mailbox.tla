------------------------------ MODULE Mailbox ------------------------------
(***************************************************************************)
(* What the mail servers promise together: a mail that was accepted for a  *)
(* user waits to be delivered, is then in the user's mailbox, and leaves   *)
(* it only when it was marked for deletion and the deletions are carried   *)
(* out, or in a loss that is on record.                                    *)
(***************************************************************************)
CONSTANTS Users, Mails,
          First  \* First[u]: the mails in u's mailbox at first

VARIABLES
  pending,  \* pending[u]: mails accepted for u, not delivered yet
  box,      \* box[u]: the mails in u's mailbox
  marked,   \* marked[u]: mails of the mailbox that are marked for deletion
  removed,  \* mails deleted on request
  lost      \* mails lost on record

vars == <<pending, box, marked, removed, lost>>

None == [u \in Users |-> {}]

Init == /\ pending = None
        /\ box = First
        /\ marked = None
        /\ removed = {}
        /\ lost = {}

Known == removed \union lost \union UNION {pending[u] \union box[u] : u \in Users}

Accept(u, m) == /\ m \notin Known
                /\ pending' = [pending EXCEPT ![u] = @ \union {m}]
                /\ UNCHANGED <<box, marked, removed, lost>>

Deliver(u, m) == /\ m \in pending[u]
                 /\ pending' = [pending EXCEPT ![u] = @ \ {m}]
                 /\ box' = [box EXCEPT ![u] = @ \union {m}]
                 /\ UNCHANGED <<marked, removed, lost>>

Mark(u, S) == /\ S \subseteq box[u]
              /\ marked' = [marked EXCEPT ![u] = S]
              /\ UNCHANGED <<pending, box, removed, lost>>

Purge(u) == /\ box' = [box EXCEPT ![u] = @ \ marked[u]]
            /\ marked' = [marked EXCEPT ![u] = {}]
            /\ removed' = removed \union marked[u]
            /\ UNCHANGED <<pending, lost>>

Lose(u, S) == /\ S \subseteq pending[u] \union box[u]
              /\ pending' = [pending EXCEPT ![u] = @ \ S]
              /\ box' = [box EXCEPT ![u] = @ \ S]
              /\ marked' = [marked EXCEPT ![u] = @ \ S]
              /\ lost' = lost \union S
              /\ UNCHANGED removed

Next == \E u \in Users :
          \/ \E m \in Mails : Accept(u, m) \/ Deliver(u, m)
          \/ \E S \in SUBSET Mails : Mark(u, S) \/ Lose(u, S)
          \/ Purge(u)

Spec == Init /\ [][Next]_vars
=============================================================================
