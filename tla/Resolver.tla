------------------------------ MODULE Resolver ------------------------------
(***************************************************************************)
(* What simDNS promises its user: a query is answered, with the addresses  *)
(* of the very domains it asks for, or it is dropped; one at a time, and   *)
(* never without an end.                                                   *)
(***************************************************************************)
CONSTANTS Queries,     \* what can be asked
          Answer(_),   \* the answer to a query
          Dropped      \* what is shown for a query that is dropped

VARIABLES asking,  \* the query of the user, as a set of at most one
          shown    \* the last query that ended, and what was shown for it

vars == <<asking, shown>>

Init == asking = {} /\ shown = {}

Ask(q) == /\ asking = {}
          /\ asking' = {q}
          /\ UNCHANGED shown

End == /\ \E q \in asking : \E result \in {Answer(q), Dropped} :
            shown' = {[query |-> q, result |-> result]}
       /\ asking' = {}

\* The program is left, in the middle of a query or not, and started again.
Restart == asking' = {} /\ shown' = {}

Next == End \/ Restart \/ \E q \in Queries : Ask(q)

Spec == Init /\ [][Next]_vars /\ WF_vars(End)
=============================================================================
