---------------------------- MODULE TicketPromise ----------------------------
(***************************************************************************)
(* What the ticketing contract promises whoever buys a ticket, with no     *)
(* money, seats, queues or clock: an event only moves forward, tickets are *)
(* issued while it is published, and each of them can be admitted once,    *)
(* taken back, or paid back once the event is cancelled.  The contract     *)
(* itself is LumentixContract, which implements this specification.        *)
(***************************************************************************)
EXTENDS Integers

CONSTANTS Events, Users

VARIABLES
    status,    \* what each event has come to
    issued,    \* how many tickets there are, a ticket is its number
    of,        \* the event a ticket is for
    holder,    \* whose it is
    admitted,  \* the tickets that let somebody in
    refunded,  \* the tickets paid back
    revoked    \* the tickets taken back

lots  == <<issued, of, holder>>
marks == <<admitted, refunded, revoked>>
vars  == <<status, lots, marks>>

Tickets == 1 .. issued

\* Tickets nothing has happened to.
Fresh == Tickets \ (admitted \cup refunded \cup revoked)

Init ==
    /\ status = [e \in Events |-> "Absent"]
    /\ issued = 0
    /\ of = << >>
    /\ holder = << >>
    /\ admitted = {} /\ refunded = {} /\ revoked = {}

Follows(s) ==
    CASE s = "Absent"    -> {"Draft"}
      [] s = "Draft"     -> {"Published"}
      [] s = "Published" -> {"Completed", "Cancelled"}
      [] OTHER           -> {}

Advance(e, s) ==
    /\ s \in Follows(status[e])
    /\ status' = [status EXCEPT ![e] = s]
    /\ UNCHANGED <<lots, marks>>

\* At most ten tickets at a time, all for one event and one buyer.
Issue(e, b, n) ==
    /\ status[e] = "Published"
    /\ issued' = issued + n
    /\ of' = [i \in 1 .. issued + n |-> IF i > issued THEN e ELSE of[i]]
    /\ holder' = [i \in 1 .. issued + n |-> IF i > issued THEN b ELSE holder[i]]
    /\ UNCHANGED <<status, marks>>

HandOver(i, b) ==
    /\ i \in Fresh
    /\ status[of[i]] = "Published"
    /\ holder' = [holder EXCEPT ![i] = b]
    /\ UNCHANGED <<status, issued, of, marks>>

\* The doors do not look at refunds.
Admit(T) ==
    /\ T \cap (admitted \cup revoked) = {}
    /\ admitted' = admitted \cup T
    /\ UNCHANGED <<status, lots, refunded, revoked>>

Revoke(i) ==
    /\ i \in Fresh
    /\ revoked' = revoked \cup {i}
    /\ UNCHANGED <<status, lots, admitted, refunded>>

Refund(e, T) ==
    /\ status[e] = "Cancelled"
    /\ \A i \in T : i \in Fresh /\ of[i] = e
    /\ refunded' = refunded \cup T
    /\ UNCHANGED <<status, lots, admitted, revoked>>

Next ==
    \/ \E T \in SUBSET Tickets :
          Admit(T) \/ \E e \in Events : Refund(e, T)
    \/ \E i \in Tickets : Revoke(i) \/ \E b \in Users : HandOver(i, b)
    \/ \E e \in Events :
          \/ \E s \in {"Draft", "Published", "Completed", "Cancelled"} :
                Advance(e, s)
          \/ \E b \in Users, n \in 1 .. 10 : Issue(e, b, n)

Spec == Init /\ [][Next]_vars
=============================================================================
