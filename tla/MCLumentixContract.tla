------------------------- MODULE MCLumentixContract -------------------------
(***************************************************************************)
(* Small instances of LumentixContract, and what its error catalogue says  *)
(* of refunds.                                                             *)
(***************************************************************************)
EXTENDS LumentixContract, TLC

Symmetry == Permutations(Events) \cup Permutations(Users)

\* ERRORS.md: InsufficientEscrow "is an internal error that shouldn't occur in
\* normal operation".  The escrow of a cancelled event covers every ticket
\* that refund_ticket would accept.
RefundsAreFunded ==
    \A e \in Events :
        events[e].status = "Cancelled" =>
            escrow[e] >= Cardinality(Eligible(e)) * Net(events[e].price)
=============================================================================
