-------------------------- MODULE MCEscrowRefunds ---------------------------
(***************************************************************************)
(* A small instance of EscrowRefunds, and what a comment of the code says  *)
(* that a run refutes.                                                     *)
(***************************************************************************)
EXTENDS EscrowRefunds, TLC

CONSTANTS p1, p2, u1, u2, r1

TwoOwners == [p \in Payments |-> IF p = p1 THEN u1 ELSE u2]

\* refund.service.ts: "if all refunds succeeded" refundAllForEvent merges the
\* account "to sweep residual XLM to the platform wallet": what is left then is
\* no payment that was once confirmed and never sent back.
OnlyResidueIsSwept ==
    [][account' # account =>
          \A p \in Payments : rows[p].hash => sent[p] > 0]_vars
=============================================================================
