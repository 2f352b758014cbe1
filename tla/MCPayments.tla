----------------------------- MODULE MCPayments -----------------------------
(***************************************************************************)
(* Small instances of Payments, and what the repository's documents say of *)
(* it that the interleavings refute.                                       *)
(***************************************************************************)
EXTENDS Payments, TLC

Symmetry ==
    Permutations(Requests) \cup Permutations(Txs) \cup
    Permutations(Intents) \cup Permutations(Users)

\* payment.entity.ts calls CONFIRMED and FAILED terminal states: neither ever
\* becomes the other.
TerminalStatesAreFinal ==
    [][\A p \in Intents :
          rows[p].status \in {"confirmed", "failed"} =>
              rows'[p].status = rows[p].status]_vars
=============================================================================
