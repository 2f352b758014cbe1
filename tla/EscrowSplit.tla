---------------------------- MODULE EscrowSplit -----------------------------
(***************************************************************************)
(* The registered splits of an event's escrow among its co-organizers.     *)
(* An event keeps every split it ever registered, the newest last: a new   *)
(* split takes over the event's index, but the older ones stay stored, and *)
(* releasing or disputing names a split by its identifier.  The shares add *)
(* up to the whole and the rounding remainder goes to the largest, so a    *)
(* release always pays out exactly the whole escrow; who gets how much of  *)
(* it is left out.                                                         *)
(***************************************************************************)
EXTENDS Integers, Sequences

Split == [released : BOOLEAN, disputed : BOOLEAN]

NewSplit == [released |-> FALSE, disputed |-> FALSE]

IsOpen(s) == ~ s.released /\ ~ s.disputed

Release(s) == [s EXCEPT !.released = TRUE]

Dispute(s) == [s EXCEPT !.disputed = TRUE]
=============================================================================
