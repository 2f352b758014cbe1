------------------------- MODULE MCTicketLifecycle -------------------------
(* A small instance of TicketLifecycle for TLC. *)
EXTENDS TicketLifecycle
=============================================================================
