-------------------------- MODULE MCRegistrations --------------------------
(* A small instance of Registrations, with the event it is composed with. *)
EXTENDS Registrations
=============================================================================
