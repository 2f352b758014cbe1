--------------------------- MODULE VenueCapacity ----------------------------
(***************************************************************************)
(* The on-chain venue capacity of an event: a limit and the live counter   *)
(* of minted seats, or Unlimited when the organizer configured none.       *)
(***************************************************************************)
EXTENDS Integers

Unlimited == [configured |-> FALSE, max |-> 0, minted |-> 0]

VenueState == [configured : BOOLEAN, max : Nat, minted : Nat]

\* set_venue_capacity: the counter starts at the tickets already sold and
\* survives every later configuration.
MintedSoFar(v, sold) == IF v.configured THEN v.minted ELSE sold

CanConfigure(v, c, sold) == c > 0 /\ c >= MintedSoFar(v, sold)

Configure(v, c, sold) ==
    [configured |-> TRUE, max |-> c, minted |-> MintedSoFar(v, sold)]

\* Mutant: one free seat is taken to be enough for any quantity.
FitsOne(v, q) == v.configured => v.minted < v.max

\* guard_mint_against_capacity
Fits(v, q) == v.configured => v.minted + q <= v.max

\* increment_attendance_counter_if_configured, after the guard
Increment(v, q) ==
    IF v.configured THEN [v EXCEPT !.minted = v.minted + q] ELSE v

\* decrement_attendance_counter saturates at zero
Decrement(v, q) ==
    IF v.configured
    THEN [v EXCEPT !.minted = IF q <= v.minted THEN v.minted - q ELSE 0]
    ELSE v
=============================================================================
