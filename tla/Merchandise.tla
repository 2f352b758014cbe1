---------------------------- MODULE Merchandise ----------------------------
(***************************************************************************)
(* Pre-orders of merchandise.  Stock is reserved by one conditional UPDATE *)
(* of the variant and the pre-order is inserted by a second statement, so  *)
(* a process that stops between the two leaves stock reserved for nobody.  *)
(***************************************************************************)
EXTENDS Integers, FiniteSets

CONSTANTS
    Preorders,    \* bound: pre-order requests, in all
    Quantities,   \* the quantities asked for
    StockTotal    \* of the variant

ASSUME MerchandiseAssumption ==
    /\ Quantities \subseteq Nat \ {0}
    /\ StockTotal \in Nat

VARIABLES
    stockReserved,  \* of the variant
    preorder,       \* by request: its quantity and the status of its row
    handling,       \* how far createMerchPreorder is with a request, and the
                    \* stock the variant it read had reserved
    pickups         \* the organizer's requests that read the row as reserved

merchVars == <<stockReserved, preorder, handling, pickups>>

NoPreorder == [quantity |-> 0, status |-> "none"]

MerchInit ==
    /\ stockReserved = 0
    /\ preorder = [p \in Preorders |-> NoPreorder]
    /\ handling = [p \in Preorders |-> [at |-> "new", read |-> 0]]
    /\ pickups = {}

\* The variant exists and the buyer holds the ticket.
AskPreorder(p, n) ==
    /\ handling[p].at = "new"
    /\ handling' = [handling EXCEPT ![p] = [at |-> "asked", read |-> stockReserved]]
    /\ preorder' = [preorder EXCEPT ![p].quantity = n]
    /\ UNCHANGED <<stockReserved, pickups>>

\* Mutant: the stock is checked and set from the variant that was read.
ReserveFromRead(p) ==
    /\ handling[p].at = "asked"
    /\ handling[p].read + preorder[p].quantity <= StockTotal
    /\ stockReserved' = handling[p].read + preorder[p].quantity
    /\ handling' = [handling EXCEPT ![p].at = "stocked"]
    /\ UNCHANGED <<preorder, pickups>>

ReserveVariantStock(p) ==
    /\ handling[p].at = "asked"
    /\ stockReserved + preorder[p].quantity <= StockTotal
    /\ stockReserved' = stockReserved + preorder[p].quantity
    /\ handling' = [handling EXCEPT ![p].at = "stocked"]
    /\ UNCHANGED <<preorder, pickups>>

RefusePreorder(p) ==
    /\ handling[p].at = "asked"
    /\ stockReserved + preorder[p].quantity > StockTotal
    /\ handling' = [handling EXCEPT ![p].at = "over"]
    /\ UNCHANGED <<stockReserved, preorder, pickups>>

InsertPreorder(p) ==
    /\ handling[p].at = "stocked"
    /\ handling' = [handling EXCEPT ![p].at = "over"]
    /\ preorder' = [preorder EXCEPT ![p].status = "reserved"]
    /\ UNCHANGED <<stockReserved, pickups>>

\* The process stops, or the insert fails: nothing gives the stock back.
LosePreorder(p) ==
    /\ handling[p].at \in {"asked", "stocked"}
    /\ handling' = [handling EXCEPT ![p].at = "over"]
    /\ UNCHANGED <<stockReserved, preorder, pickups>>

\* confirmPreorderPickup reads the row and saves it later.
ReadPickup(p) ==
    /\ preorder[p].status = "reserved"
    /\ pickups' = pickups \cup {p}
    /\ UNCHANGED <<stockReserved, preorder, handling>>

SavePickup(p) ==
    /\ p \in pickups
    /\ pickups' \in {pickups, pickups \ {p}}
    /\ preorder' = [preorder EXCEPT ![p].status = "picked_up"]
    /\ UNCHANGED <<stockReserved, handling>>

MerchNext == \E p \in Preorders :
    \/ ReserveVariantStock(p)
    \/ RefusePreorder(p)
    \/ InsertPreorder(p)
    \/ LosePreorder(p)
    \/ ReadPickup(p)
    \/ SavePickup(p)
    \/ \E n \in Quantities : AskPreorder(p, n)

MerchSpec == MerchInit /\ [][MerchNext]_merchVars

-----------------------------------------------------------------------------
Placed == {p \in Preorders : preorder[p].status # "none"}

\* The pieces that the pre-orders in S ask for, one by one.
Pieces(S) == UNION {{p} \X (1..preorder[p].quantity) : p \in S}

(***************************************************************************)
(* Whatever buyers run at once and wherever one stops, the stock reserved  *)
(* covers every pre-order there is, picked up or not, and there is as much *)
(* of it (merch-preorder.service.ts, reserveVariantStock).                 *)
(***************************************************************************)
StockCoversPreorders ==
    Cardinality(Pieces(Placed)) <= stockReserved /\ stockReserved <= StockTotal
=============================================================================
