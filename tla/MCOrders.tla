------------------------------ MODULE MCOrders -------------------------------
(* Orders for TLC: two orders that compete for the last items of a product. *)
EXTENDS Orders, TLC

CONSTANTS p1, o1, o2

item(q) == [product |-> p1, quantity |-> q]

\* o1 wants the product in two positions, o2 in one: together too many.
MCCart  == o1 :> <<item(1), item(1)>> @@ o2 :> <<item(2)>>
MCStock == p1 :> 2
=============================================================================
