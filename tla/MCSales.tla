------------------------------ MODULE MCSales ------------------------------
(***************************************************************************)
(* TLC instance of TicketSales: four purchases of two users around one     *)
(* departure and the rush hour.                                            *)
(***************************************************************************)
EXTENDS TicketSales, TLC

CONSTANTS a1, a2, a3, b1, alice, bob, noon

Buyers == a1 :> alice @@ a2 :> alice @@ a3 :> alice @@ b1 :> bob
Trips  == a1 :> noon @@ a2 :> noon @@ a3 :> NoSlot @@ b1 :> noon
Number == a1 :> 2 @@ a2 :> 1 @@ a3 :> 1 @@ b1 :> 1
=============================================================================
