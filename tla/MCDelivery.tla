------------------------------ MODULE MCDelivery ------------------------------
(* Delivery with sets small enough to explore exhaustively.                *)
EXTENDS Delivery, TLC

=============================================================================
