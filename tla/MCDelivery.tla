------------------------------ MODULE MCDelivery ------------------------------
(***************************************************************************)
(* Instance of Delivery for TLC.                                           *)
(***************************************************************************)
EXTENDS Delivery

\* One Primary that fills the byte budget and one that leaves room for another.
ShortAndLong == {1, 2}

=============================================================================
