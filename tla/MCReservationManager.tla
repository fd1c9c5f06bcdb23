------------------------ MODULE MCReservationManager ------------------------
(* A small instance of ReservationManager for TLC. *)
EXTENDS ReservationManager, TLC

CONSTANT a1

MCCash == a1 :> 3
=============================================================================
