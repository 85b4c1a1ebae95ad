------------------------- MODULE MCPaymentValidator -------------------------
(* Instances of PaymentValidator for TLC. *)
EXTENDS PaymentValidator, TLC

MCAmounts == 1 .. 2

\* Reservation ids are interchangeable: fresh ones are drawn at random.
MCSymmetry == Permutations(Reservations)
=============================================================================
