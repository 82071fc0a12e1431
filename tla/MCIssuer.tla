------------------------------ MODULE MCIssuer ------------------------------
(* A small instance of Issuer: one plan with two machines, a payment for it and
   one for a plan that is not on sale. *)
EXTENDS Issuer, TLC

CONSTANTS p1, p2, lite, gone

TwoPayments == {p1, p2}

PlanNamed == p1 :> lite @@ p2 :> gone

TwoMachines == lite :> 2

=============================================================================
