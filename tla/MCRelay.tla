------------------------------ MODULE MCRelay ------------------------------
(* Model checking of Relay: the bytes of the client are positive, those of *)
(* the destination negative.                                               *)
EXTENDS Relay

MCStream == [d \in Way |-> IF d = "to_destination" THEN <<1, 2, 3, 4, 5>> ELSE <<-1, -2, -3>>]
=============================================================================
