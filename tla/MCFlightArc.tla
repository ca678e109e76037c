---------------------------- MODULE MCFlightArc ----------------------------
(* The flight alone, for the guest's arc that follows a native one. *)
EXTENDS Flight

MCMoves == {<<1, -1>>, <<1, 1>>}
MCJump == -3
MCCap == [s \in BOOLEAN |-> IF s THEN 2 ELSE 1]
MCHurt(m) == m
MCHands == {[dir |-> 0, held |-> {}], [dir |-> 1, held |-> {"hop"}]}
=============================================================================
