-------------------------- MODULE MCSessionAffinity --------------------------
(* The first and the second turn of a conversation, and requests without one. *)
EXTENDS SessionAffinity

CONSTANTS a1, a2, first, second, r1, r2

MCTurns == {[key |-> first, parent |-> None], [key |-> second, parent |-> first],
            [key |-> None, parent |-> None]}
=============================================================================
