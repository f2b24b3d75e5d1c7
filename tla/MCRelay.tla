------------------------------- MODULE MCRelay -------------------------------
(* One request with an answer of two chunks and one whose answer has none. *)
EXTENDS Relay

CONSTANTS r1, r2

MCParts == [r \in Requests |-> IF r = r1 THEN 2 ELSE 0]
=============================================================================
