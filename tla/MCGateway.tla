----------------------------- MODULE MCGateway ------------------------------
(***************************************************************************)
(* Constants for GatewaySystem: one internal section and the external bus, *)
(* both with a time-out of four clocks.                                    *)
(***************************************************************************)
EXTENDS GatewaySystem

MCTmo == [r \in {"A", "X"} |-> 4]

\* Internal devices answer early.  External ones answer early, or in the clock
\* of the error response (6), or later.
MCLatency == [A |-> {1, 2}, X |-> {1, 2, 6, 7, 8}]
=============================================================================
