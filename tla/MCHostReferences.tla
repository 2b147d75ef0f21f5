-------------------------- MODULE MCHostReferences --------------------------
(* Two requests of the page the references were issued to, and one of        *)
(* another renderer.                                                         *)
EXTENDS HostReferences, TLC

CONSTANTS q1, q2, x1, main, other

MCSender == (q1 :> main) @@ (q2 :> main) @@ (x1 :> other)
=============================================================================
