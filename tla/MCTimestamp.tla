---------------------------- MODULE MCTimestamp ----------------------------
(* Two requests of a window, one after the other or overlapping, and two    *)
(* trust snapshots to be imported in between.                               *)
EXTENDS TrustedTimestamp
=============================================================================
