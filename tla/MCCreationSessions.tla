------------------------- MODULE MCCreationSessions -------------------------
(* Instances of CreationSessions for TLC; the configurations give the       *)
(* constants model values.                                                  *)
EXTENDS CreationSessions

NoSeals == {}
=============================================================================
