------------------------ MODULE MCOfficialIdentity ------------------------
(* Two snapshots of each kind over a few instants.                          *)
EXTENDS OfficialIdentity
=============================================================================
