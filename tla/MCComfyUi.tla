----------------------------- MODULE MCComfyUi -----------------------------
(* Two creation sessions run at the same time, or one while the user        *)
(* inspects the installation.                                               *)
EXTENDS ComfyUi
=============================================================================
