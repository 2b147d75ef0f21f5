---------------------------- MODULE MCWorkbench ----------------------------
(* Two workspaces, two operations at a time.                                *)
EXTENDS Workbench, TLC

Symmetry == Permutations(Workspaces) \union Permutations(Sessions)
                \union Permutations(Slots)
=============================================================================
