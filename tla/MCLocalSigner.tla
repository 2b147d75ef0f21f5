--------------------------- MODULE MCLocalSigner ---------------------------
(* Four uses of the service, each of any kind, over any first record.      *)
EXTENDS LocalSigner, TLC

Symmetric == Permutations(Calls)
=============================================================================
