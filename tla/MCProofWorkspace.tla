-------------------------- MODULE MCProofWorkspace --------------------------
(* Three assets; an observation of one and two other events; two seals, one  *)
(* of them signed, to one path; any five of these operations.                *)
EXTENDS ProofWorkspace, FiniteSets, TLC

CONSTANTS a1, a2, a3, e1, e2, e3, s1, s2, p1

MCAdds == {a1, a2, a3}
MCRecords == {e1, e2, e3}
MCAbout == (e1 :> a1) @@ (e2 :> None) @@ (e3 :> None)
MCSeals == {s1, s2}
MCSigned == {s1}
MCOutputs == {p1}
MCTarget == (s1 :> p1) @@ (s2 :> p1)

MCSymmetry == Permutations({a2, a3}) \union Permutations({e2, e3})

MaxBegun == 5
FewBegin == Cardinality({o \in Ops : at[o] # "idle"}) <= MaxBegun
=============================================================================
