-------------------------- MODULE MCVersionedApply --------------------------
(* VersionedApply on a small instance.  The appliers are interchangeable and *)
(* so are the proposals: no definition tells one from another.               *)
EXTENDS SerialApply, TLC

Symmetry == Permutations(Appliers) \cup Permutations(Proposals)
=============================================================================
