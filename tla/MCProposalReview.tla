-------------------------- MODULE MCProposalReview --------------------------
(* Evolution, and with it ProposalReview, on a small instance: one row that  *)
(* mining runs write and rows of the monitor, a candidate of its one strategy; *)
(* no more than MaxRows of the three are in the table.                       *)
EXTENDS Evolution, FiniteSets, TLC

CONSTANT MaxRows

OneStrategy(c) == "strategy"

RowsFit == Cardinality({p \in Proposals : status'[p] # "ABSENT"}) <= MaxRows

MCSpec == EInit /\ [][ENext /\ RowsFit]_evars

Symmetry == Permutations(Mined) \cup Permutations(Proposals \ Mined)
               \cup Permutations(Candidates) \cup Permutations(Texts \ Candidates)
               \cup Permutations(Revokers)
=============================================================================
