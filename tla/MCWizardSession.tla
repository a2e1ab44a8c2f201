---------------------------- MODULE MCWizardSession ----------------------------
(* WizardSession with one proposal of each kind; requests are alike.         *)
EXTENDS WizardSession, TLC

Symmetry == Permutations(Requests)
=============================================================================
