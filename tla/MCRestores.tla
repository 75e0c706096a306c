----------------------------- MODULE MCRestores -----------------------------
EXTENDS Restores, TLC

Symmetry == Permutations(Ops)

=============================================================================
