---------------------------- MODULE MCCritique ----------------------------
EXTENDS Critique, TLC

IssueSymmetry == Permutations(Issues)
=============================================================================
