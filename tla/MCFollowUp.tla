----------------------------- MODULE MCFollowUp -----------------------------
EXTENDS FollowUp, TLC

\* The runs are alike.
RunSymmetry == Permutations(Runs)

=============================================================================
