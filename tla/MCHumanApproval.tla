------------------------------ MODULE MCHumanApproval ------------------------------
EXTENDS HumanApprovalProofs, TLC

Symmetry == Permutations(Workers)
====================================================================================
