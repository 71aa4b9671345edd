----------------------------- MODULE MCCustomerFollowup -----------------------------
EXTENDS CustomerFollowup, TLC

Symmetry == Permutations(Customers)
====================================================================================
