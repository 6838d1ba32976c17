---------------------------- MODULE MCJobListing -----------------------------
EXTENDS JobListing, TLC

Symmetry == Permutations(Ids) \cup Permutations(Domains)
=============================================================================
