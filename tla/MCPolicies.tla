----------------------------- MODULE MCPolicies -----------------------------
EXTENDS Policies, TLC

\* The requests and the bodies have no identity of their own.
Symmetry == Permutations(Requests) \cup Permutations(Bodies)

=============================================================================
