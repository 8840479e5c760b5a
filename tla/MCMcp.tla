-------------------------------- MODULE MCMcp --------------------------------
(* Instances of McpDiscovery for TLC.                                      *)
EXTENDS McpDiscovery, TLC

\* Replicas differ in nothing but their names.
Symmetry == Permutations(Replicas)

=============================================================================
