------------------------------ MODULE MCEndpoint ------------------------------
(* Small instances of Endpoint.                                            *)
EXTENDS Endpoint, TLC

Symmetry == Permutations(Operations)

=============================================================================
