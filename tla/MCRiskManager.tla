---------------------------- MODULE MCRiskManager ---------------------------
(* Small instances of the risk manager. *)
EXTENDS RiskManager, TLC

CONSTANTS s1, s2, c1, c2

Symmetry == Permutations({s1, s2}) \cup Permutations({c1, c2})

=============================================================================
