----------------------------- MODULE MCIncidents -----------------------------
(* Instances of Incidents for TLC. *)
EXTENDS Incidents, TLC

\* Sessions are interchangeable.
SessionSymmetry == Permutations(Sessions)
=============================================================================
