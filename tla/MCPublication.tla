---------------------------- MODULE MCPublication ----------------------------
(* Model checking of Publication: small instances, see the .cfg files. *)
EXTENDS Publication, TLC

OperatorSymmetry == Permutations(Operators)
ArtifactSymmetry == Permutations(Artifacts)
RaceSymmetry == OperatorSymmetry \cup ArtifactSymmetry

(* No operator's step and no invariant of that run reads the device. *)
OperatorView == <<patches, allocated, op, announced>>

=============================================================================
