----------------------------- MODULE MCToolStore -----------------------------
(* Model checking of ToolStore: small instances, see the .cfg files. *)
EXTENDS ToolStore, TLC

CommandSymmetry == Permutations(Commands)

(* soroq.lock pins the first generation of one platform. *)
OnePin == {<<"ios", 1>>}

=============================================================================
