----------------------------- MODULE MCWorkspace -----------------------------
(* Small instances of Workspace for TLC. *)
EXTENDS Workspace, TLC

CONSTANTS me, other

FirstTabIsMine == [t \in Tab |-> IF t = CHOOSE u \in Tab : TRUE THEN me ELSE other]

FileSymmetry == Permutations(Name) \cup Permutations(Document)
=============================================================================
