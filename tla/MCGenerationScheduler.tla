------------------------ MODULE MCGenerationScheduler ------------------------
(* Small instances of GenerationScheduler for TLC. *)
EXTENDS GenerationScheduler

NoSteps == {}
StepBackOrForward == {-2, 2}

RequestSymmetry == Permutations(Request)
=============================================================================
