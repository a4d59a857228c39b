---------------------------- MODULE MCPreviewTabs ----------------------------
(* Small instances of PreviewTabs for TLC. *)
EXTENDS PreviewTabs, TLC

BothRemote == {"md"} \cup Remote

\* Documents that parse are alike, and so are options.
PreviewSymmetry == Permutations(Document \ Broken) \cup Permutations(Options)
=============================================================================
