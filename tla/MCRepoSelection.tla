--------------------------- MODULE MCRepoSelection ---------------------------
(* A small instance of RepoSelection for TLC: three of the systems, two of *)
(* which share a repository, and branches that only one repository has.    *)
EXTENDS RepoSelection

MCSystem == <<"Bemanning", "Bilpleie", "Forhaandsmelding">>
MCLabel(s) == CASE s = "Bemanning" -> <<"b", "e">>
                [] s = "Bilpleie" -> <<"b", "i">>
                [] s = "Forhaandsmelding" -> <<"f", "o">>
MCProviderOf(s) == IF s = "Forhaandsmelding" THEN "github" ELSE "azdo"
MCRepoOf(s) == IF s = "Forhaandsmelding" THEN "meldinger" ELSE "era"
MCDefaultBranch(r) == IF r = "era" THEN "master" ELSE "main"
MCBranches(r) == IF r = "era" THEN {"master", "feature"} ELSE {"main"}
=============================================================================
