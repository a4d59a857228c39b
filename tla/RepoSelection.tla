----------------------------- MODULE RepoSelection -----------------------------
(***************************************************************************)
(* The control panel of the preview web that chooses system, branch and    *)
(* file: components/config with the server actions in actions.             *)
(*                                                                         *)
(* Repositories and branches are queries of React Query: one fetch per key *)
(* at a time, which a change of the key neither cancels nor waits for.  A  *)
(* key that becomes current is fetched again, and so is the current one    *)
(* when the window gets the focus.  The branches query also sets the       *)
(* selected branch when the panel that started it had none.                *)
(*                                                                         *)
(* The panel is unmounted when its overlay closes; its queries go on.      *)
(***************************************************************************)
EXTENDS SelectCombobox

CONSTANTS
    System,             \* allowedRepos, in the order of their names
    Provider,
    ProviderOf(_),
    RepoOf(_),          \* the repository of a system; several may share one
    DefaultBranch(_),
    Branches(_)         \* the branches of a repository

None == "none"
Systems == ToSet(System)
Repos == {RepoOf(s) : s \in Systems}

ASSUME SelectionInputs ==
    /\ System \in Seq(Systems) /\ None \notin Systems
    /\ \A s \in Systems : Label(s) \in Seq(ToSet(Label(s)))
    /\ \A s \in Systems : ProviderOf(s) \in Provider
    /\ \A r \in Repos : DefaultBranch(r) \in Branches(r) /\ None \notin Branches(r)

VARIABLES
    listed,             \* the providers whose repositories are known
    selectedRepo,       \* the system that is selected
    selectedBranch,
    fetch,              \* per repository, the branches query under way
    branches,           \* per repository, what the last one gave
    own,                \* history: the selected system started a query of its own
    raced               \* history: a query of another one was under way then

panel == <<selectedRepo, selectedBranch>>
vars == <<combobox, listed, panel, fetch, branches, own, raced>>

\* A fetch keeps the branch of the render that started it: it adopts the default
\* branch when there was none, in the panel that was mounted.
NoFetch == [adopts |-> FALSE, mounted |-> FALSE, underway |-> FALSE]
Fetch(branch) == [adopts |-> branch = None, mounted |-> TRUE, underway |-> TRUE]

\* matchRepos, of the first n systems.
Listed[n \in 0..Len(System)] ==
    IF n = 0 THEN <<>>
    ELSE IF ProviderOf(System[n]) \in listed THEN Append(Listed[n - 1], System[n])
    ELSE Listed[n - 1]

Options == Listed[Len(System)]

Init ==
    /\ ComboboxInit
    /\ listed = {}
    /\ selectedRepo = None
    /\ selectedBranch = None
    /\ fetch = [r \in Repos |-> NoFetch]
    /\ branches = [r \in Repos |-> None]
    /\ own = FALSE
    /\ raced = FALSE

-----------------------------------------------------------------------------
(* handleRepoSelected *)

\* An operator whose name ends in _bug is the mistake that a mutant of
\* PROJECT.json puts in the place of the operator below it.
BranchAfter_bug(s) == selectedBranch

BranchAfter(s) == IF selectedRepo # s THEN None ELSE selectedBranch

\* The key of the branches query changes with the repository, not with the system.
KeyChanges(s) == selectedRepo = None \/ RepoOf(selectedRepo) # RepoOf(s)

StartsFetch(s) == KeyChanges(s) /\ ~fetch[RepoOf(s)].underway

SelectSystem(s) ==
    /\ selectedRepo' = s
    /\ selectedBranch' = BranchAfter(s)
    /\ fetch' = IF StartsFetch(s) THEN [fetch EXCEPT ![RepoOf(s)] = Fetch(BranchAfter(s))] ELSE fetch
    /\ own' = IF s = selectedRepo THEN own
              ELSE KeyChanges(s) /\ ~fetch[RepoOf(s)].underway
    /\ raced' = IF s = selectedRepo THEN raced
                ELSE \E r \in Repos \ {RepoOf(s)} : fetch[r].adopts /\ fetch[r].mounted
    /\ UNCHANGED <<listed, branches>>

\* The mouse, or a key, on option i.
Choose(i) ==
    /\ SelectOption(i)
    /\ IF i \in Indices(Options) THEN SelectSystem(Option(Options, i))
       ELSE UNCHANGED <<listed, panel, fetch, branches, own, raced>>

\* BranchSelector, which is shown once there is a branch.
SelectBranch(b) ==
    /\ selectedRepo # None /\ selectedBranch # None
    /\ branches[RepoOf(selectedRepo)] \in {"data", "stale"}
    /\ b \in Branches(RepoOf(selectedRepo)) \ {selectedBranch}
    /\ selectedBranch' = b
    /\ UNCHANGED <<combobox, listed, selectedRepo, fetch, branches, own, raced>>

-----------------------------------------------------------------------------
(* The queries. *)

\* aggregateRepos: a provider that fails has no repositories; it never throws.
ReposAnswer(answering) ==
    /\ listed' = answering
    /\ UNCHANGED <<combobox, panel, fetch, branches, own, raced>>

Adopted_bug(r) == selectedBranch

\* The default branch is set in the panel that started the query.
Adopted(r) == IF fetch[r].adopts /\ fetch[r].mounted THEN DefaultBranch(r) ELSE selectedBranch

BranchesAnswer(r) ==
    /\ fetch[r].underway
    /\ fetch' = [fetch EXCEPT ![r] = NoFetch]
    /\ branches' = [branches EXCEPT ![r] = "data"]
    /\ selectedBranch' = Adopted(r)
    /\ UNCHANGED <<combobox, listed, selectedRepo, own, raced>>

\* After three retries; what an earlier query gave is kept.
BranchesFail(r) ==
    /\ fetch[r].underway
    /\ fetch' = [fetch EXCEPT ![r] = NoFetch]
    /\ branches' = [branches EXCEPT ![r] = IF @ \in {"data", "stale"} THEN "stale" ELSE "error"]
    /\ UNCHANGED <<combobox, listed, panel, own, raced>>

\* refetchOnWindowFocus, of the current key.
Focus ==
    /\ selectedRepo # None
    /\ ~fetch[RepoOf(selectedRepo)].underway
    /\ fetch' = [fetch EXCEPT ![RepoOf(selectedRepo)] = Fetch(selectedBranch)]
    /\ UNCHANGED <<combobox, listed, panel, branches, own, raced>>

\* A tab of the panel has its own list box.
SwitchTab ==
    /\ Remount
    /\ UNCHANGED <<listed, panel, fetch, branches, own, raced>>

\* The overlay is closed and opened again: setters of the old panel do nothing.
Reopen ==
    /\ Remount
    /\ selectedRepo' = None
    /\ selectedBranch' = None
    /\ fetch' = [r \in Repos |-> [fetch[r] EXCEPT !.mounted = FALSE]]
    /\ own' = FALSE
    /\ raced' = FALSE
    /\ UNCHANGED <<listed, branches>>

UseList ==
    /\ Handle(Options, selectedRepo)
    /\ UNCHANGED <<listed, panel, fetch, branches, own, raced>>

Next ==
    \/ UseList
    \/ \E i \in Indices(Options) \cup {activeIndex} : Choose(i)
    \/ \E b \in UNION {Branches(r) : r \in Repos} : SelectBranch(b)
    \/ \E r \in Repos : BranchesAnswer(r) \/ BranchesFail(r)
    \/ \E answering \in SUBSET Provider : ReposAnswer(answering)
    \/ Focus \/ SwitchTab \/ Reopen

Spec == Init /\ [][Next]_vars

\* Every query is answered, one way or the other.
FairSpec == Spec /\ \A r \in Repos : WF_vars(BranchesAnswer(r) \/ BranchesFail(r))

-----------------------------------------------------------------------------
(* Properties. *)

\* The files are listed of a branch that the selected system has, unless it was
\* chosen while the first branches query of another one was out, whose late answer
\* sets the branch of that one.  And a system that started its own query has a branch,
\* and with it files to choose from, as soon as a query has succeeded; one that shares
\* its repository with the system before it, or takes over a query that was under way,
\* may have none.
BranchFollowsSelection ==
    /\ selectedBranch = None \/ raced \/ selectedBranch \in Branches(RepoOf(selectedRepo))
    /\ own /\ ~fetch[RepoOf(selectedRepo)].underway /\ branches[RepoOf(selectedRepo)] = "data"
          => selectedBranch # None

\* Every selection that started a query comes to a branch or to an error, or is
\* given up for another one.  An error is shown until a query succeeds, so one of an
\* earlier query of the repository counts.
SelectionSettles ==
    \A s \in Systems :
        (own /\ selectedRepo = s) ~>
            (selectedBranch # None \/ branches[RepoOf(s)] \in {"error", "stale"} \/ selectedRepo # s)

\* In an open list the letters typed lead to an option that starts with them, or
\* with the letter that was repeated, whenever there is one; and a repeated letter
\* goes on to another such option, whenever there is another one.
TypingFindsOption ==
    [][LET search == searchString'
           found == Matching(Options, IF Repeated(search) THEN <<search[1]>> ELSE search)
       IN  isOpen /\ Len(search) > Len(searchString) /\ found # {} =>
              /\ activeIndex' \in found
              /\ Repeated(search) /\ found # {activeIndex} => activeIndex' # activeIndex]_vars

=============================================================================
