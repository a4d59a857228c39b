------------------------- MODULE RepoSelection_proofs -------------------------
(***************************************************************************)
(* Proofs about RepoSelection for any list of systems, any providers and   *)
(* repositories, and any labels: the branch that is selected belongs to    *)
(* the system that is, and typing in the list finds the option.            *)
(***************************************************************************)
EXTENDS RepoSelection, SequenceTheorems, NaturalsInduction, WellFoundedInduction, TLAPS

-----------------------------------------------------------------------------
(* The options are a sequence of systems.                                    *)

\* A nonempty set of naturals has a least element.
LEMMA LeastElement ==
    ASSUME NEW S \in SUBSET Nat, S # {}
    PROVE  \E n \in S : \A m \in S : ~(m < n)
<1> DEFINE R == OpToRel(<, Nat)
<1>1. IsWellFoundedOn(R, Nat)
  BY NatLessThanWellFounded
<1>2. PICK n \in S : \A m \in S : <<m, n>> \notin R
  BY <1>1, WFMin
<1>3. \A m \in S : m < n => <<m, n>> \in R
  BY DEF OpToRel
<1> QED
  BY <1>2, <1>3

\* The step of Listed, for any candidate f.
Step(f, n) ==
    IF n = 0 THEN <<>>
    ELSE IF ProviderOf(System[n]) \in listed THEN Append(f[n - 1], System[n])
    ELSE f[n - 1]

\* A function that obeys the definition of Listed exists on every initial segment.
LEMMA ListedOnSegments ==
    ASSUME NEW N \in Nat
    PROVE  \E f : f = [n \in 0..N |-> Step(f, n)]
<1> DEFINE Bad == {m \in Nat : ~\E f : f = [n \in 0..m |-> Step(f, n)]}
<1>1. SUFFICES Bad = {}
  OBVIOUS
<1>2. SUFFICES ASSUME Bad # {}
               PROVE  FALSE
  OBVIOUS
<1>3. PICK m \in Bad : \A k \in Bad : ~(k < m)
  <2> Bad \in SUBSET Nat
    OBVIOUS
  <2> HIDE DEF Bad
  <2> QED
    BY <1>2, LeastElement
<1>4. CASE m = 0
  <2> DEFINE f == [n \in 0..0 |-> <<>>]
  <2>1. \A n \in 0..0 : Step(f, n) = <<>>
    BY DEF Step
  <2>2. f = [n \in 0..0 |-> Step(f, n)]
    BY <2>1
  <2> QED
    BY <1>3, <1>4, <2>2
<1>5. CASE m # 0
  <2>1. m \in Nat /\ m - 1 \in Nat /\ m - 1 < m
    BY <1>5
  <2>2. m - 1 \notin Bad
    BY <1>3, <2>1
  <2>3. PICK f : f = [n \in 0..(m - 1) |-> Step(f, n)]
    BY <2>1, <2>2
  <2> DEFINE g == [n \in 0..m |-> IF n = m THEN Step(f, m) ELSE f[n]]
  <2>4. ASSUME NEW n \in 0..m
        PROVE  g[n] = Step(g, n)
    <3>1. CASE n = m
      <4>1. n # 0 /\ n - 1 \in 0..m /\ n - 1 # m
        BY <1>5, <2>1, <3>1
      <4>2. g[n - 1] = f[n - 1]
        BY <4>1
      <4>3. g[n] = Step(f, n)
        BY <3>1
      <4> HIDE DEF g
      <4> QED
        BY <4>1, <4>2, <4>3 DEF Step
    <3>2. CASE n # m
      <4>1. n \in 0..(m - 1)
        BY <2>1, <3>2
      <4>2. f[n] = Step(f, n)
        BY <2>3, <4>1
      <4>3. g[n] = Step(f, n)
        BY <3>2, <4>2
      <4>4. n # 0 => g[n - 1] = f[n - 1]
        BY <2>1, <4>1
      <4> HIDE DEF g
      <4> QED
        BY <4>3, <4>4 DEF Step
    <3> QED
      BY <3>1, <3>2
  <2>5. g = [n \in 0..m |-> Step(g, n)]
    <3>1. g = [n \in 0..m |-> g[n]]
      OBVIOUS
    <3> HIDE DEF g
    <3> QED
      BY <2>4, <3>1
  <2> QED
    BY <1>3, <2>5
<1> QED
  BY <1>4, <1>5

\* Listed obeys its definition.
LEMMA ListedEquation ==
    ASSUME Len(System) \in Nat
    PROVE  \A n \in 0..Len(System) : Listed[n] = Step(Listed, n)
<1>1. \E f : f = [n \in 0..Len(System) |-> Step(f, n)]
  BY ListedOnSegments
<1>2. \E f : f = [n \in 0..Len(System) |->
                    IF n = 0 THEN <<>>
                    ELSE IF ProviderOf(System[n]) \in listed THEN Append(f[n - 1], System[n])
                    ELSE f[n - 1]]
  BY <1>1 DEF Step
<1>3. Listed = [n \in 0..Len(System) |->
                    IF n = 0 THEN <<>>
                    ELSE IF ProviderOf(System[n]) \in listed THEN Append(Listed[n - 1], System[n])
                    ELSE Listed[n - 1]]
  BY <1>2 DEF Listed
<1>4. Listed = [n \in 0..Len(System) |-> Step(Listed, n)]
  BY <1>3 DEF Step
<1> QED
  BY <1>4

\* Every option is one of the systems.
LEMMA OptionsAreSystems == Options \in Seq(Systems)
<1>1. System \in Seq(Systems) /\ Len(System) \in Nat
  BY SelectionInputs
<1> DEFINE Bad == {n \in 0..Len(System) : Listed[n] \notin Seq(Systems)}
<1>2. SUFFICES ASSUME Bad # {}
               PROVE  FALSE
  BY <1>1 DEF Options
<1>3. PICK n \in Bad : \A k \in Bad : ~(k < n)
  <2> Bad \in SUBSET Nat
    BY <1>1
  <2> HIDE DEF Bad
  <2> QED
    BY <1>2, LeastElement
<1>4. n \in 0..Len(System) /\ Listed[n] \notin Seq(Systems)
  BY <1>3
<1>5. Listed[n] = Step(Listed, n)
  BY <1>1, <1>4, ListedEquation
<1>6. n # 0
  <2>1. <<>> \in Seq(Systems)
    OBVIOUS
  <2> QED
    BY <1>4, <1>5, <2>1 DEF Step
<1>7. n - 1 \in 0..Len(System) /\ n - 1 < n /\ n \in 1..Len(System)
  BY <1>1, <1>4, <1>6
<1>8. Listed[n - 1] \in Seq(Systems)
  BY <1>3, <1>7
<1>9. System[n] \in Systems
  BY <1>1, <1>7, ElementOfSeq
<1>10. Listed[n] = Append(Listed[n - 1], System[n]) \/ Listed[n] = Listed[n - 1]
  BY <1>5, <1>6 DEF Step
<1>11. Append(Listed[n - 1], System[n]) \in Seq(Systems)
  BY <1>8, <1>9, AppendProperties
<1> QED
  BY <1>4, <1>8, <1>10, <1>11

-----------------------------------------------------------------------------
(* What the list shows and finds.                                            *)

LEMMA MinIsLeast ==
    ASSUME NEW S \in SUBSET Nat, S # {}
    PROVE  Min(S) \in S /\ \A x \in S : Min(S) =< x
<1>1. PICK n \in S : \A m \in S : ~(m < n)
  BY LeastElement
<1>2. \E x \in S : \A y \in S : x =< y
  BY <1>1
<1> QED
  BY <1>2 DEF Min

LEMMA MatchingIsNat ==
    ASSUME NEW search
    PROVE  Matching(Options, search) \in SUBSET Nat
<1>1. Len(Options) \in Nat
  BY OptionsAreSystems
<1> QED
  BY <1>1 DEF Matching, Indices

\* Both ways of going on from the active option come to a match.
LEMMA NextMatchIsMatch ==
    ASSUME NEW matches \in SUBSET Nat, matches # {}
    PROVE  NextMatch(matches) \in matches
<1> DEFINE later == {i \in matches : i > AtLeast(activeIndex, 0)}
<1>1. later \in SUBSET Nat /\ later \subseteq matches
  OBVIOUS
<1>2. Min(matches) \in matches
  BY MinIsLeast
<1>3. later # {} => Min(later) \in later
  <2> HIDE DEF later
  <2> QED
    BY <1>1, MinIsLeast
<1>4. NextMatch(matches) = IF later # {} THEN Min(later) ELSE Min(matches)
  BY DEF NextMatch
<1> HIDE DEF later
<1> QED
  BY <1>1, <1>2, <1>3, <1>4

\* A repeated letter does not stay where it is if there is anywhere else to go.
LEMMA CycledGoesOn ==
    ASSUME NEW matches \in SUBSET Nat, matches # {}, NEW i
    PROVE  /\ Cycled(matches, i) \in matches
           /\ matches # {i} => Cycled(matches, i) # i
<1> DEFINE later == {j \in matches : j > i}
<1>1. later \in SUBSET Nat /\ later \subseteq matches
  OBVIOUS
<1>2. Min(matches) \in matches /\ \A x \in matches : Min(matches) =< x
  BY MinIsLeast
<1>3. later # {} => Min(later) \in later
  <2> HIDE DEF later
  <2> QED
    BY <1>1, MinIsLeast
<1>4. Cycled(matches, i) = IF i \in matches /\ later # {} THEN Min(later) ELSE Min(matches)
  BY DEF Cycled
<1>5. ASSUME i \in matches, later = {}, matches # {i}
      PROVE  Min(matches) # i
  <2>1. PICK j \in matches : j # i
    BY <1>5
  <2>2. j < i
    BY <1>5, <2>1
  <2> QED
    BY <1>2, <1>5, <2>1, <2>2
<1>6. i \in matches => i \notin later
  OBVIOUS
<1> HIDE DEF later
<1>7. Cycled(matches, i) \in matches
  BY <1>1, <1>2, <1>3, <1>4
<1>8. ASSUME matches # {i} PROVE Cycled(matches, i) # i
  <2>1. CASE i \notin matches
    BY <1>7, <2>1
  <2>2. CASE i \in matches /\ later # {}
    BY <1>3, <1>4, <1>6, <2>2
  <2>3. CASE i \in matches /\ later = {}
    BY <1>4, <1>5, <1>8, <2>3
  <2> QED
    BY <2>1, <2>2, <2>3
<1> QED
  BY <1>7, <1>8

\* The options that the letters typed up to now may lead to.
Found(search) == Matching(Options, IF Repeated(search) THEN <<search[1]>> ELSE search)

\* A letter typed into an open list.
LEMMA TypeLetterFinds ==
    ASSUME NEW letter \in Letter, searchString \in Seq(Letter), isOpen,
           TypeLetter(letter, Options, selectedRepo),
           Found(searchString') # {}
    PROVE  /\ activeIndex' \in Found(searchString')
           /\ Repeated(searchString') /\ Found(searchString') # {activeIndex} =>
                 activeIndex' # activeIndex
<1> DEFINE search == Append(searchString, letter)
           matches == Matching(Options, IF Repeated(search) THEN <<letter>> ELSE search)
<1>1. searchString' = search /\ search \in Seq(Letter) /\ Len(search) > 0
      /\ search[Len(search)] = letter /\ Len(search) \in DOMAIN search
  BY DEF TypeLetter
<1>2. Repeated(search) => search[1] = letter
  BY <1>1 DEF Repeated
<1>3. matches = Found(searchString')
  BY <1>1, <1>2 DEF Found
<1>4. matches # {} /\ matches \in SUBSET Nat
  BY <1>3, MatchingIsNat
<1>5. activeIndex' = IF Repeated(search) THEN Cycled(matches, activeIndex) ELSE NextMatch(matches)
  BY <1>4 DEF TypeLetter
<1>6. Repeated(searchString') <=> Repeated(search)
  BY <1>1
<1> HIDE DEF search, matches
<1>7. activeIndex' \in matches
  BY <1>4, <1>5, NextMatchIsMatch, CycledGoesOn
<1>8. Repeated(search) /\ matches # {activeIndex} => activeIndex' # activeIndex
  BY <1>4, <1>5, CycledGoesOn
<1> QED
  BY <1>3, <1>6, <1>7, <1>8

\* Nothing but a letter makes what was typed longer.
SearchKept == searchString' \in {searchString, <<>>}

LEMMA HandleSearch ==
    ASSUME Handle(Options, selectedRepo)
    PROVE  SearchKept \/ \E letter \in Letter : TypeLetter(letter, Options, selectedRepo)
<1>1. CASE ClickBox(Options, selectedRepo) \/ Leave
  BY <1>1 DEF ClickBox, Leave, SearchKept
<1>2. CASE \E key \in MoveKeys \cup {"Enter"} : PressKey(key, Options, selectedRepo)
  BY <1>2 DEF PressKey, SearchKept
<1>3. CASE \E i \in Indices(Options) : Hover(i)
  BY <1>3 DEF Hover, SearchKept
<1>4. CASE ClearSearch
  BY <1>4 DEF ClearSearch, SearchKept
<1> QED
  BY <1>1, <1>2, <1>3, <1>4 DEF Handle

LEMMA StepSearch ==
    ASSUME [Next]_vars
    PROVE  \/ SearchKept
           \/ UseList /\ \E letter \in Letter : TypeLetter(letter, Options, selectedRepo)
<1>1. CASE UseList
  BY <1>1, HandleSearch DEF UseList
<1>2. ASSUME NEW i, Choose(i)
      PROVE  SearchKept
  BY <1>2 DEF Choose, SelectOption, SearchKept
<1>3. ASSUME NEW b, SelectBranch(b)
      PROVE  SearchKept
  BY <1>3 DEF SelectBranch, combobox, SearchKept
<1>4. ASSUME NEW r, BranchesAnswer(r) \/ BranchesFail(r)
      PROVE  SearchKept
  BY <1>4 DEF BranchesAnswer, BranchesFail, combobox, SearchKept
<1>5. ASSUME NEW answering, ReposAnswer(answering)
      PROVE  SearchKept
  BY <1>5 DEF ReposAnswer, combobox, SearchKept
<1>6. CASE Focus
  BY <1>6 DEF Focus, combobox, SearchKept
<1>7. CASE SwitchTab \/ Reopen
  BY <1>7 DEF SwitchTab, Reopen, Remount, SearchKept
<1>8. CASE UNCHANGED vars
  BY <1>8 DEF vars, combobox, SearchKept
<1> QED
  BY <1>1, <1>2, <1>3, <1>4, <1>5, <1>6, <1>7, <1>8 DEF Next

SearchTyped == searchString \in Seq(Letter)

LEMMA SearchTypedStep ==
    ASSUME SearchTyped, [Next]_vars
    PROVE  SearchTyped'
<1>1. CASE SearchKept
  BY <1>1, EmptySeq DEF SearchKept, SearchTyped
<1>2. CASE \E letter \in Letter : TypeLetter(letter, Options, selectedRepo)
  BY <1>2 DEF TypeLetter, SearchTyped
<1> QED
  BY <1>1, <1>2, StepSearch

LEMMA SearchIsTyped == Spec => []SearchTyped
<1>1. Init => SearchTyped
  BY DEF Init, ComboboxInit, SearchTyped
<1> QED
  BY <1>1, SearchTypedStep, PTL DEF Spec

\* findOptionByChar: in an open list, whatever the labels are and wherever the user is,
\* the letters typed lead to an option that starts with them, or with the letter that
\* was repeated, whenever there is one; and a repeated letter goes on to another such
\* option, whenever there is another one.
THEOREM TypingFinds == Spec => TypingFindsOption
<1> DEFINE Finds ==
        LET search == searchString'
            found == Matching(Options, IF Repeated(search) THEN <<search[1]>> ELSE search)
        IN  isOpen /\ Len(search) > Len(searchString) /\ found # {} =>
               /\ activeIndex' \in found
               /\ Repeated(search) /\ found # {activeIndex} => activeIndex' # activeIndex
<1>1. ASSUME SearchTyped, [Next]_vars
      PROVE  Finds
  <2>1. CASE SearchKept
    <3>1. Len(searchString) \in Nat /\ Len(<<>>) = 0
      BY <1>1 DEF SearchTyped
    <3>2. ~(Len(searchString') > Len(searchString))
      BY <2>1, <3>1 DEF SearchKept
    <3> QED
      BY <3>2
  <2>2. CASE \E letter \in Letter : TypeLetter(letter, Options, selectedRepo)
    BY <1>1, <2>2, TypeLetterFinds DEF SearchTyped, Found
  <2> QED
    BY <1>1, <2>1, <2>2, StepSearch
<1>2. SearchTyped /\ [Next]_vars => [Finds]_vars
  BY <1>1
<1> QED
  BY <1>2, SearchIsTyped, PTL DEF Spec, TypingFindsOption

-----------------------------------------------------------------------------
(* The branch that is selected.                                              *)

\* A query under way that sets the branch of the panel when it is answered.
Adopting(r) == fetch[r].adopts /\ fetch[r].mounted

PanelTyped ==
    /\ selectedRepo \in Systems \cup {None}
    /\ fetch \in [Repos -> [adopts : BOOLEAN, mounted : BOOLEAN, underway : BOOLEAN]]
    /\ DOMAIN branches = Repos
    /\ own \in BOOLEAN /\ raced \in BOOLEAN

\* A query that adopts is that of the selected system, or the selection has raced it.
StraysAreRaced ==
    \A r \in Repos : Adopting(r) => selectedRepo # None /\ (raced \/ r = RepoOf(selectedRepo))

BranchOfRepo ==
    selectedBranch # None =>
        selectedRepo # None /\ (raced \/ selectedBranch \in Branches(RepoOf(selectedRepo)))

\* A system that started its own query has its branch, waits for it, or has failed:
\* the query that is out adopts, and with none out the last one has not succeeded.
BranchIsAwaited ==
    own => /\ selectedRepo # None
           /\ \/ selectedBranch # None
              \/ /\ Adopting(RepoOf(selectedRepo))
                 /\ fetch[RepoOf(selectedRepo)].underway
              \/ /\ ~fetch[RepoOf(selectedRepo)].underway
                 /\ branches[RepoOf(selectedRepo)] # "data"

SelectionInv == PanelTyped /\ StraysAreRaced /\ BranchOfRepo /\ BranchIsAwaited

LEMMA SystemFacts ==
    /\ None \notin Systems
    /\ \A s \in Systems : RepoOf(s) \in Repos
    /\ \A r \in Repos : DefaultBranch(r) \in Branches(r) /\ DefaultBranch(r) # None
                        /\ None \notin Branches(r)
BY SelectionInputs DEF Repos

LEMMA FetchTyped ==
    /\ NoFetch \in [adopts : BOOLEAN, mounted : BOOLEAN, underway : BOOLEAN]
    /\ ~NoFetch.adopts /\ ~NoFetch.underway
    /\ \A b : /\ Fetch(b) \in [adopts : BOOLEAN, mounted : BOOLEAN, underway : BOOLEAN]
              /\ Fetch(b).adopts <=> b = None
              /\ Fetch(b).mounted /\ Fetch(b).underway
<1>1. \A b : (b = None) \in BOOLEAN
  OBVIOUS
<1> QED
  BY <1>1 DEF NoFetch, Fetch

LEMMA SelectionInit == Init => SelectionInv
BY FetchTyped DEF Init, SelectionInv, PanelTyped, StraysAreRaced, BranchOfRepo, BranchIsAwaited, Adopting

LEMMA SelectSystemStep ==
    ASSUME SelectionInv, NEW s \in Systems, SelectSystem(s)
    PROVE  SelectionInv'
<1> DEFINE R == RepoOf(s)
<1>1. s # None /\ R \in Repos /\ selectedRepo' = s
  BY SystemFacts DEF SelectSystem
<1>2. CASE s = selectedRepo
  <2>1. selectedBranch' = selectedBranch /\ own' = own /\ raced' = raced /\ branches' = branches
    BY <1>2 DEF SelectSystem, BranchAfter
  <2>2. ~StartsFetch(s)
    BY <1>1, <1>2 DEF StartsFetch, KeyChanges
  <2>3. fetch' = fetch
    BY <2>2 DEF SelectSystem
  <2> QED
    BY <1>1, <1>2, <2>1, <2>3
       DEF SelectionInv, PanelTyped, StraysAreRaced, BranchOfRepo, BranchIsAwaited, Adopting
<1>3. CASE s # selectedRepo
  <2>1. selectedBranch' = None /\ branches' = branches
    BY <1>3 DEF SelectSystem, BranchAfter
  <2>2. own' <=> StartsFetch(s)
    BY <1>3 DEF SelectSystem, StartsFetch
  <2>3. raced' <=> \E r \in Repos \ {R} : Adopting(r)
    BY <1>3 DEF SelectSystem, Adopting
  <2>4. own' \in BOOLEAN /\ raced' \in BOOLEAN
    BY <1>3 DEF SelectSystem
  <2>5. CASE StartsFetch(s)
    <3>1. fetch' = [fetch EXCEPT ![R] = Fetch(None)]
      BY <2>1, <2>5 DEF SelectSystem
    <3>2. fetch'[R] = Fetch(None) /\ \A r \in Repos \ {R} : fetch'[r] = fetch[r]
      BY <1>1, <3>1 DEF SelectionInv, PanelTyped
    <3>3. PanelTyped'
      BY <1>1, <2>1, <2>4, <3>1, FetchTyped DEF SelectionInv, PanelTyped
    <3>4. StraysAreRaced'
      BY <1>1, <2>3, <3>2 DEF StraysAreRaced, Adopting
    <3>5. BranchOfRepo' /\ BranchIsAwaited'
      BY <1>1, <2>1, <3>2, FetchTyped DEF BranchOfRepo, BranchIsAwaited, Adopting
    <3> QED
      BY <3>3, <3>4, <3>5 DEF SelectionInv
  <2>6. CASE ~StartsFetch(s)
    <3>1. fetch' = fetch
      BY <2>6 DEF SelectSystem
    <3>2. PanelTyped'
      BY <1>1, <2>1, <2>4, <3>1 DEF SelectionInv, PanelTyped
    <3>3. StraysAreRaced'
      BY <1>1, <2>3, <3>1 DEF StraysAreRaced, Adopting
    <3>4. BranchOfRepo' /\ BranchIsAwaited'
      BY <2>1, <2>2, <2>6 DEF BranchOfRepo, BranchIsAwaited
    <3> QED
      BY <3>2, <3>3, <3>4 DEF SelectionInv
  <2> QED
    BY <2>5, <2>6
<1> QED
  BY <1>2, <1>3

LEMMA SelectionKept ==
    ASSUME SelectionInv, UNCHANGED <<panel, fetch, branches, own, raced>>
    PROVE  SelectionInv'
BY DEF panel, SelectionInv, PanelTyped, StraysAreRaced, BranchOfRepo, BranchIsAwaited, Adopting

LEMMA ChooseStep ==
    ASSUME SelectionInv, NEW i, Choose(i)
    PROVE  SelectionInv'
<1>1. CASE i \in Indices(Options)
  <2>1. Option(Options, i) \in Systems
    <3>1. Options \in Seq(Systems) /\ Len(Options) \in Nat
      BY OptionsAreSystems
    <3>2. i + 1 \in 1..Len(Options)
      BY <1>1, <3>1 DEF Indices
    <3>3. Options[i + 1] \in Systems
      BY <3>1, <3>2, ElementOfSeq
    <3> QED
      BY <3>3 DEF Option
  <2>2. SelectSystem(Option(Options, i))
    BY <1>1 DEF Choose
  <2> QED
    BY <2>1, <2>2, SelectSystemStep
<1>2. CASE i \notin Indices(Options)
  BY <1>2, SelectionKept DEF Choose
<1> QED
  BY <1>1, <1>2

LEMMA SelectBranchStep ==
    ASSUME SelectionInv, NEW b, SelectBranch(b)
    PROVE  SelectionInv'
<1>1. selectedRepo # None /\ selectedRepo \in Systems /\ RepoOf(selectedRepo) \in Repos
  BY SystemFacts DEF SelectBranch, SelectionInv, PanelTyped
<1>2. selectedBranch' = b /\ b \in Branches(RepoOf(selectedRepo)) /\ b # None
  BY <1>1, SystemFacts DEF SelectBranch
<1>3. UNCHANGED <<selectedRepo, fetch, branches, own, raced>>
  BY DEF SelectBranch
<1> QED
  BY <1>1, <1>2, <1>3
     DEF SelectionInv, PanelTyped, StraysAreRaced, BranchOfRepo, BranchIsAwaited, Adopting

LEMMA BranchesAnswerStep ==
    ASSUME SelectionInv, NEW r \in Repos, BranchesAnswer(r)
    PROVE  SelectionInv'
<1>1. UNCHANGED <<selectedRepo, own, raced>>
  BY DEF BranchesAnswer
<1>2. /\ fetch'[r] = NoFetch
      /\ \A q \in Repos \ {r} : fetch'[q] = fetch[q] /\ branches'[q] = branches[q]
  BY DEF BranchesAnswer, SelectionInv, PanelTyped
<1>3. PanelTyped'
  BY FetchTyped DEF BranchesAnswer, SelectionInv, PanelTyped
<1>4. StraysAreRaced'
  BY <1>1, <1>2, FetchTyped DEF SelectionInv, StraysAreRaced, Adopting
<1>5. CASE Adopting(r)
  <2>1. selectedBranch' = DefaultBranch(r) /\ selectedBranch' # None
    BY <1>5, SystemFacts DEF BranchesAnswer, Adopted, Adopting
  <2>2. selectedRepo # None /\ (raced \/ r = RepoOf(selectedRepo))
    BY <1>5 DEF SelectionInv, StraysAreRaced
  <2>3. BranchOfRepo'
    BY <1>1, <2>1, <2>2, SystemFacts DEF BranchOfRepo
  <2>4. BranchIsAwaited'
    BY <1>1, <2>1, <2>2 DEF BranchIsAwaited
  <2> QED
    BY <1>3, <1>4, <2>3, <2>4 DEF SelectionInv
<1>6. CASE ~Adopting(r)
  <2>1. selectedBranch' = selectedBranch
    BY <1>6 DEF BranchesAnswer, Adopted, Adopting
  <2>2. BranchOfRepo'
    BY <1>1, <2>1 DEF SelectionInv, BranchOfRepo
  <2>3. ASSUME own
        PROVE  selectedRepo # None /\ (RepoOf(selectedRepo) = r => selectedBranch # None)
    BY <1>6, <2>3 DEF BranchesAnswer, SelectionInv, BranchIsAwaited, Adopting
  <2>4. RepoOf(selectedRepo) \in Repos \/ selectedRepo = None
    BY SystemFacts DEF SelectionInv, PanelTyped
  <2>5. BranchIsAwaited'
    BY <1>1, <1>2, <2>1, <2>3, <2>4 DEF SelectionInv, BranchIsAwaited, Adopting
  <2> QED
    BY <1>3, <1>4, <2>2, <2>5 DEF SelectionInv
<1> QED
  BY <1>5, <1>6

LEMMA BranchesFailStep ==
    ASSUME SelectionInv, NEW r \in Repos, BranchesFail(r)
    PROVE  SelectionInv'
<1>1. UNCHANGED <<selectedRepo, selectedBranch, own, raced>>
  BY DEF BranchesFail, panel
<1>2. /\ fetch'[r] = NoFetch /\ branches'[r] # "data"
      /\ \A q \in Repos \ {r} : fetch'[q] = fetch[q] /\ branches'[q] = branches[q]
  BY DEF BranchesFail, SelectionInv, PanelTyped
<1>3. PanelTyped'
  BY <1>1, FetchTyped DEF BranchesFail, SelectionInv, PanelTyped
<1>4. StraysAreRaced'
  BY <1>1, <1>2, FetchTyped DEF SelectionInv, StraysAreRaced, Adopting
<1>5. BranchOfRepo'
  BY <1>1 DEF SelectionInv, BranchOfRepo
<1>6. RepoOf(selectedRepo) \in Repos \/ selectedRepo = None
  BY SystemFacts DEF SelectionInv, PanelTyped
<1>7. BranchIsAwaited'
  BY <1>1, <1>2, <1>6, FetchTyped DEF SelectionInv, BranchIsAwaited, Adopting
<1> QED
  BY <1>3, <1>4, <1>5, <1>7 DEF SelectionInv

LEMMA FocusStep ==
    ASSUME SelectionInv, Focus
    PROVE  SelectionInv'
<1> DEFINE R == RepoOf(selectedRepo)
<1>1. selectedRepo # None /\ R \in Repos
  BY SystemFacts DEF Focus, SelectionInv, PanelTyped
<1>2. UNCHANGED <<selectedRepo, selectedBranch, branches, own, raced>>
  BY DEF Focus, panel
<1>3. fetch'[R] = Fetch(selectedBranch) /\ \A q \in Repos \ {R} : fetch'[q] = fetch[q]
  BY <1>1 DEF Focus, SelectionInv, PanelTyped
<1>4. PanelTyped'
  BY <1>2, FetchTyped DEF Focus, SelectionInv, PanelTyped
<1>5. StraysAreRaced'
  BY <1>1, <1>2, <1>3 DEF SelectionInv, StraysAreRaced, Adopting
<1>6. BranchOfRepo'
  BY <1>2 DEF SelectionInv, BranchOfRepo
<1>7. BranchIsAwaited'
  BY <1>1, <1>2, <1>3, FetchTyped DEF BranchIsAwaited, Adopting
<1> QED
  BY <1>4, <1>5, <1>6, <1>7 DEF SelectionInv

LEMMA ReopenStep ==
    ASSUME SelectionInv, Reopen
    PROVE  SelectionInv'
<1>1. selectedRepo' = None /\ selectedBranch' = None /\ ~own' /\ own' \in BOOLEAN
      /\ raced' \in BOOLEAN /\ branches' = branches
  BY DEF Reopen
<1>2. fetch' \in [Repos -> [adopts : BOOLEAN, mounted : BOOLEAN, underway : BOOLEAN]]
  BY DEF Reopen, SelectionInv, PanelTyped
<1>3. \A r \in Repos : ~fetch'[r].mounted
  BY DEF Reopen, SelectionInv, PanelTyped
<1>4. PanelTyped'
  BY <1>1, <1>2 DEF SelectionInv, PanelTyped
<1>5. StraysAreRaced'
  BY <1>3 DEF StraysAreRaced, Adopting
<1>6. BranchOfRepo' /\ BranchIsAwaited'
  BY <1>1 DEF BranchOfRepo, BranchIsAwaited
<1> QED
  BY <1>4, <1>5, <1>6 DEF SelectionInv

LEMMA SelectionStep ==
    ASSUME SelectionInv, [Next]_vars
    PROVE  SelectionInv'
<1>1. CASE UseList \/ SwitchTab \/ \E answering \in SUBSET Provider : ReposAnswer(answering)
  <2>1. UNCHANGED <<panel, fetch, branches, own, raced>>
    BY <1>1 DEF UseList, SwitchTab, ReposAnswer
  <2> QED
    BY <2>1, SelectionKept
<1>2. CASE UNCHANGED vars
  BY <1>2, SelectionKept DEF vars
<1> QED
  BY <1>1, <1>2, ChooseStep, SelectBranchStep, BranchesAnswerStep, BranchesFailStep, FocusStep,
     ReopenStep DEF Next

LEMMA SelectionIsInductive == Spec => []SelectionInv
BY SelectionInit, SelectionStep, PTL DEF Spec

\* The panel of components/config: the files are listed of a branch that the selected
\* system has, unless the system was chosen while the first query of another one was
\* out; and a system that started its own query has a branch once a query has succeeded.
THEOREM BranchIsOfSelection == Spec => []BranchFollowsSelection
<1>1. SelectionInv => BranchFollowsSelection
  BY DEF SelectionInv, BranchOfRepo, BranchIsAwaited, BranchFollowsSelection
<1> QED
  BY <1>1, SelectionIsInductive, PTL

=============================================================================
