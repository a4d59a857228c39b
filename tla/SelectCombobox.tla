---------------------------- MODULE SelectCombobox ----------------------------
(***************************************************************************)
(* The list box of the preview web: components/SelectCombobox.tsx.  The    *)
(* options are a property of the component and may change while the list   *)
(* is open; onChange is left to the module that uses the list.             *)
(*                                                                         *)
(* A label is a sequence of letters.  Indices start at 0, as in the code.  *)
(***************************************************************************)
EXTENDS Integers, Sequences, SequencesExt, FiniteSetsExt

CONSTANTS
    Letter,        \* what is typed to find an option
    Label(_),      \* the label of an option
    PAGE_SIZE,
    MaxSearch      \* bound on the letters typed before the search is cleared

ASSUME ComboboxInputs == PAGE_SIZE \in Nat \ {0} /\ MaxSearch \in Nat \ {0}

VARIABLES isOpen, activeIndex, searchString

combobox == <<isOpen, activeIndex, searchString>>

ComboboxInit ==
    /\ isOpen = FALSE
    /\ activeIndex = -1
    /\ searchString = <<>>

AtLeast(a, b) == IF a > b THEN a ELSE b
AtMost(a, b) == IF a < b THEN a ELSE b

\* The options as the code counts them.
Indices(options) == 0..(Len(options) - 1)
Option(options, i) == options[i + 1]

IndexOf(options, value) ==
    LET found == {i \in Indices(options) : Option(options, i) = value}
    IN  IF found = {} THEN -1 ELSE Min(found)

-----------------------------------------------------------------------------
Open(options, value) ==
    /\ isOpen' = TRUE
    /\ activeIndex' = AtLeast(IndexOf(options, value), 0)

Close ==
    /\ isOpen' = FALSE
    /\ activeIndex' = -1

\* A click on the box.
ClickBox(options, value) ==
    /\ IF isOpen THEN Close ELSE Open(options, value)
    /\ UNCHANGED searchString

\* onBlur to an element outside, and Escape in an open list.
Leave ==
    /\ isOpen
    /\ Close
    /\ UNCHANGED searchString

\* Arrow keys, Home, End and the page keys.
Moved(key, options) ==
    LET last == Len(options) - 1
    IN  CASE key = "ArrowDown" -> AtMost(activeIndex + 1, last)
          [] key = "ArrowUp" -> AtLeast(activeIndex - 1, 0)
          [] key = "Home" -> 0
          [] key = "End" -> last
          [] key = "PageUp" -> AtLeast(activeIndex - PAGE_SIZE, 0)
          [] key = "PageDown" -> AtMost(activeIndex + PAGE_SIZE, last)

\* handleClosedKeyDown: the page keys do nothing.
OpenedAt(key, options, value) ==
    CASE key \in {"ArrowDown", "Enter"} -> AtLeast(IndexOf(options, value), 0)
      [] key = "ArrowUp" -> IF options # <<>> THEN 0 ELSE AtLeast(IndexOf(options, value), 0)
      [] key = "Home" -> 0
      [] key = "End" -> Len(options) - 1

MoveKeys == {"ArrowDown", "ArrowUp", "Home", "End", "PageUp", "PageDown"}

PressKey(key, options, value) ==
    /\ IF isOpen
       THEN key \in MoveKeys /\ activeIndex' = Moved(key, options) /\ UNCHANGED isOpen
       ELSE /\ key \in {"ArrowDown", "ArrowUp", "Home", "End", "Enter"}
            /\ isOpen' = TRUE
            /\ activeIndex' = OpenedAt(key, options, value)
    /\ UNCHANGED searchString

Hover(i) ==
    /\ isOpen
    /\ activeIndex' = i
    /\ UNCHANGED <<isOpen, searchString>>

\* selectOption with the mouse, or with Enter, Tab or Alt and ArrowUp.  An index
\* that the options no longer have closes the list and chooses nothing.
SelectOption(i) ==
    /\ isOpen
    /\ Close
    /\ UNCHANGED searchString

-----------------------------------------------------------------------------
(* findOptionByChar *)

Matching(options, search) ==
    {i \in Indices(options) : IsPrefix(search, Label(Option(options, i)))}

Repeated(search) == Len(search) > 1 /\ \A k \in DOMAIN search : search[k] = search[1]

\* An operator whose name ends in _bug is the mistake that a mutant of
\* PROJECT.json puts in the place of the operator below it: here the next option
\* is taken for the next one that matches.
Cycled_bug(matches, i) == IF i \in matches THEN i + 1 ELSE Min(matches)

\* The match after i, and the first one after the last.
Cycled(matches, i) ==
    LET later == {j \in matches : j > i}
    IN  IF i \in matches /\ later # {} THEN Min(later) ELSE Min(matches)

\* From the option after the active one, then from the first; the first option
\* counts as active while there is none.
NextMatch(matches) ==
    LET later == {i \in matches : i > AtLeast(activeIndex, 0)}
    IN  IF later # {} THEN Min(later) ELSE Min(matches)

\* A list that was closed opens at the chosen option, not at the match: open()
\* overrides the index that was set just before.
TypeLetter(letter, options, value) ==
    LET search == Append(searchString, letter)
        repeated == Repeated(search)
        matches == Matching(options, IF repeated THEN <<letter>> ELSE search)
    IN  /\ Len(searchString) < MaxSearch
        /\ searchString' = search
        /\ IF matches = {} THEN UNCHANGED <<isOpen, activeIndex>>
           ELSE IF ~isOpen THEN Open(options, value)
           ELSE /\ activeIndex' = IF repeated THEN Cycled(matches, activeIndex) ELSE NextMatch(matches)
                /\ UNCHANGED isOpen

\* Half a second after the last letter.
ClearSearch ==
    /\ searchString # <<>>
    /\ searchString' = <<>>
    /\ UNCHANGED <<isOpen, activeIndex>>

\* The component is mounted anew.
Remount ==
    /\ isOpen' = FALSE
    /\ activeIndex' = -1
    /\ searchString' = <<>>

\* What a key or the mouse does besides choosing.
Handle(options, value) ==
    \/ ClickBox(options, value)
    \/ Leave
    \/ \E key \in MoveKeys \cup {"Enter"} : PressKey(key, options, value)
    \/ \E i \in Indices(options) : Hover(i)
    \/ \E letter \in Letter : TypeLetter(letter, options, value)
    \/ ClearSearch
=============================================================================
