---------------------------- MODULE MarkdownEditor ----------------------------
(***************************************************************************)
(* The text and the variables of the editor of the preview web:            *)
(* useDynamicMarkdown.ts, VariablesTab.tsx, VariableInput.tsx and the      *)
(* loading of texts in index.tsx, all in apps/preview-web/components/      *)
(* editor.                                                                 *)
(*                                                                         *)
(* Every change of text or values parses the document again.  foundMdVars  *)
(* are the variables of the last text that could be scanned: they get an   *)
(* input in the tab, and only they can be filled at random or from the     *)
(* clipboard.  The clipboard answers later, for the variables of then.     *)
(***************************************************************************)
EXTENDS DynamicMarkdown

CONSTANTS
    Typed,        \* the strings typed into an input or pasted
    Random,       \* the strings that getRandomValue gives
    InitialText,  \* initialMd and initialVars
    InitialVars,
    ExampleText,  \* advancedMd and advancedVars
    ExampleVars

TextsOf(variables) ==
    {variables[v].string : v \in {u \in DOMAIN variables : IsTemplate(variables[u])}}

ASSUME EditorInputs ==
    /\ {InitialText, ExampleText} \subseteq Input
    /\ TextsOf(InitialVars) \cup TextsOf(ExampleVars) \cup Typed \cup Random \subseteq Input

VARIABLES
    md, parsedMd, parseError, mdVars, foundMdVars, mdVarsTypes,
    clipboard     \* the variables a paste was started for, if one is under way

state == <<md, parsedMd, parseError, mdVars, foundMdVars, mdVarsTypes>>
vars == <<state, clipboard>>

NotPasting == {}

-----------------------------------------------------------------------------
\* getMdVarTypes: a new variable is a string, whatever its value is.
TypesFor(types, found) ==
    [v \in DOMAIN types \cup ToSet(found) |-> IF v \in DOMAIN types THEN types[v] ELSE "string"]

\* parsedMd stays when a document fails; which earlier one it is of is left open.
Earlier == <<"earlier">>

Parsed(s, text, variables, found, parsed) ==
    [md |-> text, vars |-> variables,
     found |-> IF found.error = NoError THEN found.names ELSE s.found,
     types |-> IF found.error = NoError THEN TypesFor(s.types, found.names) ELSE s.types,
     parsed |-> IF found.error = NoError /\ parsed.error = NoError THEN parsed.output ELSE Earlier,
     error |-> IF found.error # NoError THEN found.error ELSE parsed.error]

\* The case PARSE_MD of the reducer, on a record of the whole state.  What was
\* found stays when the text cannot be scanned.
Parse(s, text, variables) ==
    Parsed(s, text, variables, FindMdVariables(text), ParseDynamicMd(text, variables))

Now == [md |-> md, vars |-> mdVars, found |-> foundMdVars, types |-> mdVarsTypes,
        parsed |-> parsedMd, error |-> parseError]

Become(s) ==
    /\ md' = s.md
    /\ mdVars' = s.vars
    /\ foundMdVars' = s.found
    /\ mdVarsTypes' = s.types
    /\ parsedMd' = s.parsed
    /\ parseError' = s.error

Set(variables, name, value) ==
    [v \in DOMAIN variables \cup {name} |-> IF v = name THEN value ELSE variables[v]]

\* setMdVar: a negation in front of a name is not part of it.
Variable(name) == IF name # <<>> /\ name[1] = "!" THEN Tail(name) ELSE name

\* One dispatch.
SetOne(s, name, value) == Parse(s, s.md, Set(s.vars, Variable(name), value[name]))

\* getInitialState
Init ==
    /\ md = InitialText
    /\ mdVars = InitialVars
    /\ parsedMd = ParseDynamicMd(InitialText, InitialVars).output
    /\ parseError = NoError
    /\ foundMdVars = FindMdVariables(InitialText).names
    /\ mdVarsTypes = [v \in DOMAIN InitialVars |-> InitialVars[v].type]
    /\ clipboard = NotPasting

-----------------------------------------------------------------------------
(* The editor and the inputs of the variables tab. *)

\* onChange of the Monaco editor.
SetMd(text) ==
    /\ Become(Parse(Now, text, mdVars))
    /\ UNCHANGED clipboard

\* VariableInput: a checkbox or a text area.
InputValues(name) ==
    IF mdVarsTypes[name] = "boolean" THEN {Bool(TRUE), Bool(FALSE)} ELSE {Str(s) : s \in Typed}

SetMdVar(name, value) ==
    /\ name \in ToSet(foundMdVars)
    /\ value \in InputValues(name)
    /\ Become(SetOne(Now, name, [n \in {name} |-> value]))
    /\ UNCHANGED clipboard

\* The dispatches of one handler, reduced in order.
SetAll(names, value) ==
    LET reduced[n \in 0..Len(names)] ==
            IF n = 0 THEN Now ELSE SetOne(reduced[n - 1], names[n], value)
    IN  reduced[Len(names)]

FillRandom ==
    /\ foundMdVars # <<>>
    /\ \E value \in [ToSet(foundMdVars) -> {Str(s) : s \in Random}] :
          Become(SetAll(foundMdVars, value))
    /\ UNCHANGED clipboard

StartPaste ==
    /\ clipboard = NotPasting
    /\ foundMdVars # <<>>
    /\ clipboard' = ToSet(foundMdVars)
    /\ UNCHANGED state

\* The JSON object holds some of the names; nothing may match, and what was
\* read may be no object.  A value that is no string is made one.
Paste ==
    /\ clipboard # NotPasting
    /\ clipboard' = NotPasting
    /\ \E names \in SUBSET clipboard : \E value \in [names -> {Str(s) : s \in Typed}] :
          Become(SetAll(SetToSeq(names), value))

-----------------------------------------------------------------------------
(* Loading of another text: editor.setValue and then parse. *)

\* setValue runs onChange with the old variables.
UpdateEditor(text, variables) == Parse(Parse(Now, text, mdVars), text, variables)

SelectExample ==
    /\ Become(UpdateEditor(ExampleText, ExampleVars))
    /\ UNCHANGED clipboard

\* An operator whose name ends in _bug is the mistake that a mutant of
\* PROJECT.json puts in the place of the operator below it.
EmptyVars_bug(text) == [v \in ToSet(foundMdVars) |-> Str(<<>>)]

\* loadMdWithEmptyVars, which throws when the text cannot be scanned.
EmptyVars(text) == [v \in ToSet(FindMdVariables(text).names) |-> Str(<<>>)]

LoadMdWithEmptyVars(text) ==
    /\ FindMdVariables(text).error = NoError
    /\ Become(UpdateEditor(text, EmptyVars(text)))
    /\ UNCHANGED clipboard

SetAnyVar ==
    \E name \in ToSet(foundMdVars) : \E value \in InputValues(name) : SetMdVar(name, value)

Next ==
    \/ \E text \in Input : SetMd(text)
    \/ SetAnyVar
    \/ FillRandom
    \/ StartPaste
    \/ Paste
    \/ SelectExample
    \/ \E text \in Input : LoadMdWithEmptyVars(text)

Spec == Init /\ [][Next]_vars

-----------------------------------------------------------------------------
(* Properties. *)

Exceptions(names) == {n \in names : n \in Literals \/ n = <<>> \/ n[1] = "!"}

\* Every name in the text and in the values that it comes to has a value.
AllSet(found, variables) ==
    \E names \in SUBSET DOMAIN variables :
        /\ found \subseteq names
        /\ \A v \in names : IsTemplate(variables[v]) =>
              ToSet(FindMdVariables(variables[v].string).names) \subseteq names

\* Once every variable that the tab shows, and every one that their values name,
\* has a value, nothing is undefined: detection and evaluation agree on what is a
\* variable.  The exceptions are a literal that stands alone in a condition, a
\* condition without a name, and a negation inside a comparison, which detection
\* alone takes off.
DetectedVariablesSuffice ==
    parseError.kind = "undefined" /\ AllSet(ToSet(foundMdVars), mdVars) =>
        parseError.about \subseteq Exceptions(parseError.about)

\* "set empty string defaults for all variables to avoid parsing error on load"
FilesLoadClean ==
    [][\/ parseError'.kind \in {"none", "operator", "reserved"}
       \/ parseError'.kind = "undefined" /\ parseError'.about \subseteq Exceptions(parseError'.about)
       \/ ~LoadMdWithEmptyVars(md')]_vars
=============================================================================
