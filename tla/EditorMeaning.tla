----------------------------- MODULE EditorMeaning -----------------------------
(***************************************************************************)
(* The editor against the meaning of templates: what the preview shows for *)
(* a document that is written as a template is what the template means.    *)
(***************************************************************************)
EXTENDS MarkdownEditor, MarkdownTemplates

Failed == parseError # NoError

\* splitLogicToken miscounts marks that touch: a nested condition after them is
\* taken for a separator of the section around it.
Miscounted(text) ==
    \E i, j \in DOMAIN text :
        i > 1 /\ i < j /\ text[i] = "}}" /\ text[i - 1] = "}}" /\ text[j] = "::"

Texts == {md} \cup {mdVars[v].string : v \in DOMAIN mdVars}

Reference == Meaning(Reading[md], mdVars, 1, 0, 0)

\* The preview shows what the template means under the values of its variables,
\* values that are templates included, and an error when it means nothing.
ParseIsMeaning ==
    \/ ReservedIn(mdVars) # {} /\ Failed
    \/ \E text \in Texts : Miscounted(text)
    \/ md \notin DOMAIN Reading /\ Failed
    \/ md \in DOMAIN Reading /\ Reference.ok /\ ~Failed /\ parsedMd = Reference.output
    \/ md \in DOMAIN Reading /\ ~Reference.ok /\ Failed

\* The line of an error is in the section that holds the mistake, at it or before.
ErrorNamesItsSection ==
    (parseError.line > 0 /\ md \in DOMAIN Reading /\ ~Reference.ok /\ Reference.line > 0) =>
        Reference.section <= parseError.line /\ parseError.line <= Reference.line
=============================================================================
