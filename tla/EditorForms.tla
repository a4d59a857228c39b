----------------------------- MODULE EditorForms -----------------------------
(***************************************************************************)
(* The tabs of the preview web that choose a template, fill in its fields  *)
(* and set PDF options, and the requests that the previews send: the state *)
(* of components/editor/index.tsx, templateConfigReducer.ts with its two   *)
(* forms, PdfOptionsTab.tsx and buildPreviewRequest.ts.                    *)
(*                                                                         *)
(* An option of the text fields holds what was typed.  Pasted JSON is any  *)
(* object; JSON.stringify drops the options that are undefined.            *)
(***************************************************************************)
EXTENDS LetterTemplates

CONSTANTS
    Undefined,             \* the value that clears the paper format
    FieldText,             \* what is typed in a field of a form
    OptionText(_),         \* what is typed or chosen for a PDF option
    MarginSide,            \* the sides of the margin that are edited
    Pasted                 \* JSON objects in the clipboard or the JSON field

VARIABLES
    selectedTemplate,
    defaultTemplateState,
    direktoratTemplateState,
    pdfOptions

formVars == <<selectedTemplate, defaultTemplateState, direktoratTemplateState, pdfOptions>>

Law == "jf. offl. 14"
InitialFields ==
    [dato |-> "13.09.2024", saksnummer |-> "2024/1234", saksbehandlerNavn |-> "Ola Nordmann",
     erUnntattOffentlighet |-> FALSE, unntattOffentlighetHjemmel |-> Law]

InitialArgs(fields) ==
    [language |-> "bm", signatureVariant |-> "elektroniskGodkjent", fields |-> fields]

FormInit ==
    /\ selectedTemplate = "default"
    /\ defaultTemplateState = InitialArgs(
          [tidligereReferanse |-> "", deresDato |-> "", deresReferanse |-> "", virksomhet |-> AddressLine]
          ++ InitialFields)
    /\ direktoratTemplateState = [signatureLines |-> TRUE]
          ++ InitialArgs([mottaker |-> AddressLine] ++ InitialFields)
    /\ pdfOptions = Empty

-----------------------------------------------------------------------------
(* The two reducers; a form is shown for the selected template only. *)

Changed(args, field, value) == [args EXCEPT !.fields = [@ EXCEPT ![field] = value]]

\* An address field that is emptied is still there: its line is the empty string.
DispatchDefault(args) ==
    /\ selectedTemplate = "default"
    /\ defaultTemplateState' = args
    /\ UNCHANGED <<selectedTemplate, direktoratTemplateState, pdfOptions>>

DispatchDirektorat(args) ==
    /\ selectedTemplate = "direktorat"
    /\ direktoratTemplateState' = args
    /\ UNCHANGED <<selectedTemplate, defaultTemplateState, pdfOptions>>

Edited(args, fields, variants) ==
    {[args EXCEPT !.language = l] : l \in Language}
        \cup {[args EXCEPT !.signatureVariant = v] : v \in variants}
        \cup {Changed(args, "erUnntattOffentlighet", checked) : checked \in BOOLEAN}
        \cup {Changed(args, field, text) : field \in fields, text \in FieldText}

EditDefault ==
    \E args \in Edited(defaultTemplateState, {"saksnummer", "tidligereReferanse", "unntattOffentlighetHjemmel"},
                       {"elektroniskGodkjent", "automatiskBehandlet", "usignert"}) :
        DispatchDefault(args)

EditDirektorat ==
    \E args \in Edited(direktoratTemplateState, {"saksnummer", "unntattOffentlighetHjemmel"},
                       {"elektroniskGodkjent", "usignert"}) :
        DispatchDirektorat(args)

SelectTemplate(template) ==
    /\ selectedTemplate' = template
    /\ UNCHANGED <<defaultTemplateState, direktoratTemplateState, pdfOptions>>

-----------------------------------------------------------------------------
(* The PDF options. *)

SetPdfOptions(options) ==
    /\ pdfOptions' = options
    /\ UNCHANGED <<selectedTemplate, defaultTemplateState, direktoratTemplateState>>

UpdateOption(key, value) ==
    SetPdfOptions([k \in {key} |-> value] ++ pdfOptions)

\* A pasted margin that the schema refuses may lose what is wrong with it, or not.
MarginsKept ==
    IF Part(pdfOptions, "margin") = Malformed THEN {Empty, Malformed} ELSE {Part(pdfOptions, "margin")}

\* The sides that were never set become empty, which is no margin at all.
SetMargin(side, text) ==
    LET margin == [top |-> "", right |-> "", bottom |-> "", left |-> ""]
    IN  \E kept \in MarginsKept :
            UpdateOption("margin", IF kept = Malformed THEN kept
                                   ELSE [k \in {side} |-> text] ++ kept ++ margin)

Reset == SetPdfOptions(Empty)

\* Unknown keys are left out; an object without a known one changes nothing.
PasteOptions(object) ==
    LET known == DOMAIN object \cap OptionKey
    IN  SetPdfOptions(IF known = {} THEN pdfOptions ELSE [k \in known |-> object[k]])

FormNext ==
    \/ EditDefault \/ EditDirektorat
    \/ \E template \in Template : SelectTemplate(template)
    \/ \E key \in OptionKey \ {"margin"} : \E value \in OptionText(key) : UpdateOption(key, value)
    \/ \E side \in MarginSide, text \in {"", "1cm"} : SetMargin(side, text)
    \/ \E object \in Pasted : PasteOptions(object)
    \/ Reset

-----------------------------------------------------------------------------
(* buildPreviewRequest *)

\* An operator whose name ends in _bug is the mistake that a mutant of
\* PROJECT.json puts in the place of the operator below it.
TemplateArgs_bug ==
    [defaultTemplateArgs |-> defaultTemplateState, direktoratTemplateArgs |-> direktoratTemplateState]

TemplateArgs ==
    CASE selectedTemplate = "default" -> [defaultTemplateArgs |-> defaultTemplateState]
      [] selectedTemplate = "direktorat" -> [direktoratTemplateArgs |-> direktoratTemplateState]
      [] OTHER -> Empty

\* What JSON.stringify leaves of the options.
SentOptions == [k \in {k \in DOMAIN pdfOptions : pdfOptions[k] # Undefined} |-> pdfOptions[k]]

HtmlRequest ==
    [document_title |-> "Preview",
     dynamic |-> [template |-> selectedTemplate] ++ TemplateArgs,
     as_html |-> TRUE]

PdfRequest ==
    [document_title |-> "Preview",
     author |-> "Brevgen2 Editor",
     dynamic |-> [template |-> selectedTemplate] ++ TemplateArgs] ++
    IF pdfOptions = Empty THEN Empty ELSE [pdf_options |-> SentOptions]
=============================================================================
