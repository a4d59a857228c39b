---------------------------- MODULE RenderRequests ----------------------------
(***************************************************************************)
(* The senders of requests to POST /genererbrev, which are the preview     *)
(* web, the NuGet client and anybody else who may, with what the service   *)
(* makes of what they send.  They share nothing, so a behaviour follows    *)
(* one of them.                                                            *)
(***************************************************************************)
EXTENDS EditorForms, ArgsBuilder

CONSTANTS
    OtherRequests, \* what other callers send
    MaxActs        \* bound on what a sender does

ASSUME RenderInputs ==
    /\ MaxActs \in Nat
    /\ \A request \in OtherRequests : Has(request, "dynamic")

\* The classes of the client have the types of the schema.
ASSUME ClientTypes ==
    /\ \A choice \in DefaultChoice, fields \in DefaultFields :
          DefaultArgsTyped([fields |-> fields] ++ choice)
    /\ \A choice \in DirektoratChoice, fields \in DirektoratFields :
          DirektoratArgsTyped([fields |-> fields] ++ choice)

VARIABLES sender, acts

vars == <<sender, acts, formVars, builderVars>>

Init ==
    /\ sender \in {"preview", "client", "other"}
    /\ acts = 0
    /\ FormInit
    /\ BuilderInit

Next ==
    /\ acts < MaxActs
    /\ acts' = acts + 1
    /\ \/ sender = "preview" /\ FormNext /\ UNCHANGED <<sender, builderVars>>
       \/ sender = "client" /\ BuilderNext /\ UNCHANGED <<sender, formVars>>

Spec == Init /\ [][Next]_vars

\* What the sender may send now.
Requests ==
    IF sender = "preview" THEN {HtmlRequest, PdfRequest}
    ELSE IF sender = "other" THEN OtherRequests
    ELSE IF built.made THEN {SerializedRequest} ELSE {}

-----------------------------------------------------------------------------
(* Properties. *)

MalformedOptions(request) == Has(request, "pdf_options") /\ ~PdfOptionsOk(request.pdf_options)

\* The preview is refused for the form that is shown, or for an option that was
\* pasted, and never for what was left in the form of another template.
OnlyShownFormBlocks ==
    sender = "preview" =>
        \A request \in Requests :
            \/ Accepted(request)
            \/ MalformedOptions(request)
            \/ selectedTemplate = "default" /\ ~ExemptionOk(defaultTemplateState.fields)
            \/ selectedTemplate = "direktorat" /\ ~ExemptionOk(direktoratTemplateState.fields)

\* Arguments of a template that the user gave up for another one.
LeftBehind ==
    \/ dynamic.template # "default" /\ Has(dynamic, "defaultTemplateArgs")
          /\ ~DefaultArgsOk(dynamic.defaultTemplateArgs)
    \/ dynamic.template # "direktorat" /\ Has(dynamic, "direktoratTemplateArgs")
          /\ ~DirektoratArgsOk(dynamic.direktoratTemplateArgs)

\* What Build returns is accepted by the service, as long as its builder is not used
\* again: Build refuses what the schema refuses, but for the conversion options and
\* the arguments left behind by another template, which it does not look at.
BuiltRequestAccepted ==
    sender = "client" /\ built.made /\ ~reused =>
        Accepted(SerializedRequest) \/ ~ConfigOk(SerializedRequest) \/ LeftBehind

\* A request that the schema accepts renders: its template finds the arguments it
\* parses again, and no line of the letter says "undefined".
AcceptedRequestRenders ==
    \A request \in Requests :
        Accepted(request) =>
            /\ ArgsParse(Parsed(request))
            /\ request.dynamic.template \in {"default", "direktorat"} =>
                  UndefinedLine \notin Letter(Parsed(request)).lines

\* The first of these objects that has the key decides.
FirstOf(objects, key) ==
    LET having == {i \in DOMAIN objects : Has(objects[i], key)}
    IN  IF having = {} THEN Malformed
        ELSE objects[CHOOSE i \in having : \A j \in having : i <= j][key]

\* An option of the caller overrides the template's, which overrides the renderer's,
\* and each one for itself: an option the caller does not give keeps its value.  A
\* header or footer turns itself on.  CSS replaces the template's or is added to it.
OptionsOverrideTemplate ==
    \A request \in {r \in Requests : Accepted(r)} :
        LET asked == Parsed(request)
            template == IF asked.dynamic.template = "custom" THEN Empty ELSE TemplateConfig(asked)
            levels == <<Part(asked, "pdf_options"), Part(template, "pdf_options"), DefaultConfig.pdf_options>>
            config == ResolveRenderConfig(asked)
            shown == FirstOf(levels, "headerTemplate") \notin {Malformed, ""}
                        \/ FirstOf(levels, "footerTemplate") \notin {Malformed, ""}
        IN  /\ \A key \in OptionKey :
                  FirstOf(<<config.pdf_options>>, key) =
                     IF key = "displayHeaderFooter" /\ FirstOf(levels, key) = Malformed /\ shown THEN TRUE
                     ELSE FirstOf(levels, key)
            /\ config.css = IF ~Has(asked, "css") THEN Part(template, "css")
                            ELSE IF Flag(asked, "merge_css") THEN Part(template, "css") \o asked.css
                            ELSE asked.css

\* The pages of a letter carry the reference that its letterhead shows, and none if it
\* shows none, unless the caller has a footer of his own; but the letterhead of the
\* direktorat leaves the number 0 out, which the footer shows.
FooterNamesTheCase ==
    \A request \in {r \in Requests : Accepted(r) /\ ~Flag(r, "as_html")} :
        LET letter == Letter(Parsed(request))
            document == Document(Parsed(request))
            references == {line[2] : line \in {l \in letter.lines : l[1] = "saksnummer"}}
        IN  request.dynamic.template \in {"default", "direktorat"}
               /\ ~Has(Part(request, "pdf_options"), "footerTemplate") =>
                  \/ references = {document.pdf_options.footerTemplate}
                  \/ references = {} /\ document.pdf_options.footerTemplate \in {NoReference, Zero}

=============================================================================
