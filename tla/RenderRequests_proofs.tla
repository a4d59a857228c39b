------------------------ MODULE RenderRequests_proofs ------------------------
(***************************************************************************)
(* What may be said of every request that the preview web and the builder  *)
(* of the NuGet client send, and of every request that is accepted, for    *)
(* any texts, fields, choices and options.                                 *)
(***************************************************************************)
EXTENDS RenderRequests, TLAPS

\* The keys of a spread, and whose values they have.
LEMMA SpreadKeys ==
    ASSUME NEW object, NEW defaults, NEW key
    PROVE  /\ Has(object ++ defaults, key) <=> Has(object, key) \/ Has(defaults, key)
           /\ Has(object, key) => (object ++ defaults)[key] = object[key]
           /\ ~Has(object, key) /\ Has(defaults, key) =>
                 (object ++ defaults)[key] = defaults[key]
BY DEF Has, ++

-----------------------------------------------------------------------------
(* The forms of the preview. *)

IsForm(args) == {"language", "signatureVariant", "fields"} \subseteq DOMAIN args

\* All that the schema asks of both forms holds, but for the exemption.
FormsTyped ==
    /\ selectedTemplate \in Template
    /\ IsForm(defaultTemplateState) /\ DefaultArgsTyped(defaultTemplateState)
    /\ IsForm(direktoratTemplateState) /\ DirektoratArgsTyped(direktoratTemplateState)

LEMMA EditKeepsDefault ==
    ASSUME NEW args, IsForm(args), DefaultArgsTyped(args), NEW variants, NEW fields,
           variants \subseteq {"elektroniskGodkjent", "automatiskBehandlet", "usignert"},
           "virksomhet" \notin fields,
           NEW new \in Edited(args, fields, variants)
    PROVE  IsForm(new) /\ DefaultArgsTyped(new)
<1>1. CASE \E l \in Language : new = [args EXCEPT !.language = l]
  BY <1>1 DEF IsForm, DefaultArgsTyped
<1>2. CASE \E v \in variants : new = [args EXCEPT !.signatureVariant = v]
  BY <1>2 DEF IsForm, DefaultArgsTyped
<1>3. ASSUME NEW field, NEW value, field # "virksomhet", new = Changed(args, field, value)
      PROVE  IsForm(new) /\ DefaultArgsTyped(new)
  BY <1>3 DEF IsForm, DefaultArgsTyped, Changed
<1> QED
  BY <1>1, <1>2, <1>3 DEF Edited

LEMMA EditKeepsDirektorat ==
    ASSUME NEW args, IsForm(args), DirektoratArgsTyped(args), NEW variants, NEW fields,
           variants \subseteq {"usignert", "elektroniskGodkjent"},
           "mottaker" \notin fields,
           NEW new \in Edited(args, fields, variants)
    PROVE  IsForm(new) /\ DirektoratArgsTyped(new)
<1>1. CASE \E l \in Language : new = [args EXCEPT !.language = l]
  BY <1>1 DEF IsForm, DirektoratArgsTyped, Has
<1>2. CASE \E v \in variants : new = [args EXCEPT !.signatureVariant = v]
  BY <1>2 DEF IsForm, DirektoratArgsTyped, Has
<1>3. ASSUME NEW field, NEW value, field # "mottaker", new = Changed(args, field, value)
      PROVE  IsForm(new) /\ DirektoratArgsTyped(new)
  BY <1>3 DEF IsForm, DirektoratArgsTyped, Changed, Has
<1> QED
  BY <1>1, <1>2, <1>3 DEF Edited

LEMMA FormsTypedAtFirst == FormInit => FormsTyped
<1> SUFFICES ASSUME FormInit PROVE FormsTyped
  OBVIOUS
<1>1. selectedTemplate \in Template
  BY DEF FormInit, Template
<1>2. IsForm(defaultTemplateState) /\ DefaultArgsTyped(defaultTemplateState)
  BY DEF FormInit, IsForm, DefaultArgsTyped, InitialArgs, InitialFields, Language, ++
<1>3. IsForm(direktoratTemplateState) /\ DirektoratArgsTyped(direktoratTemplateState)
  <2> DEFINE args == InitialArgs([mottaker |-> AddressLine] ++ InitialFields)
  <2>1. IsForm(args) /\ DirektoratArgsTyped(args) /\ ~Has([signatureLines |-> TRUE], "fields")
    BY DEF IsForm, DirektoratArgsTyped, InitialArgs, Language, Has, ++
  <2>2. direktoratTemplateState = [signatureLines |-> TRUE] ++ args
    BY DEF FormInit
  <2> HIDE DEF args
  <2> QED
    BY <2>1, <2>2 DEF IsForm, DirektoratArgsTyped, ++
<1> QED
  BY <1>1, <1>2, <1>3 DEF FormsTyped

LEMMA FormsStayTyped == FormsTyped /\ FormNext => FormsTyped'
<1> SUFFICES ASSUME FormsTyped, FormNext PROVE FormsTyped'
  OBVIOUS
<1>1. CASE EditDefault
  <2>1. PICK args \in Edited(defaultTemplateState,
                  {"saksnummer", "tidligereReferanse", "unntattOffentlighetHjemmel"},
                  {"elektroniskGodkjent", "automatiskBehandlet", "usignert"}) :
            DispatchDefault(args)
    BY <1>1 DEF EditDefault
  <2>2. IsForm(args) /\ DefaultArgsTyped(args)
    BY EditKeepsDefault DEF FormsTyped
  <2> QED
    BY <2>1, <2>2 DEF FormsTyped, DispatchDefault
<1>2. CASE EditDirektorat
  <2>1. PICK args \in Edited(direktoratTemplateState,
                  {"saksnummer", "unntattOffentlighetHjemmel"},
                  {"elektroniskGodkjent", "usignert"}) :
            DispatchDirektorat(args)
    BY <1>2 DEF EditDirektorat
  <2>2. IsForm(args) /\ DirektoratArgsTyped(args)
    BY EditKeepsDirektorat DEF FormsTyped
  <2> QED
    BY <2>1, <2>2 DEF FormsTyped, DispatchDirektorat
<1>3. CASE \E template \in Template : SelectTemplate(template)
  BY <1>3 DEF FormsTyped, SelectTemplate
<1>4. ASSUME NEW given, SetPdfOptions(given) PROVE FormsTyped'
  BY <1>4 DEF FormsTyped, SetPdfOptions
<1> QED
  BY <1>1, <1>2, <1>3, <1>4
     DEF FormNext, UpdateOption, SetMargin, PasteOptions, Reset

-----------------------------------------------------------------------------
(* The builder. *)

\* What was built is still what Build looked at, as long as the builder was not used.
BuilderTyped ==
    /\ Has(dynamic, "template") /\ dynamic.template \in Template
    /\ Has(dynamic, "defaultTemplateArgs") => DefaultArgsTyped(dynamic.defaultTemplateArgs)
    /\ Has(dynamic, "direktoratTemplateArgs") => DirektoratArgsTyped(dynamic.direktoratTemplateArgs)
    /\ Has(chosen, "default") => chosen["default"] \in DefaultChoice
    /\ Has(chosen, "direktorat") => chosen["direktorat"] \in DirektoratChoice
    /\ Has(built, "made") /\ built.made \in BOOLEAN
    /\ built.made /\ ~reused => BuildOk

LEMMA BuilderTypedAtFirst == BuilderInit => BuilderTyped
BY DEF BuilderInit, BuilderTyped, NotBuilt, Has, Empty, Template

\* A step after Build makes the builder one that is used again.
LEMMA StepReuses ==
    ASSUME NEW interface, NEW next, Step(interface, next), Has(built, "made"), built.made \in BOOLEAN,
           Has(built', "made"), built'.made = built.made
    PROVE  /\ Has(built', "made") /\ built'.made \in BOOLEAN
           /\ (built.made /\ ~reused => BuildOk)'
BY DEF Step

LEMMA BuilderStaysTyped == BuilderTyped /\ BuilderNext => BuilderTyped'
<1> SUFFICES ASSUME BuilderTyped, BuilderNext PROVE BuilderTyped'
  OBVIOUS
<1>1. CASE AddMarkdown
  BY <1>1, StepReuses DEF AddMarkdown, BuilderTyped
<1>2. ASSUME NEW choice \in DefaultChoice, ChooseTemplate("default", choice) PROVE BuilderTyped'
  <2>1. /\ dynamic' = [dynamic EXCEPT !.template = "default"]
        /\ chosen' = [k \in {"default"} |-> choice] ++ chosen
        /\ built' = built
    BY <1>2 DEF ChooseTemplate
  <2>2. Has(chosen', "direktorat") => Has(chosen, "direktorat") /\ chosen'["direktorat"] = chosen["direktorat"]
    BY <2>1, SpreadKeys DEF Has
  <2>3. chosen'["default"] = choice
    BY <2>1, SpreadKeys DEF Has
  <2>4. PICK interface, next : Step(interface, next)
    BY <1>2 DEF ChooseTemplate
  <2> QED
    BY <2>1, <2>2, <2>3, <2>4, StepReuses DEF BuilderTyped, Has, Template
<1>3. ASSUME NEW choice \in DirektoratChoice, ChooseTemplate("direktorat", choice) PROVE BuilderTyped'
  <2>1. /\ dynamic' = [dynamic EXCEPT !.template = "direktorat"]
        /\ chosen' = [k \in {"direktorat"} |-> choice] ++ chosen
        /\ built' = built
    BY <1>3 DEF ChooseTemplate
  <2>2. Has(chosen', "default") => Has(chosen, "default") /\ chosen'["default"] = chosen["default"]
    BY <2>1, SpreadKeys DEF Has
  <2>3. chosen'["direktorat"] = choice
    BY <2>1, SpreadKeys DEF Has
  <2>4. PICK interface, next : Step(interface, next)
    BY <1>3 DEF ChooseTemplate
  <2> QED
    BY <2>1, <2>2, <2>3, <2>4, StepReuses DEF BuilderTyped, Has, Template
<1>4. ASSUME NEW template \in {"custom", "blank"}, ChoosePlain(template) PROVE BuilderTyped'
  <2>1. dynamic' = [dynamic EXCEPT !.template = template] /\ UNCHANGED <<chosen, built>>
    BY <1>4 DEF ChoosePlain
  <2>2. PICK interface, next : Step(interface, next)
    BY <1>4 DEF ChoosePlain
  <2> QED
    BY <2>1, <2>2, StepReuses DEF BuilderTyped, Has, Template
<1>5. ASSUME NEW fields \in DefaultFields, WithDefaultTemplateFields(fields) PROVE BuilderTyped'
  <2> DEFINE args == [fields |-> fields] ++ chosen["default"]
  <2>1. /\ Has(chosen, "default")
        /\ dynamic' = [k \in {"defaultTemplateArgs"} |-> args] ++ dynamic
        /\ UNCHANGED <<chosen, built>>
    BY <1>5 DEF WithDefaultTemplateFields, GiveFields
  <2>2. DefaultArgsTyped(args)
    BY <2>1, ClientTypes DEF BuilderTyped
  <2> HIDE DEF args
  <2>3. dynamic'.defaultTemplateArgs = args
    BY <2>1, SpreadKeys DEF Has
  <2>4. /\ Has(dynamic', "template") /\ dynamic'.template = dynamic.template
        /\ Has(dynamic', "direktoratTemplateArgs") <=> Has(dynamic, "direktoratTemplateArgs")
        /\ Has(dynamic, "direktoratTemplateArgs") =>
              dynamic'.direktoratTemplateArgs = dynamic.direktoratTemplateArgs
    BY <2>1, SpreadKeys DEF Has, BuilderTyped
  <2>5. PICK interface, next : Step(interface, next)
    BY <1>5 DEF WithDefaultTemplateFields, GiveFields
  <2> QED
    BY <2>1, <2>2, <2>3, <2>4, <2>5, StepReuses DEF BuilderTyped
<1>6. ASSUME NEW fields \in DirektoratFields, WithDirektoratTemplateFields(fields) PROVE BuilderTyped'
  <2> DEFINE args == [fields |-> fields] ++ chosen["direktorat"]
  <2>1. /\ Has(chosen, "direktorat")
        /\ dynamic' = [k \in {"direktoratTemplateArgs"} |-> args] ++ dynamic
        /\ UNCHANGED <<chosen, built>>
    BY <1>6 DEF WithDirektoratTemplateFields, GiveFields
  <2>2. DirektoratArgsTyped(args)
    BY <2>1, ClientTypes DEF BuilderTyped
  <2> HIDE DEF args
  <2>3. dynamic'.direktoratTemplateArgs = args
    BY <2>1, SpreadKeys DEF Has
  <2>4. /\ Has(dynamic', "template") /\ dynamic'.template = dynamic.template
        /\ Has(dynamic', "defaultTemplateArgs") <=> Has(dynamic, "defaultTemplateArgs")
        /\ Has(dynamic, "defaultTemplateArgs") =>
              dynamic'.defaultTemplateArgs = dynamic.defaultTemplateArgs
    BY <2>1, SpreadKeys DEF Has, BuilderTyped
  <2>5. PICK interface, next : Step(interface, next)
    BY <1>6 DEF WithDirektoratTemplateFields, GiveFields
  <2> QED
    BY <2>1, <2>2, <2>3, <2>4, <2>5, StepReuses DEF BuilderTyped
<1>7. ASSUME NEW metadata \in Metadata, WithMetadata(metadata) PROVE BuilderTyped'
  BY <1>7, StepReuses DEF WithMetadata, BuilderTyped
<1>8. ASSUME NEW config \in PdfConfig, WithConversionOptions(config) PROVE BuilderTyped'
  <2>1. Has(built', "made") /\ built'.made = built.made
    BY <1>8 DEF WithConversionOptions, BuilderTyped, Has
  <2>2. UNCHANGED <<dynamic, chosen>>
    BY <1>8 DEF WithConversionOptions
  <2>3. Step("IBuildStep", "IBuildStep")
    BY <1>8 DEF WithConversionOptions
  <2> QED
    BY <2>1, <2>2, <2>3, StepReuses DEF BuilderTyped
<1>9. CASE Build
  <2>1. built'.made = TRUE /\ Has(built', "made") /\ UNCHANGED <<dynamic, chosen>> /\ BuildOk
    BY <1>9 DEF Build, Has
  <2>2. BuildOk'
    BY <2>1 DEF BuildOk
  <2> QED
    BY <2>1, <2>2 DEF BuilderTyped
<1> QED
  BY <1>1, <1>2, <1>3, <1>4, <1>5, <1>6, <1>7, <1>8, <1>9 DEF BuilderNext

-----------------------------------------------------------------------------
Inv == FormsTyped /\ BuilderTyped

\* Everything the senders hold is what the schema asks for, but for the exemption.
THEOREM SendersTyped == Spec => []Inv
<1>1. Init => Inv
  BY FormsTypedAtFirst, BuilderTypedAtFirst DEF Init, Inv
<1>2. Inv /\ [Next]_vars => Inv'
  <2> SUFFICES ASSUME Inv, [Next]_vars PROVE Inv'
    OBVIOUS
  <2>1. CASE FormNext /\ UNCHANGED builderVars
    BY <2>1, FormsStayTyped DEF Inv, BuilderTyped, builderVars, BuildOk
  <2>2. CASE BuilderNext /\ UNCHANGED formVars
    BY <2>2, BuilderStaysTyped DEF Inv, FormsTyped, formVars
  <2>3. CASE UNCHANGED vars
    BY <2>3 DEF vars, formVars, builderVars, Inv, FormsTyped, BuilderTyped, BuildOk
  <2> QED
    BY <2>1, <2>2, <2>3 DEF Next
<1> QED
  BY <1>1, <1>2, PTL DEF Spec

-----------------------------------------------------------------------------
(* The requests of the preview. *)

Sent == [template |-> selectedTemplate] ++ TemplateArgs

ShownFormOk ==
    /\ selectedTemplate = "default" => ExemptionOk(defaultTemplateState.fields)
    /\ selectedTemplate = "direktorat" => ExemptionOk(direktoratTemplateState.fields)

LEMMA PreviewKeys ==
    /\ Has(HtmlRequest, "dynamic") /\ HtmlRequest.dynamic = Sent
    /\ Has(PdfRequest, "dynamic") /\ PdfRequest.dynamic = Sent
    /\ \A key \in {"page_media_type", "css", "merge_css"} : ~Has(HtmlRequest, key) /\ ~Has(PdfRequest, key)
    /\ ~Has(HtmlRequest, "pdf_options")
<1> DEFINE known == [document_title |-> "Preview", author |-> "Brevgen2 Editor", dynamic |-> Sent]
           pdf == IF pdfOptions = Empty THEN Empty ELSE [pdf_options |-> SentOptions]
<1>1. PdfRequest = known ++ pdf
  BY DEF PdfRequest, Sent
<1>2. Has(known, "dynamic") /\ known.dynamic = Sent
  BY DEF Has
<1>3. \A key \in {"page_media_type", "css", "merge_css"} : ~Has(known, key) /\ ~Has(pdf, key)
  BY DEF Has, Empty
<1>4. /\ Has(HtmlRequest, "dynamic") /\ HtmlRequest.dynamic = Sent /\ ~Has(HtmlRequest, "pdf_options")
      /\ \A key \in {"page_media_type", "css", "merge_css"} : ~Has(HtmlRequest, key)
  BY DEF HtmlRequest, Sent, Has
<1> HIDE DEF known, pdf
<1> QED
  BY <1>1, <1>2, <1>3, <1>4, SpreadKeys

LEMMA SentIsOk == ASSUME FormsTyped PROVE ShownFormOk => DynamicOk(Sent)
<1> SUFFICES ASSUME ShownFormOk PROVE DynamicOk(Sent)
  OBVIOUS
<1> DEFINE shown == [template |-> selectedTemplate]
<1>1. Has(shown, "template") /\ shown.template = selectedTemplate
      /\ ~Has(shown, "defaultTemplateArgs") /\ ~Has(shown, "direktoratTemplateArgs")
  BY DEF Has
<1>2. Sent.template = selectedTemplate
  BY <1>1, SpreadKeys DEF Sent
<1>3. CASE selectedTemplate = "default"
  <2>1. /\ Has(TemplateArgs, "defaultTemplateArgs") /\ ~Has(TemplateArgs, "direktoratTemplateArgs")
        /\ TemplateArgs.defaultTemplateArgs = defaultTemplateState
    BY <1>3 DEF TemplateArgs, Has
  <2>2. /\ Has(Sent, "defaultTemplateArgs") /\ ~Has(Sent, "direktoratTemplateArgs")
        /\ Sent.defaultTemplateArgs = defaultTemplateState
    BY <1>1, <2>1, SpreadKeys DEF Sent
  <2>3. DefaultArgsOk(defaultTemplateState)
    BY <1>3 DEF FormsTyped, ShownFormOk, DefaultArgsOk
  <2> QED
    BY <1>2, <1>3, <2>2, <2>3 DEF DynamicOk, HasRequiredArgs, Template
<1>4. CASE selectedTemplate = "direktorat"
  <2>1. /\ Has(TemplateArgs, "direktoratTemplateArgs") /\ ~Has(TemplateArgs, "defaultTemplateArgs")
        /\ TemplateArgs.direktoratTemplateArgs = direktoratTemplateState
    BY <1>4 DEF TemplateArgs, Has
  <2>2. /\ Has(Sent, "direktoratTemplateArgs") /\ ~Has(Sent, "defaultTemplateArgs")
        /\ Sent.direktoratTemplateArgs = direktoratTemplateState
    BY <1>1, <2>1, SpreadKeys DEF Sent
  <2>3. DirektoratArgsOk(direktoratTemplateState)
    BY <1>4 DEF FormsTyped, ShownFormOk, DirektoratArgsOk
  <2> QED
    BY <1>2, <1>4, <2>2, <2>3 DEF DynamicOk, HasRequiredArgs, Template
<1>5. CASE selectedTemplate \notin {"default", "direktorat"}
  <2>1. ~Has(TemplateArgs, "defaultTemplateArgs") /\ ~Has(TemplateArgs, "direktoratTemplateArgs")
    BY <1>5 DEF TemplateArgs, Has, Empty
  <2>2. ~Has(Sent, "defaultTemplateArgs") /\ ~Has(Sent, "direktoratTemplateArgs")
    BY <1>1, <2>1, SpreadKeys DEF Sent
  <2> QED
    BY <1>2, <1>5, <2>2 DEF DynamicOk, HasRequiredArgs, FormsTyped
<1> QED
  BY <1>3, <1>4, <1>5

\* The preview is refused for the form that is shown or for a malformed option, whatever
\* was typed into the other form before (EditorForms.tsx, buildPreviewRequest.ts).
THEOREM ShownFormBlocks == Spec => []OnlyShownFormBlocks
<1>1. Inv => OnlyShownFormBlocks
  <2> SUFFICES ASSUME Inv, sender = "preview", NEW request \in Requests,
                      ~MalformedOptions(request), ShownFormOk
               PROVE  Accepted(request)
    BY DEF OnlyShownFormBlocks, ShownFormOk
  <2>1. request \in {HtmlRequest, PdfRequest}
    BY DEF Requests
  <2>2. DynamicOk(request.dynamic)
    BY <2>1, PreviewKeys, SentIsOk DEF Inv
  <2>3. \A key \in {"page_media_type", "css", "merge_css"} : ~Has(request, key)
    BY <2>1, PreviewKeys
  <2> QED
    BY <2>2, <2>3 DEF Accepted, ConfigOk, MalformedOptions, Flag
<1> QED
  BY <1>1, SendersTyped, PTL

-----------------------------------------------------------------------------
(* What the builder built. *)

\* What Build returned passes the schema, whatever steps led to it and whatever the
\* user gave, but for the conversion options and for the arguments of a template
\* that was given up (BuilderSteps.cs).
THEOREM BuildIsAccepted == Spec => []BuiltRequestAccepted
<1>1. Inv => BuiltRequestAccepted
  <2> SUFFICES ASSUME Inv, built.made, ~reused, ConfigOk(SerializedRequest), ~LeftBehind
               PROVE  DynamicOk(dynamic)
    <3>1. SerializedRequest.dynamic = dynamic
      BY SpreadKeys DEF SerializedRequest, Has
    <3> QED
      BY <3>1 DEF BuiltRequestAccepted, Accepted
  <2>1. BuildOk /\ BuilderTyped
    BY DEF Inv, BuilderTyped
  <2>2. Has(dynamic, "defaultTemplateArgs") => DefaultArgsOk(dynamic.defaultTemplateArgs)
    BY <2>1 DEF BuildOk, BuilderTyped, LeftBehind, DefaultArgsOk
  <2>3. Has(dynamic, "direktoratTemplateArgs") => DirektoratArgsOk(dynamic.direktoratTemplateArgs)
    BY <2>1 DEF BuildOk, BuilderTyped, LeftBehind, DirektoratArgsOk
  <2>4. HasRequiredArgs(dynamic)
    BY <2>1 DEF BuildOk, HasRequiredArgs
  <2> QED
    BY <2>1, <2>2, <2>3, <2>4 DEF DynamicOk, BuilderTyped
<1> QED
  BY <1>1, SendersTyped, PTL

-----------------------------------------------------------------------------
(* What the service makes of an accepted request, whoever sent it. *)

LEMMA RequestHasDynamic == \A request \in Requests : Has(request, "dynamic")
<1>1. Has(SerializedRequest, "dynamic")
  BY SpreadKeys DEF SerializedRequest, Has
<1> QED
  BY <1>1, PreviewKeys, RenderInputs DEF Requests

\* A line that is printed names its field and its value.
LEMMA NoUndefinedLine ==
    ASSUME NEW fields, ExemptionOk(fields)
    PROVE  UndefinedLine \notin DefaultLetterhead(fields) \cup DirektoratLetterhead(fields)
<1>1. \A x, y : <<x, y>> # UndefinedLine
  BY DEF UndefinedLine
<1>2. UndefinedLine \notin ExemptionLine(fields)
  BY <1>1 DEF ExemptionLine, ExemptionOk, Given
<1>3. \A names : UndefinedLine \notin LinesGiven(fields, names)
  BY <1>1 DEF LinesGiven
<1> QED
  BY <1>1, <1>2, <1>3 DEF DefaultLetterhead, DirektoratLetterhead

LEMMA AcceptedParses ==
    ASSUME NEW request, Has(request, "dynamic"), Accepted(request)
    PROVE  Parsed(request).dynamic = request.dynamic /\ ArgsParse(Parsed(request))
<1>1. Parsed(request).dynamic = request.dynamic
  BY DEF Parsed, Has
<1> QED
  BY <1>1 DEF ArgsParse, Accepted, DynamicOk, HasRequiredArgs

\* A request that the schema accepted is not refused by its template while it renders,
\* and prints no field that is missing (registry.ts, default.ts, direktorat.ts).
THEOREM AcceptedRenders == Spec => []AcceptedRequestRenders
<1>1. AcceptedRequestRenders
  <2> SUFFICES ASSUME NEW request \in Requests, Accepted(request)
               PROVE  /\ ArgsParse(Parsed(request))
                      /\ request.dynamic.template \in {"default", "direktorat"} =>
                            UndefinedLine \notin Letter(Parsed(request)).lines
    BY DEF AcceptedRequestRenders
  <2> DEFINE parsed == Parsed(request)
  <2>1. parsed.dynamic = request.dynamic /\ ArgsParse(parsed)
    BY AcceptedParses, RequestHasDynamic
  <2> HIDE DEF parsed
  <2>2. CASE request.dynamic.template \in {"default", "direktorat"}
    <3>1. ExemptionOk(Args(parsed).fields)
      BY <2>1, <2>2 DEF ArgsParse, Args, DefaultArgsOk, DirektoratArgsOk
    <3>2. Letter(parsed).lines \in {DefaultLetterhead(Args(parsed).fields),
                                    DirektoratLetterhead(Args(parsed).fields)}
      BY <2>1, <2>2 DEF Letter
    <3> QED
      BY <2>1, <3>1, <3>2, NoUndefinedLine DEF parsed
  <2> QED
    BY <2>1, <2>2 DEF parsed
<1> QED
  BY <1>1, PTL

-----------------------------------------------------------------------------
(* Which options a document is made with. *)

\* The first of three objects that has the key decides.
LEMMA FirstOfThree ==
    ASSUME NEW a, NEW b, NEW c, NEW key
    PROVE  FirstOf(<<a, b, c>>, key) =
              IF Has(a, key) THEN a[key]
              ELSE IF Has(b, key) THEN b[key]
              ELSE IF Has(c, key) THEN c[key]
              ELSE Malformed
<1> DEFINE objects == <<a, b, c>>
           having == {i \in DOMAIN objects : Has(objects[i], key)}
           first == CHOOSE i \in having : \A j \in having : i <= j
<1>1. /\ DOMAIN objects = {1, 2, 3}
      /\ objects[1] = a /\ objects[2] = b /\ objects[3] = c
  OBVIOUS
<1>2. FirstOf(objects, key) = IF having = {} THEN Malformed ELSE objects[first][key]
  BY DEF FirstOf
<1>3. having = {i \in {1, 2, 3} : Has(objects[i], key)}
  BY <1>1
<1> HIDE DEF objects
<1>4. CASE having = {}
  BY <1>1, <1>2, <1>3, <1>4 DEF objects
<1>5. ASSUME NEW i \in having, \A j \in having : i <= j PROVE FirstOf(objects, key) = objects[i][key]
  <2>1. first \in having /\ \A j \in having : first <= j
    BY <1>5
  <2>2. first = i
    <3> HIDE DEF first
    <3>1. first \in Nat /\ i \in Nat /\ first <= i /\ i <= first
      BY <1>3, <1>5, <2>1
    <3> QED
      BY <3>1
  <2> QED
    BY <1>2, <1>5, <2>2
<1>6. CASE 1 \in having
  <2>1. \A j \in having : 1 <= j
    BY <1>3
  <2> QED
    BY <1>1, <1>3, <1>5, <1>6, <2>1 DEF objects
<1>7. CASE 1 \notin having /\ 2 \in having
  <2>1. \A j \in having : 2 <= j
    BY <1>3, <1>7
  <2> QED
    BY <1>1, <1>3, <1>5, <1>7, <2>1 DEF objects
<1>8. CASE 1 \notin having /\ 2 \notin having /\ 3 \in having
  <2>1. \A j \in having : 3 <= j
    BY <1>3, <1>8
  <2> QED
    BY <1>1, <1>3, <1>5, <1>8, <2>1 DEF objects
<1> QED
  BY <1>3, <1>4, <1>6, <1>7, <1>8

LEMMA FirstOfOne ==
    ASSUME NEW a, NEW key
    PROVE  FirstOf(<<a>>, key) = IF Has(a, key) THEN a[key] ELSE Malformed
<1> DEFINE objects == <<a>>
           having == {i \in DOMAIN objects : Has(objects[i], key)}
           first == CHOOSE i \in having : \A j \in having : i <= j
<1>1. DOMAIN objects = {1} /\ objects[1] = a
  OBVIOUS
<1>2. FirstOf(objects, key) = IF having = {} THEN Malformed ELSE objects[first][key]
  BY DEF FirstOf
<1>3. CASE Has(a, key)
  <2>1. having = {1}
    BY <1>1, <1>3
  <2>2. first = 1
    BY <2>1
  <2> QED
    BY <1>1, <1>2, <1>3, <2>1, <2>2
<1>4. CASE ~Has(a, key)
  <2>1. having = {}
    BY <1>1, <1>4
  <2> QED
    BY <1>2, <1>4, <2>1
<1> QED
  BY <1>3, <1>4

\* Only the author of an HTML document is left out of what was parsed.
LEMMA ParsedKeys ==
    ASSUME NEW request, NEW key, key # "author"
    PROVE  /\ Has(Parsed(request), key) <=> Has(request, key)
           /\ Has(request, key) => Parsed(request)[key] = request[key]
BY DEF Parsed, Has

TemplateOf(asked) == IF asked.dynamic.template = "custom" THEN Empty ELSE TemplateConfig(asked)

Requested(asked) ==
    IF asked.dynamic.template = "custom" THEN asked
    ELSE ApplyTemplateConfig(TemplateConfig(asked), asked)

LEMMA TemplateConfigKeys ==
    ASSUME NEW asked
    PROVE  \A key : Has(TemplateConfig(asked), key) <=> key \in {"css", "pdf_options"}
BY DEF TemplateConfig, Has

\* What a request asks for together with its template.
LEMMA RequestedKeys ==
    ASSUME NEW asked, NEW key
    PROVE  /\ key \notin {"css", "pdf_options"} =>
                 /\ Has(Requested(asked), key) <=> Has(asked, key)
                 /\ Has(asked, key) => Requested(asked)[key] = asked[key]
           /\ Has(Part(Requested(asked), "pdf_options"), key) <=>
                 Has(Part(asked, "pdf_options"), key) \/ Has(Part(TemplateOf(asked), "pdf_options"), key)
           /\ Has(Part(asked, "pdf_options"), key) =>
                 Part(Requested(asked), "pdf_options")[key] = Part(asked, "pdf_options")[key]
           /\ ~Has(Part(asked, "pdf_options"), key) /\ Has(Part(TemplateOf(asked), "pdf_options"), key) =>
                 Part(Requested(asked), "pdf_options")[key] = Part(TemplateOf(asked), "pdf_options")[key]
<1>1. CASE asked.dynamic.template = "custom"
  BY <1>1 DEF Requested, TemplateOf, Part, Has, Empty
<1>2. CASE asked.dynamic.template # "custom"
  <2> DEFINE template == TemplateConfig(asked)
             pdf == IF Has(asked, "pdf_options")
                    THEN [pdf_options |-> asked.pdf_options ++ template.pdf_options] ELSE Empty
             css == IF Flag(asked, "merge_css") /\ CssGiven(asked)
                    THEN [css |-> template.css \o asked.css] ELSE Empty
  <2>1. Requested(asked) = pdf ++ css ++ asked ++ template /\ TemplateOf(asked) = template
    BY <1>2 DEF Requested, TemplateOf, ApplyTemplateConfig
  <2>2. \A k : Has(pdf, k) => k = "pdf_options"
    BY DEF Has, Empty
  <2>3. \A k : Has(css, k) => k = "css"
    BY DEF Has, Empty
  <2>4. Has(pdf, "pdf_options") <=> Has(asked, "pdf_options")
    BY DEF Has, Empty
  <2>5. Has(asked, "pdf_options") => pdf.pdf_options = asked.pdf_options ++ template.pdf_options
    OBVIOUS
  <2>6. \A k : Has(template, k) <=> k \in {"css", "pdf_options"}
    BY TemplateConfigKeys
  <2> HIDE DEF template, pdf, css
  <2>7. ASSUME key \notin {"css", "pdf_options"}
        PROVE  /\ Has(Requested(asked), key) <=> Has(asked, key)
               /\ Has(asked, key) => Requested(asked)[key] = asked[key]
    BY <2>1, <2>2, <2>3, <2>6, <2>7, SpreadKeys
  <2>8. CASE Has(asked, "pdf_options")
    <3>1. Part(Requested(asked), "pdf_options") = asked.pdf_options ++ template.pdf_options
      BY <2>1, <2>4, <2>5, <2>8, SpreadKeys DEF Part
    <3>2. Part(asked, "pdf_options") = asked.pdf_options
          /\ Part(TemplateOf(asked), "pdf_options") = template.pdf_options
      BY <2>1, <2>6, <2>8 DEF Part
    <3> QED
      BY <2>7, <3>1, <3>2, SpreadKeys
  <2>9. CASE ~Has(asked, "pdf_options")
    <3>1. Part(Requested(asked), "pdf_options") = template.pdf_options
      BY <2>1, <2>3, <2>4, <2>6, <2>9, SpreadKeys DEF Part
    <3>2. /\ Part(TemplateOf(asked), "pdf_options") = template.pdf_options
          /\ ~Has(Part(asked, "pdf_options"), key)
      BY <2>1, <2>6, <2>9 DEF Part, Has, Empty
    <3> QED
      BY <2>7, <3>1, <3>2
  <2> QED
    BY <2>8, <2>9
<1> QED
  BY <1>1, <1>2

Levels(asked) ==
    <<Part(asked, "pdf_options"), Part(TemplateOf(asked), "pdf_options"), DefaultConfig.pdf_options>>

Merged(asked) == Part(Requested(asked), "pdf_options") ++ DefaultConfig.pdf_options

LEMMA ResolvedConfig ==
    ASSUME NEW asked
    PROVE  /\ ResolveRenderConfig(asked).pdf_options = NormalisePdfOptions(Merged(asked))
           /\ \A key : key # "pdf_options" =>
                 /\ Has(Requested(asked), key) =>
                       ResolveRenderConfig(asked)[key] = Requested(asked)[key]
                 /\ ~Has(Requested(asked), key) /\ Has(DefaultConfig, key) =>
                       ResolveRenderConfig(asked)[key] = DefaultConfig[key]
<1> DEFINE pdf == [pdf_options |-> NormalisePdfOptions(Merged(asked))]
<1>1. ResolveRenderConfig(asked) = pdf ++ Requested(asked) ++ DefaultConfig
  BY DEF ResolveRenderConfig, Requested, Merged
<1>2. \A key : Has(pdf, key) <=> key = "pdf_options"
  BY DEF Has
<1>3. pdf.pdf_options = NormalisePdfOptions(Merged(asked))
  OBVIOUS
<1> HIDE DEF pdf
<1> QED
  BY <1>1, <1>2, <1>3, SpreadKeys

\* Each option for itself: the caller's, or the template's, or the renderer's.
LEMMA MergedKeys ==
    ASSUME NEW asked, NEW key
    PROVE  /\ Has(Merged(asked), key) => Merged(asked)[key] = FirstOf(Levels(asked), key)
           /\ ~Has(Merged(asked), key) => FirstOf(Levels(asked), key) = Malformed
           /\ Has(Merged(asked), key) <=>
                 \/ Has(Part(asked, "pdf_options"), key)
                 \/ Has(Part(TemplateOf(asked), "pdf_options"), key)
                 \/ Has(DefaultConfig.pdf_options, key)
           /\ Has(Part(asked, "pdf_options"), key) => Merged(asked)[key] = asked.pdf_options[key]
           /\ ~Has(Part(asked, "pdf_options"), key) /\ Has(Part(TemplateOf(asked), "pdf_options"), key) =>
                 Merged(asked)[key] = Part(TemplateOf(asked), "pdf_options")[key]
<1> DEFINE a == Part(asked, "pdf_options")
           b == Part(TemplateOf(asked), "pdf_options")
           c == DefaultConfig.pdf_options
           ab == Part(Requested(asked), "pdf_options")
<1>1. /\ Has(ab, key) <=> Has(a, key) \/ Has(b, key)
      /\ Has(a, key) => ab[key] = a[key]
      /\ ~Has(a, key) /\ Has(b, key) => ab[key] = b[key]
  BY RequestedKeys
<1>2. FirstOf(Levels(asked), key) = IF Has(a, key) THEN a[key]
                                    ELSE IF Has(b, key) THEN b[key]
                                    ELSE IF Has(c, key) THEN c[key]
                                    ELSE Malformed
  BY FirstOfThree DEF Levels
<1>3. Merged(asked) = ab ++ c
  BY DEF Merged
<1> HIDE DEF a, b, c, ab
<1>4. /\ Has(Merged(asked), key) <=> Has(ab, key) \/ Has(c, key)
      /\ Has(ab, key) => Merged(asked)[key] = ab[key]
      /\ ~Has(ab, key) /\ Has(c, key) => Merged(asked)[key] = c[key]
  BY <1>3, SpreadKeys
<1>5. /\ Has(Merged(asked), key) => Merged(asked)[key] = FirstOf(Levels(asked), key)
      /\ ~Has(Merged(asked), key) => FirstOf(Levels(asked), key) = Malformed
      /\ Has(Merged(asked), key) <=> Has(a, key) \/ Has(b, key) \/ Has(c, key)
      /\ Has(a, key) => Merged(asked)[key] = a[key]
      /\ ~Has(a, key) /\ Has(b, key) => Merged(asked)[key] = b[key]
  BY <1>1, <1>2, <1>4
<1>6. Has(a, key) => a = asked.pdf_options
  BY DEF a, Part, Has, Empty
<1> QED
  BY <1>5, <1>6 DEF a, b, c

\* The CSS of a request replaces the template's, or is added to it.
LEMMA CssResolved ==
    ASSUME NEW asked, ConfigOk(asked)
    PROVE  ResolveRenderConfig(asked).css =
              IF ~Has(asked, "css") THEN Part(TemplateOf(asked), "css")
              ELSE IF Flag(asked, "merge_css") THEN Part(TemplateOf(asked), "css") \o asked.css
              ELSE asked.css
<1>1. Has(DefaultConfig, "css") /\ DefaultConfig.css = Empty
  BY DEF DefaultConfig, Has
<1>2. /\ Has(Requested(asked), "css") =>
            ResolveRenderConfig(asked).css = Requested(asked).css
      /\ ~Has(Requested(asked), "css") => ResolveRenderConfig(asked).css = Empty
  BY <1>1, ResolvedConfig
<1>3. CASE asked.dynamic.template = "custom"
  <2>1. Requested(asked) = asked /\ Part(TemplateOf(asked), "css") = << >>
    BY <1>3 DEF Requested, TemplateOf, Part, Has, Empty
  <2>2. Has(asked, "css") => << >> \o asked.css = asked.css
    BY DEF ConfigOk
  <2> QED
    BY <1>2, <2>1, <2>2 DEF Empty
<1>4. CASE asked.dynamic.template # "custom"
  <2> DEFINE template == TemplateConfig(asked)
             pdf == IF Has(asked, "pdf_options")
                    THEN [pdf_options |-> asked.pdf_options ++ template.pdf_options] ELSE Empty
             css == IF Flag(asked, "merge_css") /\ CssGiven(asked)
                    THEN [css |-> template.css \o asked.css] ELSE Empty
  <2>1. Requested(asked) = pdf ++ css ++ asked ++ template /\ TemplateOf(asked) = template
    BY <1>4 DEF Requested, TemplateOf, ApplyTemplateConfig
  <2>2. ~Has(pdf, "css")
    BY DEF Has, Empty
  <2>3. Has(css, "css") <=> Flag(asked, "merge_css")
    BY DEF Has, Empty, ConfigOk
  <2>4. Flag(asked, "merge_css") => css.css = template.css \o asked.css /\ Has(asked, "css")
    BY DEF ConfigOk, CssGiven
  <2>5. Has(template, "css")
    BY TemplateConfigKeys
  <2> HIDE DEF template, pdf, css
  <2>6. Has(Requested(asked), "css")
    BY <2>1, <2>5, SpreadKeys
  <2>7. Requested(asked).css = IF Has(css, "css") THEN css.css
                               ELSE IF Has(asked, "css") THEN asked.css ELSE template.css
    BY <2>1, <2>2, <2>5, SpreadKeys
  <2>8. Part(TemplateOf(asked), "css") = template.css
    BY <2>1, <2>5 DEF Part
  <2> QED
    BY <1>2, <2>3, <2>4, <2>6, <2>7, <2>8
<1> QED
  BY <1>3, <1>4

\* What shows a header or footer is the caller's, or comes from a template that has all.
LEMMA ShownBy ==
    ASSUME NEW asked, ConfigOk(asked),
           NEW key \in {"displayHeaderFooter", "headerTemplate", "footerTemplate"},
           Has(Merged(asked), key)
    PROVE  \/ Merged(asked)[key] # Malformed
           \/ /\ Has(Merged(asked), "displayHeaderFooter")
              /\ key = "displayHeaderFooter" => Merged(asked)[key] = TRUE
<1> DEFINE a == Part(asked, "pdf_options")
           b == Part(TemplateOf(asked), "pdf_options")
<1>1. ~Has(DefaultConfig.pdf_options, key)
  BY DEF DefaultConfig, Has
<1>2. Has(a, key) => asked.pdf_options[key] # Malformed
  BY DEF Part, ConfigOk, PdfOptionsOk, Has, Empty
<1>3. Has(b, key) => Has(b, "displayHeaderFooter") /\ b.displayHeaderFooter = TRUE
  <2>1. CASE asked.dynamic.template \in {"custom", "blank"}
    <3>1. ~Has(b, key)
      <4>1. CASE asked.dynamic.template = "custom"
        BY <4>1 DEF TemplateOf, Part, Has, Empty
      <4>2. CASE asked.dynamic.template = "blank"
        <5>1. TemplateConfig(asked).pdf_options = [margin |-> TemplateMargin] ++ Empty
          BY <4>2 DEF TemplateConfig
        <5>2. b = TemplateConfig(asked).pdf_options
          BY <4>2, TemplateConfigKeys DEF TemplateOf, Part
        <5> HIDE DEF b
        <5>3. ~Has([margin |-> TemplateMargin], key) /\ ~Has(Empty, key)
          BY DEF Has, Empty
        <5> QED
          BY <5>1, <5>2, <5>3, SpreadKeys
      <4> QED
        BY <2>1, <4>1, <4>2
    <3> QED
      BY <3>1
  <2>2. CASE asked.dynamic.template \notin {"custom", "blank"}
    <3> DEFINE margin == [margin |-> TemplateMargin]
               footer == [displayHeaderFooter |-> TRUE,
                          headerTemplate |-> "<div></div>",
                          footerTemplate |->
                             IF asked.dynamic.template = "default" THEN DefaultFooter(Args(asked).fields)
                             ELSE DirektoratFooter(Args(asked).fields)]
    <3>1. TemplateConfig(asked).pdf_options = margin ++ footer
      BY <2>2 DEF TemplateConfig
    <3>2. b = TemplateConfig(asked).pdf_options
      BY <2>2, TemplateConfigKeys DEF TemplateOf, Part
    <3>3. ~Has(margin, "displayHeaderFooter") /\ Has(footer, "displayHeaderFooter")
      BY DEF Has
    <3>4. footer.displayHeaderFooter = TRUE
      OBVIOUS
    <3> HIDE DEF b, margin, footer
    <3> QED
      BY <3>1, <3>2, <3>3, <3>4, SpreadKeys
  <2> QED
    BY <2>1, <2>2
<1>4. \A k : /\ Has(Merged(asked), k) <=> Has(a, k) \/ Has(b, k) \/ Has(DefaultConfig.pdf_options, k)
             /\ Has(a, k) => Merged(asked)[k] = asked.pdf_options[k]
             /\ ~Has(a, k) /\ Has(b, k) => Merged(asked)[k] = b[k]
  BY MergedKeys
<1> HIDE DEF a, b
<1> QED
  BY <1>1, <1>2, <1>3, <1>4

LEMMA OptionsNormalised ==
    ASSUME NEW asked, ConfigOk(asked), NEW key
    PROVE  LET levels == Levels(asked)
               shown == FirstOf(levels, "headerTemplate") \notin {Malformed, ""}
                           \/ FirstOf(levels, "footerTemplate") \notin {Malformed, ""}
           IN  FirstOf(<<NormalisePdfOptions(Merged(asked))>>, key) =
                  IF key = "displayHeaderFooter" /\ FirstOf(levels, key) = Malformed /\ shown
                  THEN TRUE ELSE FirstOf(levels, key)
<1> DEFINE merged == Merged(asked)
           First(k) == FirstOf(Levels(asked), k)
           normal == NormalisePdfOptions(merged)
           on == [displayHeaderFooter |-> TRUE]
           adds == /\ \E k \in {"headerTemplate", "footerTemplate"} : Has(merged, k) /\ merged[k] # ""
                   /\ ~Has(merged, "displayHeaderFooter")
           shown == First("headerTemplate") \notin {Malformed, ""}
                       \/ First("footerTemplate") \notin {Malformed, ""}
<1>1. normal = IF adds THEN on ++ merged ELSE merged
  BY DEF NormalisePdfOptions
<1>2. \A k : First(k) = IF Has(merged, k) THEN merged[k] ELSE Malformed
  BY MergedKeys
<1>3. \A k \in {"displayHeaderFooter", "headerTemplate", "footerTemplate"} :
        Has(merged, k) => \/ merged[k] # Malformed
                          \/ /\ Has(merged, "displayHeaderFooter")
                             /\ k = "displayHeaderFooter" => merged[k] = TRUE
  BY ShownBy
<1>4. FirstOf(<<normal>>, key) = IF Has(normal, key) THEN normal[key] ELSE Malformed
  BY FirstOfOne
<1>5. \A k : Has(on, k) <=> k = "displayHeaderFooter"
  BY DEF Has
<1>6. on.displayHeaderFooter = TRUE
  OBVIOUS
<1> HIDE DEF merged, First, normal, on
<1> SUFFICES FirstOf(<<normal>>, key) =
                IF key = "displayHeaderFooter" /\ First(key) = Malformed /\ shown THEN TRUE ELSE First(key)
  BY DEF First, normal, merged
<1>7. CASE adds
  <2>1. normal = on ++ merged
    BY <1>1, <1>7
  <2>2. /\ Has(normal, key) <=> Has(on, key) \/ Has(merged, key)
        /\ Has(on, key) => normal[key] = on[key]
        /\ ~Has(on, key) /\ Has(merged, key) => normal[key] = merged[key]
    BY <2>1, SpreadKeys
  <2>3. shown
    BY <1>2, <1>3, <1>7
  <2>4. CASE key = "displayHeaderFooter"
    BY <1>2, <1>4, <1>5, <1>6, <1>7, <2>2, <2>3, <2>4
  <2>5. CASE key # "displayHeaderFooter"
    BY <1>2, <1>4, <1>5, <2>2, <2>5
  <2> QED
    BY <2>4, <2>5
<1>8. CASE ~adds
  <2>1. FirstOf(<<normal>>, key) = First(key)
    BY <1>1, <1>2, <1>4, <1>8
  <2>2. ASSUME key = "displayHeaderFooter", First(key) = Malformed, shown
        PROVE  First(key) = TRUE
    <3>1. Has(merged, "displayHeaderFooter")
      BY <1>2, <1>8, <2>2
    <3> QED
      BY <1>2, <1>3, <2>2, <3>1
  <2> QED
    BY <2>1, <2>2
<1> QED
  BY <1>7, <1>8

\* An option is the caller's, or else the template's, or else the renderer's, whatever
\* the other options are; a header or footer turns itself on; CSS replaces or is added
\* (render-config.ts).
THEOREM OptionsOverride == Spec => []OptionsOverrideTemplate
<1>1. OptionsOverrideTemplate
  <2> SUFFICES ASSUME NEW request \in Requests, Accepted(request)
               PROVE  LET asked == Parsed(request)
                          template == IF asked.dynamic.template = "custom" THEN Empty
                                      ELSE TemplateConfig(asked)
                          levels == <<Part(asked, "pdf_options"), Part(template, "pdf_options"),
                                      DefaultConfig.pdf_options>>
                          config == ResolveRenderConfig(asked)
                          shown == FirstOf(levels, "headerTemplate") \notin {Malformed, ""}
                                      \/ FirstOf(levels, "footerTemplate") \notin {Malformed, ""}
                      IN  /\ \A key \in OptionKey :
                                FirstOf(<<config.pdf_options>>, key) =
                                   IF key = "displayHeaderFooter" /\ FirstOf(levels, key) = Malformed /\ shown
                                   THEN TRUE ELSE FirstOf(levels, key)
                          /\ config.css =
                                IF ~Has(asked, "css") THEN Part(template, "css")
                                ELSE IF Flag(asked, "merge_css")
                                THEN Part(template, "css") \o asked.css ELSE asked.css
    BY DEF OptionsOverrideTemplate
  <2> DEFINE asked == Parsed(request)
  <2>1. ConfigOk(asked)
    BY ParsedKeys DEF Accepted, ConfigOk, Flag, CssGiven
  <2>2. ResolveRenderConfig(asked).pdf_options = NormalisePdfOptions(Merged(asked))
    BY ResolvedConfig
  <2> HIDE DEF asked
  <2>3. \A key \in OptionKey :
          LET levels == Levels(asked)
              shown == FirstOf(levels, "headerTemplate") \notin {Malformed, ""}
                          \/ FirstOf(levels, "footerTemplate") \notin {Malformed, ""}
          IN  FirstOf(<<ResolveRenderConfig(asked).pdf_options>>, key) =
                 IF key = "displayHeaderFooter" /\ FirstOf(levels, key) = Malformed /\ shown
                 THEN TRUE ELSE FirstOf(levels, key)
    BY <2>1, <2>2, OptionsNormalised
  <2>4. ResolveRenderConfig(asked).css =
           IF ~Has(asked, "css") THEN Part(TemplateOf(asked), "css")
           ELSE IF Flag(asked, "merge_css") THEN Part(TemplateOf(asked), "css") \o asked.css
           ELSE asked.css
    BY <2>1, CssResolved
  <2> QED
    BY <2>3, <2>4 DEF Levels, TemplateOf, asked
<1> QED
  BY <1>1, PTL

\* The footer of a template, when the caller has none.
LEMMA TemplateFooter ==
    ASSUME NEW asked, asked.dynamic.template \in {"default", "direktorat"},
           ~Has(Part(asked, "pdf_options"), "footerTemplate")
    PROVE  NormalisePdfOptions(Merged(asked)).footerTemplate =
              IF asked.dynamic.template = "default" THEN DefaultFooter(Args(asked).fields)
              ELSE DirektoratFooter(Args(asked).fields)
<1> DEFINE of == IF asked.dynamic.template = "default" THEN DefaultFooter(Args(asked).fields)
                 ELSE DirektoratFooter(Args(asked).fields)
           margin == [margin |-> TemplateMargin]
           footer == [displayHeaderFooter |-> TRUE, headerTemplate |-> "<div></div>",
                      footerTemplate |-> of]
           b == Part(TemplateOf(asked), "pdf_options")
           on == [displayHeaderFooter |-> TRUE]
           merged == Merged(asked)
<1>1. TemplateConfig(asked).pdf_options = margin ++ footer
  BY DEF TemplateConfig
<1>2. b = TemplateConfig(asked).pdf_options
  BY TemplateConfigKeys DEF TemplateOf, Part
<1>3. /\ ~Has(margin, "footerTemplate") /\ Has(footer, "footerTemplate")
      /\ ~Has(on, "footerTemplate")
  BY DEF Has
<1>4. footer.footerTemplate = of
  OBVIOUS
<1>5. /\ Has(b, "footerTemplate") =>
            Has(merged, "footerTemplate") /\ merged.footerTemplate = b.footerTemplate
  BY MergedKeys
<1>6. NormalisePdfOptions(merged) \in {merged, on ++ merged}
  BY DEF NormalisePdfOptions
<1> HIDE DEF of, margin, footer, b, on, merged
<1>7. Has(b, "footerTemplate") /\ b.footerTemplate = of
  BY <1>1, <1>2, <1>3, <1>4, SpreadKeys
<1>8. NormalisePdfOptions(merged).footerTemplate = of
  BY <1>3, <1>5, <1>6, <1>7, SpreadKeys
<1> QED
  BY <1>8 DEF of, merged

\* A document that is not HTML has the options of its configuration.
LEMMA DocumentOptions ==
    ASSUME NEW asked, ~Flag(asked, "as_html")
    PROVE  /\ Document(asked).letter = Letter(asked)
           /\ Document(asked).pdf_options = NormalisePdfOptions(Merged(asked))
<1> DEFINE config == ResolveRenderConfig(asked)
           text == [letter |-> Letter(asked), css |-> config.css]
           pages == [media |-> config.page_media_type,
                     pdf_options |-> config.pdf_options,
                     author |-> IF Has(config, "author") THEN config.author ELSE ""]
<1>1. ~config.as_html
  <2>1. Has(Requested(asked), "as_html") <=> Has(asked, "as_html")
    BY RequestedKeys
  <2>2. Has(asked, "as_html") => Requested(asked).as_html = asked.as_html /\ ~asked.as_html
    BY RequestedKeys DEF Flag
  <2>3. Has(DefaultConfig, "as_html") /\ ~DefaultConfig.as_html
    BY DEF DefaultConfig, Has
  <2>4. /\ Has(Requested(asked), "as_html") => config.as_html = Requested(asked).as_html
        /\ ~Has(Requested(asked), "as_html") => config.as_html = DefaultConfig.as_html
    BY <2>3, ResolvedConfig
  <2> QED
    BY <2>1, <2>2, <2>3, <2>4
<1>2. Document(asked) = text ++ pages
  BY <1>1 DEF Document
<1>3. /\ Has(text, "letter") /\ ~Has(text, "pdf_options") /\ Has(pages, "pdf_options")
      /\ text.letter = Letter(asked)
      /\ pages.pdf_options = config.pdf_options
  BY DEF Has
<1>4. config.pdf_options = NormalisePdfOptions(Merged(asked))
  BY ResolvedConfig
<1> HIDE DEF config, text, pages
<1> QED
  BY <1>2, <1>3, <1>4, SpreadKeys

\* The references among the lines of a letterhead.
LEMMA LetterheadReferences ==
    ASSUME NEW fields
    PROVE  /\ {line[2] : line \in {l \in DefaultLetterhead(fields) : l[1] = "saksnummer"}} =
                 {fields.saksnummer}
           /\ {line[2] : line \in {l \in DirektoratLetterhead(fields) : l[1] = "saksnummer"}} =
                 IF Given(fields, "saksnummer") THEN {fields.saksnummer} ELSE {}
<1>1. \A l \in ExemptionLine(fields) : l[1] # "saksnummer"
  BY DEF ExemptionLine, UndefinedLine
<1>2. \A names, l : l \in LinesGiven(fields, names) /\ l[1] = "saksnummer" <=>
                       /\ "saksnummer" \in names /\ Given(fields, "saksnummer")
                       /\ l = <<"saksnummer", fields.saksnummer>>
  BY DEF LinesGiven
<1>3. {l \in DefaultLetterhead(fields) : l[1] = "saksnummer"} = {<<"saksnummer", fields.saksnummer>>}
  <2>1. \A l : l \in {<<name, fields[name]>> : name \in {"dato", "saksnummer", "saksbehandlerNavn"}}
                     /\ l[1] = "saksnummer" <=> l = <<"saksnummer", fields.saksnummer>>
    OBVIOUS
  <2> QED
    BY <1>1, <1>2, <2>1 DEF DefaultLetterhead
<1>4. {l \in DirektoratLetterhead(fields) : l[1] = "saksnummer"} =
         IF Given(fields, "saksnummer") THEN {<<"saksnummer", fields.saksnummer>>} ELSE {}
  BY <1>1, <1>2 DEF DirektoratLetterhead
<1>5. \A text : {line[2] : line \in {<<"saksnummer", text>>}} = {text}
  OBVIOUS
<1>6. {line[2] : line \in {}} = {}
  OBVIOUS
<1>7. CASE Given(fields, "saksnummer")
  BY <1>3, <1>4, <1>5, <1>7
<1>8. CASE ~Given(fields, "saksnummer")
  BY <1>3, <1>4, <1>5, <1>6, <1>8
<1> QED
  BY <1>7, <1>8

\* The pages of a letter carry the reference that its letterhead shows (getPdfConfig
\* of both templates, resolveRenderConfig).
THEOREM FooterIsTheReference == Spec => []FooterNamesTheCase
<1>1. FooterNamesTheCase
  <2> SUFFICES ASSUME NEW request \in Requests, Accepted(request), ~Flag(request, "as_html"),
                      request.dynamic.template \in {"default", "direktorat"},
                      ~Has(Part(request, "pdf_options"), "footerTemplate")
               PROVE  LET letter == Letter(Parsed(request))
                          document == Document(Parsed(request))
                          references == {line[2] : line \in {l \in letter.lines : l[1] = "saksnummer"}}
                      IN  \/ references = {document.pdf_options.footerTemplate}
                          \/ references = {} /\ document.pdf_options.footerTemplate \in {NoReference, Zero}
    BY DEF FooterNamesTheCase
  <2> DEFINE fields == Args(request).fields
             letter == Letter(request)
             footer == Document(request).pdf_options.footerTemplate
             references == {line[2] : line \in {l \in letter.lines : l[1] = "saksnummer"}}
  <2>1. Parsed(request) = request
    BY DEF Parsed
  <2>2. footer = IF request.dynamic.template = "default" THEN DefaultFooter(fields)
                 ELSE DirektoratFooter(fields)
    BY DocumentOptions, TemplateFooter
  <2>3. letter.lines = IF request.dynamic.template = "default" THEN DefaultLetterhead(fields)
                       ELSE DirektoratLetterhead(fields)
    BY DEF Letter
  <2>4. references = IF request.dynamic.template = "default" \/ Given(fields, "saksnummer")
                     THEN {fields.saksnummer} ELSE {}
    BY <2>3, LetterheadReferences
  <2>5. \/ references = {footer}
        \/ references = {} /\ footer \in {NoReference, Zero}
    BY <2>2, <2>4 DEF DefaultFooter, DirektoratFooter, Given
  <2> QED
    BY <2>1, <2>5
<1> QED
  BY <1>1, PTL

=============================================================================
