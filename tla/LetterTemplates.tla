--------------------------- MODULE LetterTemplates ---------------------------
(***************************************************************************)
(* What POST /genererbrev makes of a request: the schema of shared-types,  *)
(* the templates of document-templates, and generation/render-config.ts.   *)
(*                                                                         *)
(* An object of JSON is a function on the keys it has, and the spread      *)
(* {...a, ...b} is b ++ a.  A string stands for itself; of an address the  *)
(* lines that are filled in are kept, of CSS the parts it is made of, of a *)
(* footer the reference it shows.                                          *)
(***************************************************************************)
EXTENDS Naturals, Sequences

CONSTANTS
    Malformed      \* a value that the schema refuses: wrong type, out of range

Empty == << >>
Has(object, key) == key \in DOMAIN object
Flag(object, key) == Has(object, key) /\ object[key]

\* The keys of both, with the values of the first.
object ++ defaults ==
    [key \in DOMAIN object \cup DOMAIN defaults |->
        IF key \in DOMAIN object THEN object[key] ELSE defaults[key]]

Blank == " "                  \* nothing but blanks
Zero == "the number 0"        \* saksnummer may be a number
Given(object, key) == Has(object, key) /\ object[key] \notin {"", Zero}
Trimmed(text) == IF text = Blank THEN "" ELSE text

Template == {"default", "direktorat", "custom", "blank"}
Language == {"bm", "nn"}
AddressLine == {"navn", "adresse", "postnr", "poststed"}

OptionKey == {"scale", "displayHeaderFooter", "headerTemplate", "footerTemplate",
              "printBackground", "landscape", "pageRanges", "format", "width", "height",
              "preferCSSPageSize", "margin", "omitBackground", "tagged", "outline"}

-----------------------------------------------------------------------------
(* The schema. *)

ExemptionOk(fields) ==
    Flag(fields, "erUnntattOffentlighet") => Given(fields, "unntattOffentlighetHjemmel")

DefaultArgsTyped(args) ==
    /\ args.language \in Language
    /\ args.signatureVariant \in {"elektroniskGodkjent", "automatiskBehandlet", "usignert"}
    /\ {"dato", "saksnummer", "saksbehandlerNavn", "virksomhet"} \subseteq DOMAIN args.fields
    /\ args.fields.virksomhet = AddressLine

DefaultArgsOk(args) == DefaultArgsTyped(args) /\ ExemptionOk(args.fields)

DirektoratArgsTyped(args) ==
    /\ args.language \in Language
    /\ args.signatureVariant \in {"usignert", "elektroniskGodkjent"}
    /\ Has(args.fields, "mottaker") => args.fields.mottaker = AddressLine

DirektoratArgsOk(args) == DirektoratArgsTyped(args) /\ ExemptionOk(args.fields)

\* An operator whose name ends in _bug is the mistake that a mutant of
\* PROJECT.json puts in the place of the operator below it.
HasRequiredArgs_bug(dynamic) ==
    dynamic.template = "default" => Has(dynamic, "defaultTemplateArgs")

HasRequiredArgs(dynamic) ==
    /\ dynamic.template = "default" => Has(dynamic, "defaultTemplateArgs")
    /\ dynamic.template = "direktorat" => Has(dynamic, "direktoratTemplateArgs")

\* The arguments of every template are checked, not only of the one that is used.
DynamicOk(dynamic) ==
    /\ dynamic.template \in Template
    /\ Has(dynamic, "defaultTemplateArgs") => DefaultArgsOk(dynamic.defaultTemplateArgs)
    /\ Has(dynamic, "direktoratTemplateArgs") => DirektoratArgsOk(dynamic.direktoratTemplateArgs)
    /\ HasRequiredArgs(dynamic)

PdfOptionsOk(options) ==
    \A key \in DOMAIN options : key \in OptionKey /\ options[key] # Malformed

CssGiven(options) == Has(options, "css") /\ options.css # Empty

ConfigOk(options) ==
    /\ Has(options, "page_media_type") => options.page_media_type \in {"screen", "print"}
    /\ Has(options, "css") => options.css \in Seq(STRING)
    /\ Has(options, "pdf_options") => PdfOptionsOk(options.pdf_options)
    /\ Flag(options, "merge_css") => CssGiven(options)

Accepted(options) == ConfigOk(options) /\ DynamicOk(options.dynamic)

\* The configuration of an HTML document has no author.
Parsed(options) ==
    IF Flag(options, "as_html") THEN [key \in DOMAIN options \ {"author"} |-> options[key]]
    ELSE options

-----------------------------------------------------------------------------
(* The templates. *)

GlobalCss == <<"globalCss">>
TemplateMargin == [top |-> "0.5in", right |-> "1.2in", bottom |-> "1.2in", left |-> "1.2in"]
NoReference == "no reference"

Args(options) ==
    IF options.dynamic.template = "default" THEN options.dynamic.defaultTemplateArgs
    ELSE options.dynamic.direktoratTemplateArgs

\* getDefaultArgs and getDirektoratArgs parse what the request gives, and throw.
ArgsParse(options) ==
    LET dynamic == options.dynamic
    IN  CASE dynamic.template = "default" ->
               Has(dynamic, "defaultTemplateArgs") /\ DefaultArgsOk(dynamic.defaultTemplateArgs)
          [] dynamic.template = "direktorat" ->
               Has(dynamic, "direktoratTemplateArgs") /\ DirektoratArgsOk(dynamic.direktoratTemplateArgs)
          [] OTHER -> TRUE

\* Of the fields of these names, the ones that are not empty.
LinesGiven(fields, names) == {<<name, fields[name]>> : name \in {n \in names : Given(fields, n)}}

\* A template literal prints a field that is not there as "undefined".
UndefinedLine == <<"undefined">>

ExemptionLine(fields) ==
    IF ~Flag(fields, "erUnntattOffentlighet") THEN {}
    ELSE IF Has(fields, "unntattOffentlighetHjemmel")
    THEN {<<"unntattOffentlighet", Trimmed(fields.unntattOffentlighetHjemmel)>>}
    ELSE {UndefinedLine}

\* getLetterhead of the default template prints its required fields even when empty.
DefaultLetterhead(fields) ==
    {<<name, fields[name]>> : name \in {"dato", "saksnummer", "saksbehandlerNavn"}}
        \cup LinesGiven(fields, {"tidligereReferanse", "deresDato", "deresReferanse"})
        \cup ExemptionLine(fields)

DirektoratLetterhead(fields) ==
    LinesGiven(fields, {"dato", "saksnummer", "saksbehandlerNavn"}) \cup ExemptionLine(fields)

DefaultFooter_bug(fields) ==
    IF Given(fields, "tidligereReferanse") THEN fields.tidligereReferanse ELSE fields.saksnummer

DefaultFooter(fields) == fields.saksnummer

\* The number 0 is printed here, and not in the letterhead.
DirektoratFooter(fields) ==
    IF Has(fields, "saksnummer") /\ fields.saksnummer # "" THEN fields.saksnummer ELSE NoReference

Address(fields, name) == IF Has(fields, name) THEN fields[name] ELSE {}

\* getMd: the letterhead, the text of the letter and the signature.
Letter(options) ==
    LET template == options.dynamic.template
    IN  IF template \in {"blank", "custom"} THEN [logo |-> "none"]
        ELSE LET args == Args(options)
                 signed == args.signatureVariant # "usignert"
             IN  [logo |-> template,
                  language |-> args.language,
                  lines |-> IF template = "default" THEN DefaultLetterhead(args.fields)
                            ELSE DirektoratLetterhead(args.fields),
                  address |-> Address(args.fields, IF template = "default" THEN "virksomhet" ELSE "mottaker"),
                  signature |-> args.signatureVariant,
                  signatureLines |-> signed /\ template = "direktorat" /\ Has(args, "signatureLines")]

\* getPdfConfig
TemplateConfig(options) ==
    LET template == options.dynamic.template
    IN  [css |-> GlobalCss,
         pdf_options |->
            [margin |-> TemplateMargin] ++
            IF template = "blank" THEN Empty
            ELSE [displayHeaderFooter |-> TRUE,
                  headerTemplate |-> "<div></div>",
                  footerTemplate |-> IF template = "default" THEN DefaultFooter(Args(options).fields)
                                     ELSE DirektoratFooter(Args(options).fields)]]

-----------------------------------------------------------------------------
(* resolveRenderConfig *)

DefaultMargin == [top |-> "30mm", right |-> "40mm", bottom |-> "30mm", left |-> "20mm"]
DefaultConfig ==
    [css |-> Empty, merge_css |-> FALSE, document_title |-> "", page_media_type |-> "screen",
     pdf_options |-> [printBackground |-> TRUE, format |-> "a4", margin |-> DefaultMargin],
     as_html |-> FALSE]

Part(object, key) == IF Has(object, key) THEN object[key] ELSE Empty

ApplyTemplateConfig_bug(config, options) == options ++ config

ApplyTemplateConfig(config, options) ==
    LET pdf == IF Has(options, "pdf_options")
               THEN [pdf_options |-> options.pdf_options ++ config.pdf_options] ELSE Empty
        css == IF Flag(options, "merge_css") /\ CssGiven(options)
               THEN [css |-> config.css \o options.css] ELSE Empty
    IN  pdf ++ css ++ options ++ config

\* A header or footer is shown as soon as there is one.
NormalisePdfOptions(options) ==
    IF (\E key \in {"headerTemplate", "footerTemplate"} : Has(options, key) /\ options[key] # "")
          /\ ~Has(options, "displayHeaderFooter")
    THEN [displayHeaderFooter |-> TRUE] ++ options
    ELSE options

ResolveRenderConfig(options) ==
    LET requested == IF options.dynamic.template = "custom" THEN options
                     ELSE ApplyTemplateConfig(TemplateConfig(options), options)
        pdf == Part(requested, "pdf_options") ++ DefaultConfig.pdf_options
    IN  [pdf_options |-> NormalisePdfOptions(pdf)] ++ requested ++ DefaultConfig

\* What generateOutput makes a document of: an HTML document has no pages.
Document(options) ==
    LET config == ResolveRenderConfig(options)
    IN  [letter |-> Letter(options), css |-> config.css] ++
        IF config.as_html THEN Empty
        ELSE [media |-> config.page_media_type,
              pdf_options |-> config.pdf_options,
              author |-> IF Has(config, "author") THEN config.author ELSE ""]
=============================================================================
