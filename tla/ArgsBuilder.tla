----------------------------- MODULE ArgsBuilder -----------------------------
(***************************************************************************)
(* The builder of requests in the NuGet client: BuilderSteps.cs, with the  *)
(* classes of Models that it fills and their serialization.                *)
(*                                                                         *)
(* Every step returns the one builder under another interface, and C# lets *)
(* its user keep each of them.  What Build returns refers to the objects   *)
(* of the builder: a builder that is used again changes what it has built, *)
(* until WithConversionOptions gives it options of its own.  The arguments *)
(* of the templates stay shared.                                           *)
(***************************************************************************)
EXTENDS LetterTemplates

CONSTANTS
    DefaultFields,        \* the fields that users give
    DirektoratFields,
    DefaultChoice,        \* language and signature they choose a template with
    DirektoratChoice,
    PdfConfig,            \* what users pass to WithConversionOptions
    Metadata              \* pairs of title and author

VARIABLES
    steps,                \* the interfaces that the user has
    options,              \* GeneratePdfOptions, but for Dynamic
    dynamic,              \* DynamicMdPdfConfig
    chosen,               \* language and signature given with each template
    built,                \* what Build returned: options, and whether they are the builder's
    reused                \* history: the builder was used after Build

builderVars == <<steps, options, dynamic, chosen, built, reused>>

NotBuilt == [made |-> FALSE, shared |-> FALSE, options |-> Empty]
NoMetadata == [document_title |-> "", author |-> ""]

\* TemplateType is Default until it is set.
BuilderInit ==
    /\ steps = {"IAddMarkdownStep"}
    /\ options = NoMetadata
    /\ dynamic = [template |-> "default"]
    /\ chosen = Empty
    /\ built = NotBuilt
    /\ reused = FALSE

\* A call of an interface the user has; it returns the builder under another one.
Step(interface, next) ==
    /\ interface \in steps
    /\ steps' = steps \cup {next}
    /\ reused' = built.made

AddMarkdown ==
    /\ Step("IAddMarkdownStep", "IChooseTemplateStep")
    /\ UNCHANGED <<options, dynamic, chosen, built>>

\* WithDefaultTemplate and WithDirektoratTemplate; the fields come with a later step.
ChooseTemplate(template, choice) ==
    /\ Step("IChooseTemplateStep", IF template = "default" THEN "IDefaultTemplateFieldsStep"
                                   ELSE "IDirektoratTemplateFieldsStep")
    /\ dynamic' = [dynamic EXCEPT !.template = template]
    /\ chosen' = [k \in {template} |-> choice] ++ chosen
    /\ UNCHANGED <<options, built>>

\* WithCustomTemplate and WithBlankTemplate; arguments given before stay.
ChoosePlain(template) ==
    /\ Step("IChooseTemplateStep", "IBuildStep")
    /\ dynamic' = [dynamic EXCEPT !.template = template]
    /\ UNCHANGED <<options, chosen, built>>

\* Throws when the template was not chosen before.
GiveFields(interface, template, key, fields) ==
    /\ Has(chosen, template)
    /\ Step(interface, "IBuildStep")
    /\ dynamic' = [k \in {key} |-> [fields |-> fields] ++ chosen[template]] ++ dynamic
    /\ UNCHANGED <<options, chosen, built>>

WithDefaultTemplateFields(fields) ==
    GiveFields("IDefaultTemplateFieldsStep", "default", "defaultTemplateArgs", fields)

WithDirektoratTemplateFields(fields) ==
    GiveFields("IDirektoratTemplateFieldsStep", "direktorat", "direktoratTemplateArgs", fields)

WithMetadata(metadata) ==
    /\ Step("IBuildStep", "IBuildStep")
    /\ options' = metadata ++ options
    /\ UNCHANGED <<dynamic, chosen, built>>

\* The metadata of the builder stays, whatever the configuration says.
MergedOptions(config) ==
    [document_title |-> options.document_title, author |-> options.author] ++ config

\* The builder has new options; what was built keeps the old ones.
WithConversionOptions(config) ==
    /\ Step("IBuildStep", "IBuildStep")
    /\ options' = MergedOptions(config)
    /\ built' = IF built.shared THEN [built EXCEPT !.shared = FALSE, !.options = options] ELSE built
    /\ UNCHANGED <<dynamic, chosen>>

\* An operator whose name ends in _bug is the mistake that a mutant of
\* PROJECT.json puts in the place of the operator below it.
BuildOk_bug ==
    /\ dynamic.template = "default" => Has(dynamic, "defaultTemplateArgs") /\
          ExemptionOk(dynamic.defaultTemplateArgs.fields)
    /\ dynamic.template = "direktorat" => Has(dynamic, "direktoratTemplateArgs")

\* Build throws otherwise.  It looks at the arguments of the chosen template only.
BuildOk ==
    /\ dynamic.template = "default" => Has(dynamic, "defaultTemplateArgs") /\
          ExemptionOk(dynamic.defaultTemplateArgs.fields)
    /\ dynamic.template = "direktorat" => Has(dynamic, "direktoratTemplateArgs") /\
          ExemptionOk(dynamic.direktoratTemplateArgs.fields)

Build ==
    /\ "IBuildStep" \in steps
    /\ BuildOk
    /\ built' = [made |-> TRUE, shared |-> TRUE, options |-> Empty]
    /\ reused' = FALSE
    /\ UNCHANGED <<steps, options, dynamic, chosen>>

BuilderNext ==
    \/ AddMarkdown
    \/ \E choice \in DefaultChoice : ChooseTemplate("default", choice)
    \/ \E choice \in DirektoratChoice : ChooseTemplate("direktorat", choice)
    \/ \E template \in {"custom", "blank"} : ChoosePlain(template)
    \/ \E fields \in DefaultFields : WithDefaultTemplateFields(fields)
    \/ \E fields \in DirektoratFields : WithDirektoratTemplateFields(fields)
    \/ \E metadata \in Metadata : WithMetadata(metadata)
    \/ \E config \in PdfConfig : WithConversionOptions(config)
    \/ Build

\* What the client sends of what was built: properties that are null are left out.
SerializedRequest ==
    [dynamic |-> dynamic] ++ IF built.shared THEN options ELSE built.options
=============================================================================
