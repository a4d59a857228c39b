--------------------------- MODULE MarkdownTemplates ---------------------------
(***************************************************************************)
(* What a template of Dynamic Markdown means, stated on its structure and  *)
(* not on its text: the reference that the scanners of MarkdownParser are  *)
(* checked against.  A template is a sequence of parts; Written is its     *)
(* text, Meaning the Markdown it stands for under the values of variables. *)
(***************************************************************************)
EXTENDS MarkdownParser

CONSTANTS
    Template      \* the templates that documents and values are written as

Text(words) == [part |-> "text", words |-> words]
Var(name) == [part |-> "var", name |-> <<name>>]
If(test, gap, body) == [part |-> "if", test |-> test, gap |-> gap, body |-> body]

Truth(name) == [test |-> "truth", name |-> <<name>>]
Not(name) == [test |-> "not", name |-> <<name>>]
Compare(left, operator, right) ==
    [test |-> "compare", left |-> <<left>>, operator |-> <<operator>>, right |-> <<right>>]

-----------------------------------------------------------------------------
WrittenTest(t) ==
    CASE t.test = "truth" -> t.name
      [] t.test = "not" -> <<"!">> \o t.name
      [] t.test = "compare" -> t.left \o <<"SP">> \o t.operator \o <<"SP">> \o t.right

RECURSIVE Written(_)

WrittenPart(p) ==
    CASE p.part = "text" -> p.words
      [] p.part = "var" -> <<"{{", "SP">> \o p.name \o <<"SP", "}}">>
      [] p.part = "if" ->
            <<"{{", "SP", "if", "SP">> \o WrittenTest(p.test) \o <<"SP", "::">>
            \o p.gap \o Written(p.body) \o p.gap \o <<"}}">>

Written(template) ==
    IF template = <<>> THEN <<>> ELSE WrittenPart(Head(template)) \o Written(Tail(template))

\* The template a text is written as.
Reading == [text \in {Written(t) : t \in Template} |->
                CHOOSE t \in Template : Written(t) = text]

Lines(text) == NewLines(text, 1, Len(text))

-----------------------------------------------------------------------------
\* Where a template fails: the line of the part that fails, and the line of the
\* outermost section around it.
Fails(line, section) == [ok |-> FALSE, output |-> <<>>, line |-> line, section |-> section]
Means(output) == [ok |-> TRUE, output |-> output, line |-> 0, section |-> 0]

Known(word, env) == word \in DOMAIN env \/ word \in Literals
Worth(word, env) == IF word \in DOMAIN env THEN env[word] ELSE Str(word)

TestFails(t, env) ==
    IF t.test = "compare"
    THEN t.operator \notin {<<"==">>, <<"!=">>} \/ ~(Known(t.left, env) \/ Known(t.right, env))
    ELSE t.name \notin DOMAIN env

TestHolds(t, env) ==
    CASE t.test = "truth" -> Truthy(env[t.name])
      [] t.test = "not" -> ~Truthy(env[t.name])
      [] t.test = "compare" ->
            (t.operator = <<"==">>) = CompareValues(Worth(t.left, env), Worth(t.right, env))

Both(first, rest) ==
    IF ~first.ok THEN first ELSE IF ~rest.ok THEN rest ELSE Means(first.output \o rest.output)

RECURSIVE Meaning(_, _, _, _, _)

MeaningOfIf(p, env, line, outer, open) ==
    IF TestFails(p.test, env) THEN Fails(line, outer)
    ELSE IF TestHolds(p.test, env) THEN Meaning(p.body, env, line + Lines(p.gap), outer, open)
    ELSE Means(<<>>)

\* More values inside one another than there are variables means a cycle.
MeaningOfValue(value, env, open) ==
    IF value.type # "string" THEN Means(value.string)
    ELSE IF open > Cardinality(DOMAIN env) \/ value.string \notin DOMAIN Reading THEN Fails(0, 0)
    ELSE Meaning(Reading[value.string], env, 1, 0, open + 1)

MeaningOfPart(p, env, line, outer, open) ==
    CASE p.part = "text" -> Means(p.words)
      [] p.part = "if" -> MeaningOfIf(p, env, line, outer, open)
      [] p.part = "var" -> IF p.name \notin DOMAIN env THEN Fails(line, outer)
                           ELSE MeaningOfValue(env[p.name], env, open)

Meaning(template, env, line, section, open) ==
    IF template = <<>> THEN Means(<<>>)
    ELSE Both(MeaningOfPart(Head(template), env, line, IF section = 0 THEN line ELSE section, open),
              Meaning(Tail(template), env, line + Lines(WrittenPart(Head(template))), section, open))
=============================================================================
