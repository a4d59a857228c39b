----------------------------- MODULE MarkdownParser -----------------------------
(***************************************************************************)
(* Dynamic Markdown: scanner and parser in packages/dynamic-markdown/lib.  *)
(* They give DynamicMarkdown its constants.                                *)
(***************************************************************************)
EXTENDS DynamicMarkdown

Blank == {"SP", "NL"}

NewLines(s, i, j) == Cardinality({k \in i..j : s[k] = "NL"})

\* String.prototype.trim
Trim(s) ==
    LET kept == {i \in DOMAIN s : s[i] \notin Blank}
    IN  IF kept = {} THEN <<>> ELSE SubSeq(s, Min(kept), Max(kept))

-----------------------------------------------------------------------------
(* tokenize.ts *)

Braces(s, i, j, brace) == Cardinality({k \in i..j : s[k] = brace})

\* Where the section that opens at i closes, or 0.
SectionEnd(input, i) ==
    LET closes == {j \in (i + 1)..Len(input) :
                      Braces(input, i, j, "{{") = Braces(input, i, j, "}}")}
    IN  IF closes = {} THEN 0 ELSE Min(closes)

TokenType(content) ==
    IF Len(content) >= 2 /\ content[1] = "if" /\ content[2] = "SP" THEN "logic" ELSE "var"

\* Markdown reaches up to the next brace.
MarkdownEnd(input, i) ==
    LET braces == {j \in i..Len(input) : input[j] \in {"{{", "}}"}}
    IN  IF braces = {} THEN Len(input) ELSE Min(braces) - 1

Token(type, value, line) == [type |-> type, value |-> value, line |-> line]

NotTokenized(error) == [tokens |-> <<>>, error |-> error]

RECURSIVE TokenizeFrom(_, _, _)

\* The token that ends at j, and the ones after it.
TokenUpTo(token, input, i, j) ==
    [TokenizeFrom(input, j + 1, token.line + NewLines(input, i, j)) EXCEPT !.tokens = <<token>> \o @]

\* The content of a section decides its type.
SectionToken(content, line) == Token(TokenType(content), content, line)

Section(input, i, close, line) ==
    IF close = 0 THEN NotTokenized(Unclosed(line + NewLines(input, i, Len(input))))
    ELSE TokenUpTo(SectionToken(Trim(SubSeq(input, i + 1, close - 1)), line), input, i, close)

Markdown(input, i, end, line) == TokenUpTo(Token("md", SubSeq(input, i, end), line), input, i, end)

TokenizeFrom(input, i, line) ==
    IF i > Len(input) THEN NotTokenized(NoError)
    ELSE CASE input[i] = "{{" -> Section(input, i, SectionEnd(input, i), line)
           [] input[i] = "}}" -> NotTokenized(Unclosed(line))
           [] OTHER -> Markdown(input, i, MarkdownEnd(input, i), line)

Tokenize(input) == TokenizeFrom(input, 1, 1)

-----------------------------------------------------------------------------
(* build.ts *)

\* An operator whose name ends in _bug is the mistake that a mutant of
\* PROJECT.json puts in the place of the operator below it.
SplitLevel_bug(value, i) == 0

\* splitLogicToken looks at every character: of k brace pairs that touch it
\* counts 2k - 1, so its level differs from that of tokenize.
SplitLevel(value, i) ==
    LET Count(brace) ==
            Braces(value, 1, i - 1, brace)
          + Cardinality({k \in 2..(i - 1) : value[k] = brace /\ value[k - 1] = brace})
    IN  Count("{{") - Count("}}")

Separators(value) == {i \in DOMAIN value : value[i] = "::" /\ SplitLevel(value, i) = 0}

PartsBetween(cuts, value) ==
    [k \in 1..(Len(cuts) - 1) |-> SubSeq(value, cuts[k] + 1, cuts[k + 1] - 1)]

\* An empty last part is not pushed, and only the last part is trimmed.
LastTrimmed(parts) ==
    IF Last(parts) = <<>> THEN Front(parts) ELSE [parts EXCEPT ![Len(parts)] = Trim(@)]

SplitLogicToken(value) ==
    LastTrimmed(PartsBetween(<<0>> \o SetToSortSeq(Separators(value), <) \o <<Len(value) + 1>>, value))

FirstWord(s) ==
    LET gaps == {i \in DOMAIN s : s[i] = "SP"}
    IN  IF gaps = {} THEN s ELSE SubSeq(s, 1, Min(gaps) - 1)

\* skipWhitespace, after the first word.
AfterFirstWord(s) ==
    LET rest == {i \in DOMAIN s : i > Len(FirstWord(s)) /\ s[i] # "SP"}
    IN  IF rest = {} THEN <<>> ELSE SubSeq(s, Min(rest), Len(s))

Condition(left, operator, right) ==
    IF operator = <<>>
    THEN [type |-> "truthy", negated |-> IsNegated(left),
          operand |-> Operand(IF IsNegated(left) THEN Tail(left) ELSE left)]
    ELSE [type |-> "comparison", operator |-> operator, left |-> Operand(left), right |-> Operand(right)]

ParseCondition(condition) ==
    LET rest == AfterFirstWord(condition)
    IN  Condition(FirstWord(condition), FirstWord(rest), AfterFirstWord(rest))

AdjustLines_bug(tokens, startLine) == tokens

\* tokenizeAndAdjustLines: what a token lost when it was trimmed is not counted.
AdjustLines(tokens, startLine) ==
    [k \in DOMAIN tokens |->
        [tokens[k] EXCEPT !.line =
            startLine + FoldFunction(+, 0,
                [j \in 1..(k - 1) |-> NewLines(tokens[j].value, 1, Len(tokens[j].value))])]]

NotBuilt(error) == [nodes |-> <<>>, error |-> error]

RECURSIVE BuildAST(_)

NodeThen(node, tokens) == [BuildAST(tokens) EXCEPT !.nodes = <<node>> \o @]

Children(body, line) ==
    IF body.error # NoError THEN NotBuilt(body.error)
    ELSE BuildAST(AdjustLines(body.tokens, line))

IfNode(token, condition, children, tokens) ==
    IF children.error # NoError THEN NotBuilt(children.error)
    ELSE NodeThen([type |-> "if", line |-> token.line, children |-> children.nodes,
                   condition |-> ParseCondition(condition)], tokens)

ParseLogicToken(token, parts, tokens) ==
    IF Len(parts) # 2 THEN NotBuilt(InvalidSection(token.line))
    ELSE IfNode(token, Trim(Tail(parts[1])), Children(Tokenize(parts[2]), token.line), tokens)

BuildAST(tokens) ==
    IF tokens = <<>> THEN NotBuilt(NoError)
    ELSE IF Head(tokens).type # "logic" THEN NodeThen(Head(tokens), Tail(tokens))
    ELSE ParseLogicToken(Head(tokens), SplitLogicToken(Head(tokens).value), Tail(tokens))

Built(tokenized) ==
    IF tokenized.error # NoError THEN NotBuilt(tokenized.error) ELSE BuildAST(tokenized.tokens)

\* The constants of DynamicMarkdown.
ParsedAST(input) == Built(Tokenize(input))

RECURSIVE NodesWithin(_), NodesHeight(_)

NodesWithin(nodes) ==
    {nodes} \cup UNION {NodesWithin(nodes[k].children) :
                          k \in {j \in DOMAIN nodes : nodes[j].type = "if"}}

NodesHeight(nodes) ==
    1 + Max({0} \cup {NodesHeight(nodes[k].children) :
                        k \in {j \in DOMAIN nodes : nodes[j].type = "if"}})
=============================================================================
