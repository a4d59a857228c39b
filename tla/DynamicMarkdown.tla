---------------------------- MODULE DynamicMarkdown ----------------------------
(***************************************************************************)
(* Dynamic Markdown: evaluation and detection of variables in              *)
(* packages/dynamic-markdown/lib.  The abstract syntax trees are a         *)
(* constant, which MarkdownParser gives its value.                         *)
(*                                                                         *)
(* A string is a sequence of symbols.  "{{", "}}" and "::" stand for the   *)
(* character pairs the scanners look for, "SP" and "NL" for white space,   *)
(* "!" for the negation; every other symbol is a word.  Words are written  *)
(* with white space or a mark between them, braces and colons in pairs.    *)
(*                                                                         *)
(* What throws in the code returns a record whose error is not NoError.    *)
(* The nesting of evaluateAST is bounded by the call stack; here by Depth. *)
(***************************************************************************)
EXTENDS Integers, Sequences, SequencesExt, FiniteSetsExt

CONSTANTS
    Input,          \* the texts that documents and values may be
    Parsing(_),     \* buildAST(tokenize(input))
    Within(_),      \* a sequence of nodes and the ones inside it
    HeightOf(_),    \* how deep its conditions are nested
    Depth           \* how many calls of evaluateAST the stack has room for

AST == [input \in Input |-> Parsing(input)]

Forest == UNION {Within(AST[input].nodes) : input \in Input}

Height == [nodes \in Forest |-> HeightOf(nodes)]

\* The static constructors of DynamicMarkdownParseError, and the RangeError of
\* an endless expansion.
Error(kind, line, about) == [kind |-> kind, line |-> line, about |-> about]
NoError == Error("none", 0, {})
Unclosed(line) == Error("unclosed", line, {})
InvalidSection(line) == Error("invalid", line, {})
UndefinedVariables(names, line) == Error("undefined", line, names)
UnsupportedOperator(operator, line) == Error("operator", line, {operator})
Reserved(name) == Error("reserved", 0, {name})
StackOverflow == Error("overflow", 0, {})

-----------------------------------------------------------------------------
(* The operands of conditions, build.ts.                                     *)

Literals == {<<"true">>, <<"false">>, <<"0">>}

\* parseOperand: Number("") is 0.
Operand(s) ==
    [value |-> s,
     literal |-> IF s = <<>> THEN <<"0">> ELSE IF s \in Literals THEN s ELSE <<>>]

IsNegated(s) == s # <<>> /\ s[1] = "!"

\* parseCondition makes each operand with parseOperand.
OperandsParsed(condition) ==
    IF condition.type = "truthy" THEN condition.operand = Operand(condition.operand.value)
    ELSE /\ condition.left = Operand(condition.left.value)
         /\ condition.right = Operand(condition.right.value)

\* ASTNode, ASTCondition
IsNode(node) ==
    /\ node.type \in {"md", "var", "if"}
    /\ node.type = "if" => node.children \in Forest /\ OperandsParsed(node.condition)

\* No text nests conditions to the end of the stack.
ASSUME MarkdownInputs ==
    /\ Depth \in Nat \ {0}
    /\ Height \in [Forest -> 1..(Depth - 1)]
    /\ \A nodes \in Forest :
          /\ nodes \in Seq(ToSet(nodes))
          /\ \A k \in DOMAIN nodes :
                IsNode(nodes[k])
                /\ (nodes[k].type = "if" => Height[nodes[k].children] < Height[nodes])
    /\ \A input \in Input :
          /\ AST[input].nodes \in Forest
          /\ AST[input].error = NoError \/ AST[input].error.kind \in {"unclosed", "invalid"}
    /\ <<>> \in Input /\ AST[<<>>] = [nodes |-> <<>>, error |-> NoError]

-----------------------------------------------------------------------------
(* evaluate.ts.  A value is a string, a boolean or null; a number behaves as *)
(* the string of its digits, except that 0 is false.                         *)

Str(s) == [type |-> "string", string |-> s]
Bool(b) == [type |-> "boolean", string |-> IF b THEN <<"true">> ELSE <<"false">>]
Null == [type |-> "null", string |-> <<"null">>]

Truthy(value) ==
    /\ value.type # "null"
    /\ value # Bool(FALSE)
    /\ value # Str(<<>>)

\* left?.toString() === right?.toString()
CompareValues(left, right) ==
    (left.type = "null") = (right.type = "null") /\ left.string = right.string

\* processOperand
IsCertain(operand, variables) == operand.value \in DOMAIN variables \/ operand.literal # <<>>

OperandValue(operand, variables) ==
    IF operand.value \in DOMAIN variables THEN variables[operand.value]
    ELSE Str(IF operand.literal # <<>> THEN operand.literal ELSE operand.value)

EvaluateCondition(condition, variables, line) ==
    LET Holds(b) == [holds |-> b, error |-> NoError]
        Fail(error) == [holds |-> FALSE, error |-> error]
    IN  IF condition.type = "truthy"
        THEN LET name == condition.operand.value
             IN  IF name \in DOMAIN variables
                 THEN Holds(Truthy(variables[name]) # condition.negated)
                 ELSE Fail(UndefinedVariables({name}, line))
        ELSE IF condition.operator \notin {<<"==">>, <<"!=">>}
        THEN Fail(UnsupportedOperator(condition.operator, line))
        ELSE IF ~IsCertain(condition.left, variables) /\ ~IsCertain(condition.right, variables)
        THEN Fail(UndefinedVariables({condition.left.value, condition.right.value}, line))
        ELSE Holds((condition.operator = <<"==">>) =
                   CompareValues(OperandValue(condition.left, variables),
                                 OperandValue(condition.right, variables)))

\* A string may be a template itself.
IsTemplate(value) == value.type = "string"

Output(s) == [output |-> s, error |-> NoError]
Failure(error) == [output |-> <<>>, error |-> error]

\* What throws ends the loop over the nodes.
Joined(first, second) ==
    IF first.error # NoError THEN first
    ELSE IF second.error # NoError THEN second
    ELSE Output(first.output \o second.output)

\* In the operators below, inner is what a nested call of evaluateAST makes of nodes.
EvaluateIf(condition, children, inner) ==
    IF condition.error # NoError THEN Failure(condition.error)
    ELSE IF condition.holds THEN inner[children]
    ELSE Output(<<>>)

EvaluateTemplate(ast, inner) ==
    IF ast.error # NoError THEN Failure(ast.error) ELSE inner[ast.nodes]

ProcessVariable(node, variables, inner) ==
    IF node.value \notin DOMAIN variables THEN Failure(UndefinedVariables({node.value}, node.line))
    ELSE IF ~IsTemplate(variables[node.value]) THEN Output(variables[node.value].string)
    ELSE EvaluateTemplate(AST[variables[node.value].string], inner)

EvaluateNode(node, variables, inner) ==
    CASE node.type = "md" -> Output(node.value)
      [] node.type = "if" ->
            EvaluateIf(EvaluateCondition(node.condition, variables, node.line), node.children, inner)
      [] node.type = "var" -> ProcessVariable(node, variables, inner)

EvaluateNodes(nodes, variables, inner) ==
    LET upTo[k \in 0..Len(nodes)] ==
            IF k = 0 THEN Output(<<>>)
            ELSE Joined(upTo[k - 1], EvaluateNode(nodes[k], variables, inner))
    IN  upTo[Len(nodes)]

\* What evaluateAST makes of nodes, with room for n calls.
EvaluateAST(variables) ==
    LET evaluate[n \in 0..Depth] ==
            [nodes \in Forest |->
                IF n = 0 THEN Failure(StackOverflow)
                ELSE EvaluateNodes(nodes, variables, evaluate[n - 1])]
    IN  evaluate[Depth]

-----------------------------------------------------------------------------
(* parse.ts and detect.ts *)

RESERVED_NAMES == {<<"if">>, <<"and">>, <<"or">>, <<"else">>, <<"for">>}

ReservedIn(variables) == DOMAIN variables \cap RESERVED_NAMES

ParseDynamicMd(input, variables) ==
    IF ReservedIn(variables) # {}
    THEN Failure(Reserved(CHOOSE name \in ReservedIn(variables) : TRUE))
    ELSE EvaluateTemplate(AST[input], EvaluateAST(variables))

\* addVariableCandidate: no literal, and no negation in front of the name.
Candidate(operand) ==
    LET name == IF IsNegated(operand.value) THEN Tail(operand.value) ELSE operand.value
    IN  IF operand.literal # <<>> \/ name = <<>> THEN <<>> ELSE <<name>>

ConditionVariables_bug(condition) ==
    IF condition.type = "truthy" THEN Candidate(condition.operand) ELSE <<>>

ConditionVariables(condition) ==
    IF condition.type = "truthy" THEN Candidate(condition.operand)
    ELSE Candidate(condition.left) \o Candidate(condition.right)

\* In the order in which a Set keeps them, with repetitions.
NodeVariables(node, inner) ==
    CASE node.type = "md" -> <<>>
      [] node.type = "var" -> <<node.value>>
      [] node.type = "if" -> ConditionVariables(node.condition) \o inner[node.children]

FindInNodes(nodes, inner) ==
    LET upTo[k \in 0..Len(nodes)] ==
            IF k = 0 THEN <<>> ELSE upTo[k - 1] \o NodeVariables(nodes[k], inner)
    IN  upTo[Len(nodes)]

FindASTVariables ==
    LET find[n \in 0..Depth] ==
            [nodes \in Forest |->
                IF n = 0 THEN <<>>
                ELSE FindInNodes(nodes, find[n - 1])]
    IN  find[Depth]

Names(ast) == [names |-> FindASTVariables[ast.nodes], error |-> ast.error]

\* findMdVariables of every text.
Detected == [input \in Input |-> Names(AST[input])]

FindMdVariables(input) == Detected[input]
=============================================================================
