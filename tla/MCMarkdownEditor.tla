--------------------------- MODULE MCMarkdownEditor ---------------------------
(* A small instance of MarkdownEditor and EditorMeaning for TLC. *)
EXTENDS EditorMeaning, TLC

Words(w) == <<Text(w)>>
Initial == <<Text(<<"x", "NL">>), Var("b"), Text(<<"NL">>), If(Truth("a"), <<"NL">>, Words(<<"y">>))>>
Example == <<Var("b"), Text(<<"SP">>), If(Not("a"), <<"SP">>, Words(<<"y">>)),
             If(Compare("a", "==", "b"), <<>>, Words(<<"z">>))>>
Deep == <<Text(<<"x", "NL", "NL", "NL">>),
          If(Truth("a"), <<"NL">>,
             <<Text(<<"y", "NL">>), If(Truth("b"), <<"NL">>, <<Var("a")>>), Text(<<"NL">>), Var("b")>>)>>
Twice == <<If(Truth("a"), <<"SP">>, <<If(Not("b"), <<"SP">>, <<Var("b")>>), Text(<<"SP">>),
                                       If(Compare("b", "!=", "true"), <<"SP">>, Words(<<"y">>))>>)>>
Touching == <<If(Truth("a"), <<>>, <<If(Truth("b"), <<>>, <<Var("b")>>), Text(<<"SP">>),
                                    If(Truth("b"), <<>>, Words(<<"y">>))>>)>>
MCTemplate ==
    {Initial, Example, Deep, Twice, Touching, <<>>, <<Var("a")>>, <<Var("b")>>,
     Words(<<"x", "::", "y">>), Words(<<"w">>), Words(<<"false">>),
     <<Var("if")>>, <<If(Truth("true"), <<"SP">>, Words(<<"x">>))>>,
     <<Text(<<"NL">>), If(Compare("a", "<", "true"), <<"SP">>, <<Var("b")>>)>>,
     <<If(Compare("a", "!=", "b"), <<"SP">>, Words(<<"x">>))>>,
     <<If(Compare("a", "==", "true"), <<"SP">>, <<Var("a")>>)>>}

MCUnwritten == {<<"x", "}}">>, <<"NL", "{{", "a", "NL">>,
                <<"{{", "if", "SP", "a", "::", "x", "::", "y", "}}">>,
                <<"{{", "if", "SP", "!", "a", "SP", "==", "SP", "!", "b", "::", "x", "}}">>}

MCInput == {Written(t) : t \in MCTemplate} \cup MCUnwritten
MCTyped == {<<"w">>, Written(<<Var("b")>>)}
MCRandom == {<<"false">>}

InitialMd == Written(Initial)
InitialValues == (<<"b">> :> Str(<<"w">>)) @@ (<<"a">> :> Bool(TRUE))
ExampleMd == Written(Example)
ExampleValues == (<<"b">> :> Str(Written(<<Var("a")>>))) @@ (<<"a">> :> Bool(TRUE))
=============================================================================
