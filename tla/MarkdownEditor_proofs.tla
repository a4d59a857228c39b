------------------------ MODULE MarkdownEditor_proofs ------------------------
(***************************************************************************)
(* Proofs about DynamicMarkdown and MarkdownEditor for every set of texts, *)
(* whatever trees the parser makes of them: detection finds every variable *)
(* that evaluation can miss, and a file loads without undefined variables. *)
(***************************************************************************)
EXTENDS MarkdownEditor, SequenceTheorems, FiniteSetTheorems, NaturalsInduction,
        WellFoundedInduction, TLAPS

-----------------------------------------------------------------------------
(* The recursive functions obey their definitions.                           *)

\* A nonempty set of naturals has a least element.
LEMMA LeastElement ==
    ASSUME NEW S \in SUBSET Nat, S # {}
    PROVE  \E n \in S : \A m \in S : ~(m < n)
<1> DEFINE R == OpToRel(<, Nat)
<1>1. IsWellFoundedOn(R, Nat)
  BY NatLessThanWellFounded
<1>2. PICK n \in S : \A m \in S : <<m, n>> \notin R
  BY <1>1, WFMin
<1>3. \A m \in S : m < n => <<m, n>> \in R
  BY DEF OpToRel
<1> QED
  BY <1>2, <1>3

\* The recursions of the two modules, told apart by kind: where they start, and what
\* the n-th step makes of the one before.
First(kind, p) ==
    CASE kind = "evaluate" -> [nodes \in Forest |-> Failure(StackOverflow)]
      [] kind = "find" -> [nodes \in Forest |-> <<>>]
      [] kind = "joined" -> Output(<<>>)
      [] kind = "found" -> <<>>
      [] kind = "reduced" -> Now

After(kind, p, n, before) ==
    CASE kind = "evaluate" -> [nodes \in Forest |-> EvaluateNodes(nodes, p, before)]
      [] kind = "find" -> [nodes \in Forest |-> FindInNodes(nodes, before)]
      [] kind = "joined" -> Joined(before, EvaluateNode(p.nodes[n], p.variables, p.inner))
      [] kind = "found" -> before \o NodeVariables(p.nodes[n], p.inner)
      [] kind = "reduced" -> SetOne(before, p.names[n], p.value)

Recursion(kind, p, f, n) == IF n = 0 THEN First(kind, p) ELSE After(kind, p, n, f[n - 1])

\* A function that obeys them exists on every initial segment.
LEMMA RecursionOnSegments ==
    ASSUME NEW kind, NEW p, NEW N \in Nat
    PROVE  \E f : f = [n \in 0..N |-> Recursion(kind, p, f, n)]
<1> DEFINE Bad == {m \in Nat : ~\E f : f = [n \in 0..m |-> Recursion(kind, p, f, n)]}
<1>1. SUFFICES Bad = {}
  OBVIOUS
<1>2. SUFFICES ASSUME Bad # {}
               PROVE  FALSE
  OBVIOUS
<1>3. PICK m \in Bad : \A k \in Bad : ~(k < m)
  <2> Bad \in SUBSET Nat
    OBVIOUS
  <2> HIDE DEF Bad
  <2> QED
    BY <1>2, LeastElement
<1>4. CASE m = 0
  <2> DEFINE f == [n \in 0..0 |-> First(kind, p)]
  <2>1. \A n \in 0..0 : Recursion(kind, p, f, n) = First(kind, p)
    BY DEF Recursion
  <2>2. f = [n \in 0..0 |-> Recursion(kind, p, f, n)]
    BY <2>1
  <2> QED
    BY <1>3, <1>4, <2>2
<1>5. CASE m # 0
  <2>1. m \in Nat /\ m - 1 \in Nat /\ m - 1 < m
    BY <1>5
  <2>2. m - 1 \notin Bad
    BY <1>3, <2>1
  <2>3. PICK f : f = [n \in 0..(m - 1) |-> Recursion(kind, p, f, n)]
    BY <2>1, <2>2
  <2> DEFINE g == [n \in 0..m |-> IF n = m THEN Recursion(kind, p, f, m) ELSE f[n]]
  <2>4. ASSUME NEW n \in 0..m
        PROVE  g[n] = Recursion(kind, p, g, n)
    <3>1. CASE n = m
      <4>1. n # 0 /\ n - 1 \in 0..m /\ n - 1 # m
        BY <1>5, <2>1, <3>1
      <4>2. g[n - 1] = f[n - 1]
        BY <4>1
      <4>3. g[n] = Recursion(kind, p, f, n)
        BY <3>1
      <4> HIDE DEF g
      <4> QED
        BY <4>1, <4>2, <4>3 DEF Recursion
    <3>2. CASE n # m
      <4>1. n \in 0..(m - 1)
        BY <2>1, <3>2
      <4>2. f[n] = Recursion(kind, p, f, n)
        BY <2>3, <4>1
      <4>3. g[n] = Recursion(kind, p, f, n)
        BY <3>2, <4>2
      <4>4. n # 0 => g[n - 1] = f[n - 1]
        BY <2>1, <4>1
      <4> HIDE DEF g
      <4> QED
        BY <4>3, <4>4 DEF Recursion
    <3> QED
      BY <3>1, <3>2
  <2>5. g = [n \in 0..m |-> Recursion(kind, p, g, n)]
    <3>1. g = [n \in 0..m |-> g[n]]
      OBVIOUS
    <3> HIDE DEF g
    <3> QED
      BY <2>4, <3>1
  <2> QED
    BY <1>3, <2>5
<1> QED
  BY <1>4, <1>5

\* The body of each recursive function, as it stands in the modules.
EvaluateBody(variables, f) ==
    [n \in 0..Depth |->
        [nodes \in Forest |->
            IF n = 0 THEN Failure(StackOverflow) ELSE EvaluateNodes(nodes, variables, f[n - 1])]]

FindBody(f) ==
    [n \in 0..Depth |->
        [nodes \in Forest |-> IF n = 0 THEN <<>> ELSE FindInNodes(nodes, f[n - 1])]]

JoinedBody(nodes, variables, inner, f) ==
    [k \in 0..Len(nodes) |->
        IF k = 0 THEN Output(<<>>)
        ELSE Joined(f[k - 1], EvaluateNode(nodes[k], variables, inner))]

FoundBody(nodes, inner, f) ==
    [k \in 0..Len(nodes) |->
        IF k = 0 THEN <<>> ELSE f[k - 1] \o NodeVariables(nodes[k], inner)]

ReducedBody(names, value, f) ==
    [n \in 0..Len(names) |-> IF n = 0 THEN Now ELSE SetOne(f[n - 1], names[n], value)]

\* What EvaluateAST looks up.
LEMMA EvaluateASTRecursion ==
    ASSUME NEW variables, Depth \in Nat
    PROVE  \E f : EvaluateAST(variables) = f[Depth] /\ f = EvaluateBody(variables, f)
<1>1. PICK f : f = [n \in 0..Depth |-> Recursion("evaluate", variables, f, n)]
  BY RecursionOnSegments
<1>2. ASSUME NEW n \in 0..Depth
      PROVE  [nodes \in Forest |->
                  IF n = 0 THEN Failure(StackOverflow)
                  ELSE EvaluateNodes(nodes, variables, f[n - 1])]
             = Recursion("evaluate", variables, f, n)
  <2>1. CASE n = 0
    BY <2>1, Zenon DEF Recursion, First
  <2>2. CASE n # 0
    BY <2>2, Zenon DEF Recursion, After
  <2> QED
    BY <2>1, <2>2
<1>3. f = EvaluateBody(variables, f)
  BY <1>1, <1>2 DEF EvaluateBody
<1> DEFINE evaluate == CHOOSE g : g = EvaluateBody(variables, g)
<1>4. evaluate = EvaluateBody(variables, evaluate)
  BY <1>3
<1>5. EvaluateAST(variables) = evaluate[Depth]
  BY DEF EvaluateAST, EvaluateBody
<1> HIDE DEF evaluate
<1> QED
  BY <1>4, <1>5

\* What FindASTVariables looks up.
LEMMA FindASTVariablesRecursion ==
    ASSUME Depth \in Nat
    PROVE  \E f : FindASTVariables = f[Depth] /\ f = FindBody(f)
<1>1. PICK f : f = [n \in 0..Depth |-> Recursion("find", 0, f, n)]
  BY RecursionOnSegments
<1>2. ASSUME NEW n \in 0..Depth
      PROVE  [nodes \in Forest |-> IF n = 0 THEN <<>> ELSE FindInNodes(nodes, f[n - 1])]
             = Recursion("find", 0, f, n)
  <2>1. CASE n = 0
    BY <2>1, Zenon DEF Recursion, First
  <2>2. CASE n # 0
    BY <2>2, Zenon DEF Recursion, After
  <2> QED
    BY <2>1, <2>2
<1>3. f = FindBody(f)
  BY <1>1, <1>2 DEF FindBody
<1> DEFINE find == CHOOSE g : g = FindBody(g)
<1>4. find = FindBody(find)
  BY <1>3
<1>5. FindASTVariables = find[Depth]
  BY DEF FindASTVariables, FindBody
<1> HIDE DEF find
<1> QED
  BY <1>4, <1>5

\* What EvaluateNodes looks up.
LEMMA EvaluateNodesRecursion ==
    ASSUME NEW nodes, NEW variables, NEW inner, Len(nodes) \in Nat
    PROVE  \E f : /\ EvaluateNodes(nodes, variables, inner) = f[Len(nodes)]
                  /\ f = JoinedBody(nodes, variables, inner, f)
<1> DEFINE p == [nodes |-> nodes, variables |-> variables, inner |-> inner]
<1>1. PICK f : f = [k \in 0..Len(nodes) |-> Recursion("joined", p, f, k)]
  <2> HIDE DEF p
  <2> QED
    BY RecursionOnSegments
<1>2. ASSUME NEW k \in 0..Len(nodes)
      PROVE  (IF k = 0 THEN Output(<<>>)
              ELSE Joined(f[k - 1], EvaluateNode(nodes[k], variables, inner)))
             = Recursion("joined", p, f, k)
  <2>1. CASE k = 0
    BY <2>1, Zenon DEF Recursion, First
  <2>2. CASE k # 0
    <3>1. p.nodes = nodes /\ p.variables = variables /\ p.inner = inner
      OBVIOUS
    <3> HIDE DEF p
    <3> QED
      BY <2>2, <3>1, Zenon DEF Recursion, After
  <2> QED
    BY <2>1, <2>2
<1> HIDE DEF p
<1>3. f = JoinedBody(nodes, variables, inner, f)
  BY <1>1, <1>2 DEF JoinedBody
<1> DEFINE upTo == CHOOSE g : g = JoinedBody(nodes, variables, inner, g)
<1>4. upTo = JoinedBody(nodes, variables, inner, upTo)
  BY <1>3
<1>5. EvaluateNodes(nodes, variables, inner) = upTo[Len(nodes)]
  BY DEF EvaluateNodes, JoinedBody
<1> HIDE DEF upTo
<1> QED
  BY <1>4, <1>5

\* What FindInNodes looks up.
LEMMA FindInNodesRecursion ==
    ASSUME NEW nodes, NEW inner, Len(nodes) \in Nat
    PROVE  \E f : FindInNodes(nodes, inner) = f[Len(nodes)] /\ f = FoundBody(nodes, inner, f)
<1> DEFINE p == [nodes |-> nodes, inner |-> inner]
<1>1. PICK f : f = [k \in 0..Len(nodes) |-> Recursion("found", p, f, k)]
  <2> HIDE DEF p
  <2> QED
    BY RecursionOnSegments
<1>2. ASSUME NEW k \in 0..Len(nodes)
      PROVE  (IF k = 0 THEN <<>> ELSE f[k - 1] \o NodeVariables(nodes[k], inner))
             = Recursion("found", p, f, k)
  <2>1. CASE k = 0
    BY <2>1, Zenon DEF Recursion, First
  <2>2. CASE k # 0
    <3>1. p.nodes = nodes /\ p.inner = inner
      OBVIOUS
    <3> HIDE DEF p
    <3> QED
      BY <2>2, <3>1, Zenon DEF Recursion, After
  <2> QED
    BY <2>1, <2>2
<1> HIDE DEF p
<1>3. f = FoundBody(nodes, inner, f)
  BY <1>1, <1>2 DEF FoundBody
<1> DEFINE upTo == CHOOSE g : g = FoundBody(nodes, inner, g)
<1>4. upTo = FoundBody(nodes, inner, upTo)
  BY <1>3
<1>5. FindInNodes(nodes, inner) = upTo[Len(nodes)]
  BY DEF FindInNodes, FoundBody
<1> HIDE DEF upTo
<1> QED
  BY <1>4, <1>5

\* What SetAll looks up.
LEMMA SetAllRecursion ==
    ASSUME NEW names, NEW value, Len(names) \in Nat
    PROVE  \E f : SetAll(names, value) = f[Len(names)] /\ f = ReducedBody(names, value, f)
<1> DEFINE p == [names |-> names, value |-> value]
<1>1. PICK f : f = [n \in 0..Len(names) |-> Recursion("reduced", p, f, n)]
  <2> HIDE DEF p
  <2> QED
    BY RecursionOnSegments
<1>2. ASSUME NEW n \in 0..Len(names)
      PROVE  (IF n = 0 THEN Now ELSE SetOne(f[n - 1], names[n], value))
             = Recursion("reduced", p, f, n)
  <2>1. CASE n = 0
    BY <2>1, Zenon DEF Recursion, First
  <2>2. CASE n # 0
    <3>1. p.names = names /\ p.value = value
      OBVIOUS
    <3> HIDE DEF p
    <3> QED
      BY <2>2, <3>1, Zenon DEF Recursion, After
  <2> QED
    BY <2>1, <2>2
<1> HIDE DEF p
<1>3. f = ReducedBody(names, value, f)
  BY <1>1, <1>2 DEF ReducedBody
<1> DEFINE reduced == CHOOSE g : g = ReducedBody(names, value, g)
<1>4. reduced = ReducedBody(names, value, reduced)
  BY <1>3
<1>5. SetAll(names, value) = reduced[Len(names)]
  BY DEF SetAll, ReducedBody
<1> HIDE DEF reduced
<1> QED
  BY <1>4, <1>5

-----------------------------------------------------------------------------
(* Detection.                                                                *)

IsSeq(s) == s \in Seq(ToSet(s))

\* Concatenation keeps what is in both.
LEMMA ConcatElements ==
    ASSUME NEW s, NEW t, IsSeq(s), IsSeq(t)
    PROVE  IsSeq(s \o t) /\ ToSet(s \o t) = ToSet(s) \cup ToSet(t)
<1>1. /\ Len(s) \in Nat /\ DOMAIN s = 1..Len(s)
      /\ Len(t) \in Nat /\ DOMAIN t = 1..Len(t)
  BY DEF IsSeq
<1>2. /\ Len(s \o t) = Len(s) + Len(t)
      /\ s \o t \in Seq(ToSet(s) \cup ToSet(t))
      /\ \A k \in 1..(Len(s) + Len(t)) :
            (s \o t)[k] = IF k <= Len(s) THEN s[k] ELSE t[k - Len(s)]
  <2>1. s \in Seq(ToSet(s) \cup ToSet(t)) /\ t \in Seq(ToSet(s) \cup ToSet(t))
    BY DEF IsSeq
  <2> QED
    BY <2>1, ConcatProperties
<1>3. DOMAIN (s \o t) = 1..(Len(s) + Len(t))
  BY <1>1, <1>2
<1>4. ToSet(s) \subseteq ToSet(s \o t)
  <2> SUFFICES ASSUME NEW k \in DOMAIN s
               PROVE  \E j \in DOMAIN (s \o t) : (s \o t)[j] = s[k]
    BY DEF ToSet
  <2>1. k \in 1..(Len(s) + Len(t)) /\ k <= Len(s)
    BY <1>1
  <2> QED
    BY <1>2, <1>3, <2>1
<1>5. ToSet(t) \subseteq ToSet(s \o t)
  <2> SUFFICES ASSUME NEW k \in DOMAIN t
               PROVE  \E j \in DOMAIN (s \o t) : (s \o t)[j] = t[k]
    BY DEF ToSet
  <2>1. k + Len(s) \in 1..(Len(s) + Len(t)) /\ ~(k + Len(s) <= Len(s)) /\ (k + Len(s)) - Len(s) = k
    BY <1>1
  <2> QED
    BY <1>2, <1>3, <2>1
<1>6. ToSet(s \o t) \subseteq ToSet(s) \cup ToSet(t)
  <2> SUFFICES ASSUME NEW k \in DOMAIN (s \o t)
               PROVE  (s \o t)[k] \in ToSet(s) \cup ToSet(t)
    BY DEF ToSet
  <2> QED
    BY <1>2, <1>3, ElementOfSeq
<1>7. ToSet(s \o t) = ToSet(s) \cup ToSet(t)
  BY <1>4, <1>5, <1>6
<1> QED
  BY <1>2, <1>7 DEF IsSeq

\* What the inputs say of the trees.
LEMMA ForestNodes ==
    ASSUME NEW nodes \in Forest
    PROVE  /\ Len(nodes) \in Nat /\ DOMAIN nodes = 1..Len(nodes)
           /\ \A k \in DOMAIN nodes : IsNode(nodes[k])
           /\ \A k \in DOMAIN nodes : nodes[k].type = "if" =>
                 /\ nodes[k].children \in Forest
                 /\ Height[nodes[k].children] < Height[nodes]
           /\ Height[nodes] \in 1..(Depth - 1)
  BY MarkdownInputs DEF IsNode

\* The names in a condition, and in a node, are a sequence.
LEMMA ConditionVariablesAreSeq ==
    ASSUME NEW condition
    PROVE  IsSeq(ConditionVariables(condition))
<1>1. IsSeq(<<>>) /\ \A x : IsSeq(<<x>>)
  BY DEF IsSeq, ToSet
<1>2. \A operand : IsSeq(Candidate(operand))
  BY <1>1 DEF Candidate
<1> QED
  BY <1>2, ConcatElements DEF ConditionVariables

LEMMA NodeVariablesAreSeq ==
    ASSUME NEW node, NEW inner, IsNode(node), node.type = "if" => IsSeq(inner[node.children])
    PROVE  IsSeq(NodeVariables(node, inner))
<1>1. IsSeq(<<>>) /\ \A x : IsSeq(<<x>>)
  BY DEF IsSeq, ToSet
<1>2. node.type = "if" => IsSeq(ConditionVariables(node.condition) \o inner[node.children])
  BY ConditionVariablesAreSeq, ConcatElements
<1>3. node.type \in {"md", "var", "if"}
  BY DEF IsNode
<1> QED
  BY <1>1, <1>2, <1>3 DEF NodeVariables

\* Detection goes through all the nodes.
LEMMA FoundInNodes ==
    ASSUME NEW nodes \in Forest, NEW inner,
           \A k \in DOMAIN nodes : nodes[k].type = "if" => IsSeq(inner[nodes[k].children])
    PROVE  /\ IsSeq(FindInNodes(nodes, inner))
           /\ \A k \in DOMAIN nodes :
                 ToSet(NodeVariables(nodes[k], inner)) \subseteq ToSet(FindInNodes(nodes, inner))
<1>1. /\ Len(nodes) \in Nat /\ DOMAIN nodes = 1..Len(nodes)
      /\ \A k \in DOMAIN nodes : IsNode(nodes[k])
  BY ForestNodes
<1>2. PICK f : FindInNodes(nodes, inner) = f[Len(nodes)] /\ f = FoundBody(nodes, inner, f)
  BY <1>1, FindInNodesRecursion
<1>3. \A k \in 0..Len(nodes) :
          f[k] = IF k = 0 THEN <<>> ELSE f[k - 1] \o NodeVariables(nodes[k], inner)
  BY <1>2 DEF FoundBody
<1>4. \A k \in DOMAIN nodes : IsSeq(NodeVariables(nodes[k], inner))
  BY <1>1, NodeVariablesAreSeq
<1> DEFINE Good(n) == /\ IsSeq(f[n])
                      /\ \A k \in 1..n : ToSet(NodeVariables(nodes[k], inner)) \subseteq ToSet(f[n])
           Bad == {n \in 0..Len(nodes) : ~Good(n)}
<1>5. SUFFICES Bad = {}
  <2>1. Good(Len(nodes))
    BY <1>1, <1>5
  <2> QED
    BY <1>1, <1>2, <2>1
<1>6. SUFFICES ASSUME Bad # {}
               PROVE  FALSE
  OBVIOUS
<1>7. PICK n \in Bad : \A k \in Bad : ~(k < n)
  <2> Bad \in SUBSET Nat
    BY <1>1
  <2> HIDE DEF Bad
  <2> QED
    BY <1>6, LeastElement
<1>8. CASE n = 0
  <2>1. f[0] = <<>>
    BY <1>1, <1>3
  <2>2. IsSeq(<<>>)
    BY DEF IsSeq, ToSet
  <2> QED
    BY <1>7, <1>8, <2>1, <2>2
<1>9. CASE n # 0
  <2>1. n \in 1..Len(nodes) /\ n - 1 \in 0..Len(nodes) /\ n - 1 < n
    BY <1>1, <1>7, <1>9
  <2>2. Good(n - 1)
    BY <1>7, <2>1
  <2>3. f[n] = f[n - 1] \o NodeVariables(nodes[n], inner)
    BY <1>3, <1>9, <2>1
  <2>4. IsSeq(NodeVariables(nodes[n], inner))
    BY <1>1, <1>4, <2>1
  <2>5. /\ IsSeq(f[n])
        /\ ToSet(f[n]) = ToSet(f[n - 1]) \cup ToSet(NodeVariables(nodes[n], inner))
    BY <2>2, <2>3, <2>4, ConcatElements
  <2>6. \A k \in 1..n : k = n \/ k \in 1..(n - 1)
    BY <2>1
  <2>7. Good(n)
    BY <2>2, <2>5, <2>6
  <2> QED
    BY <1>7, <2>7
<1> QED
  BY <1>8, <1>9

\* Detection depends on what is inside the nodes only.
LEMMA FindInNodesCongruence ==
    ASSUME NEW nodes \in Forest, NEW inner, NEW other,
           \A k \in DOMAIN nodes :
              nodes[k].type = "if" => inner[nodes[k].children] = other[nodes[k].children]
    PROVE  FindInNodes(nodes, inner) = FindInNodes(nodes, other)
<1>1. /\ Len(nodes) \in Nat /\ DOMAIN nodes = 1..Len(nodes)
      /\ \A k \in DOMAIN nodes : IsNode(nodes[k])
  BY ForestNodes
<1>2. PICK f : FindInNodes(nodes, inner) = f[Len(nodes)] /\ f = FoundBody(nodes, inner, f)
  BY <1>1, FindInNodesRecursion
<1>3. PICK g : FindInNodes(nodes, other) = g[Len(nodes)] /\ g = FoundBody(nodes, other, g)
  BY <1>1, FindInNodesRecursion
<1>4. \A k \in 0..Len(nodes) :
          /\ f[k] = IF k = 0 THEN <<>> ELSE f[k - 1] \o NodeVariables(nodes[k], inner)
          /\ g[k] = IF k = 0 THEN <<>> ELSE g[k - 1] \o NodeVariables(nodes[k], other)
  BY <1>2, <1>3 DEF FoundBody
<1>5. \A k \in DOMAIN nodes : NodeVariables(nodes[k], inner) = NodeVariables(nodes[k], other)
  BY <1>1 DEF NodeVariables, IsNode
<1> DEFINE Bad == {n \in 0..Len(nodes) : f[n] # g[n]}
<1>6. SUFFICES ASSUME Bad # {}
               PROVE  FALSE
  BY <1>1, <1>2, <1>3
<1>7. PICK n \in Bad : \A k \in Bad : ~(k < n)
  <2> Bad \in SUBSET Nat
    BY <1>1
  <2> HIDE DEF Bad
  <2> QED
    BY <1>6, LeastElement
<1>8. n # 0
  BY <1>1, <1>4, <1>7
<1>9. n \in 1..Len(nodes) /\ n - 1 \in 0..Len(nodes) /\ n - 1 < n
  BY <1>1, <1>7, <1>8
<1>10. f[n - 1] = g[n - 1]
  BY <1>7, <1>9
<1> QED
  BY <1>1, <1>4, <1>5, <1>7, <1>8, <1>9, <1>10

\* Detection reaches the bottom of every text: what it finds in nodes is what it
\* finds in each of them, conditions inside conditions included.
LEMMA DetectionComplete ==
    ASSUME NEW nodes \in Forest
    PROVE  /\ IsSeq(FindASTVariables[nodes])
           /\ \A k \in DOMAIN nodes :
                 ToSet(NodeVariables(nodes[k], FindASTVariables)) \subseteq
                    ToSet(FindASTVariables[nodes])
<1>1. Depth \in Nat /\ Depth # 0
  BY MarkdownInputs
<1>2. PICK f : FindASTVariables = f[Depth] /\ f = FindBody(f)
  BY <1>1, FindASTVariablesRecursion
<1>3. \A n \in 0..Depth : \A a \in Forest :
          f[n][a] = IF n = 0 THEN <<>> ELSE FindInNodes(a, f[n - 1])
  <2> TAKE n \in 0..Depth
  <2>1. f[n] = [a \in Forest |-> IF n = 0 THEN <<>> ELSE FindInNodes(a, f[n - 1])]
    BY <1>2, Zenon DEF FindBody
  <2> QED
    BY <2>1
<1> DEFINE Good(n) == \A a \in Forest :
               /\ IsSeq(f[n][a])
               /\ Height[a] < n => f[n][a] = f[n - 1][a]
           Bad == {n \in 0..Depth : ~Good(n)}
<1>4. Bad = {}
  <2>1. SUFFICES ASSUME Bad # {}
                 PROVE  FALSE
    OBVIOUS
  <2>2. PICK n \in Bad : \A k \in Bad : ~(k < n)
    <3> Bad \in SUBSET Nat
      BY <1>1
    <3> HIDE DEF Bad
    <3> QED
      BY <2>1, LeastElement
  <2>3. SUFFICES ASSUME NEW a \in Forest
                 PROVE  IsSeq(f[n][a]) /\ (Height[a] < n => f[n][a] = f[n - 1][a])
    BY <2>2
  <2>4. /\ \A k \in DOMAIN a : a[k].type = "if" =>
              a[k].children \in Forest /\ Height[a[k].children] < Height[a]
        /\ Height[a] \in 1..(Depth - 1)
        /\ \A b \in Forest : Height[b] \in 1..(Depth - 1)
    BY ForestNodes
  <2>5. CASE n = 0
    <3>1. f[0][a] = <<>>
      BY <1>1, <1>3
    <3>2. IsSeq(<<>>)
      BY DEF IsSeq, ToSet
    <3> QED
      BY <2>4, <2>5, <3>1, <3>2
  <2>6. CASE n # 0
    <3>1. n \in Nat /\ n - 1 \in 0..Depth /\ n - 1 < n
      BY <1>1, <2>2, <2>6
    <3>2. Good(n - 1)
      BY <2>2, <3>1
    <3>3. f[n][a] = FindInNodes(a, f[n - 1])
      BY <1>3, <2>2, <2>6
    <3>4. IsSeq(f[n][a])
      <4>1. \A k \in DOMAIN a : a[k].type = "if" => IsSeq(f[n - 1][a[k].children])
        BY <2>4, <3>2
      <4> QED
        BY <3>3, <4>1, FoundInNodes
    <3>5. ASSUME Height[a] < n
          PROVE  f[n][a] = f[n - 1][a]
      <4>1. n - 1 # 0
        BY <1>1, <2>4, <3>1, <3>5
      <4>2. f[n - 1][a] = FindInNodes(a, f[(n - 1) - 1])
        BY <1>3, <3>1, <4>1
      <4>3. ASSUME NEW k \in DOMAIN a, a[k].type = "if"
            PROVE  f[n - 1][a[k].children] = f[(n - 1) - 1][a[k].children]
        <5>1. a[k].children \in Forest /\ Height[a[k].children] < Height[a]
          BY <2>4, <4>3
        <5>2. Height[a[k].children] < n - 1
          BY <1>1, <2>4, <3>1, <3>5, <5>1
        <5> QED
          BY <3>2, <5>1, <5>2
      <4> QED
        BY <3>3, <4>2, <4>3, FindInNodesCongruence
    <3> QED
      BY <3>4, <3>5
  <2> QED
    BY <2>5, <2>6
<1>5. Good(Depth)
  BY <1>1, <1>4
<1>6. FindASTVariables[nodes] = FindInNodes(nodes, f[Depth - 1])
  BY <1>1, <1>2, <1>3
<1>7. \A k \in DOMAIN nodes : nodes[k].type = "if" =>
          /\ IsSeq(FindASTVariables[nodes[k].children])
          /\ FindASTVariables[nodes[k].children] = f[Depth - 1][nodes[k].children]
  <2>1. \A a \in Forest : Height[a] < Depth
    BY <1>1, ForestNodes
  <2> QED
    BY <1>2, <1>5, <2>1, ForestNodes
<1>8. FindASTVariables[nodes] = FindInNodes(nodes, FindASTVariables)
  BY <1>6, <1>7, FindInNodesCongruence
<1> QED
  BY <1>7, <1>8, FoundInNodes

-----------------------------------------------------------------------------
(* Evaluation.                                                               *)

\* An error of nodes is the error of one of them.
LEMMA ErrorOfOneNode ==
    ASSUME NEW nodes \in Forest, NEW variables, NEW inner
    PROVE  LET outcome == EvaluateNodes(nodes, variables, inner)
           IN  \/ outcome.error = NoError
               \/ \E k \in DOMAIN nodes :
                     outcome.error = EvaluateNode(nodes[k], variables, inner).error
<1>1. Len(nodes) \in Nat /\ DOMAIN nodes = 1..Len(nodes)
  BY ForestNodes
<1>2. PICK f : /\ EvaluateNodes(nodes, variables, inner) = f[Len(nodes)]
               /\ f = JoinedBody(nodes, variables, inner, f)
  BY <1>1, EvaluateNodesRecursion
<1>3. \A k \in 0..Len(nodes) :
          f[k] = IF k = 0 THEN Output(<<>>)
                 ELSE Joined(f[k - 1], EvaluateNode(nodes[k], variables, inner))
  BY <1>2 DEF JoinedBody
<1> DEFINE Good(n) == \/ f[n].error = NoError
                      \/ \E k \in DOMAIN nodes :
                            f[n].error = EvaluateNode(nodes[k], variables, inner).error
           Bad == {n \in 0..Len(nodes) : ~Good(n)}
<1>4. SUFFICES ASSUME Bad # {}
               PROVE  FALSE
  BY <1>1, <1>2
<1>5. PICK n \in Bad : \A k \in Bad : ~(k < n)
  <2> Bad \in SUBSET Nat
    BY <1>1
  <2> HIDE DEF Bad
  <2> QED
    BY <1>4, LeastElement
<1>6. \A s : Output(s).error = NoError
  BY DEF Output
<1>7. n # 0
  BY <1>1, <1>3, <1>5, <1>6
<1>8. n \in DOMAIN nodes /\ n - 1 \in 0..Len(nodes) /\ n - 1 < n
  BY <1>1, <1>5, <1>7
<1>9. Good(n - 1)
  BY <1>5, <1>8
<1>10. f[n] = Joined(f[n - 1], EvaluateNode(nodes[n], variables, inner))
  BY <1>1, <1>3, <1>5, <1>7
<1>11. f[n].error \in {NoError, f[n - 1].error, EvaluateNode(nodes[n], variables, inner).error}
  BY <1>6, <1>10 DEF Joined
<1>12. Good(n)
  BY <1>8, <1>9, <1>11
<1> QED
  BY <1>5, <1>12

\* A condition that misses a name that detection found misses an exception only.
LEMMA ConditionMisses ==
    ASSUME NEW condition, NEW variables, NEW line,
           OperandsParsed(condition),
           ToSet(ConditionVariables(condition)) \subseteq DOMAIN variables
    PROVE  LET error == EvaluateCondition(condition, variables, line).error
           IN  \/ error.kind \in {"none", "operator"}
               \/ error.kind = "undefined" /\ error.about \subseteq Exceptions(error.about)
<1>1. ASSUME NEW operand, operand = Operand(operand.value),
             ToSet(Candidate(operand)) \subseteq DOMAIN variables,
             operand.value \notin DOMAIN variables
      PROVE  operand.value \in Literals \/ operand.value = <<>> \/ operand.value[1] = "!"
  <2>1. SUFFICES ASSUME operand.value \notin Literals, operand.value # <<>>,
                        operand.value[1] # "!"
                 PROVE  FALSE
    OBVIOUS
  <2>2. operand.literal = <<>>
    BY <1>1, <2>1 DEF Operand
  <2>3. Candidate(operand) = <<operand.value>>
    BY <2>1, <2>2 DEF Candidate, IsNegated
  <2>4. operand.value \in ToSet(Candidate(operand))
    BY <2>3 DEF ToSet
  <2> QED
    BY <1>1, <2>4
<1>2. NoError.kind = "none" /\ \A names : /\ UndefinedVariables(names, line).kind = "undefined"
                                          /\ UndefinedVariables(names, line).about = names
                                          /\ UnsupportedOperator(names, line).kind = "operator"
  BY DEF NoError, UndefinedVariables, UnsupportedOperator, Error
<1>3. CASE condition.type = "truthy"
  <2>1. /\ condition.operand = Operand(condition.operand.value)
        /\ ToSet(Candidate(condition.operand)) \subseteq DOMAIN variables
    BY <1>3 DEF OperandsParsed, ConditionVariables
  <2>2. CASE condition.operand.value \in DOMAIN variables
    <3>1. EvaluateCondition(condition, variables, line).error = NoError
      BY <1>3, <2>2 DEF EvaluateCondition
    <3> QED
      BY <1>2, <3>1
  <2>3. CASE condition.operand.value \notin DOMAIN variables
    <3>1. EvaluateCondition(condition, variables, line).error =
             UndefinedVariables({condition.operand.value}, line)
      BY <1>3, <2>3 DEF EvaluateCondition
    <3>2. {condition.operand.value} \subseteq Exceptions({condition.operand.value})
      BY <1>1, <2>1, <2>3 DEF Exceptions
    <3> QED
      BY <1>2, <3>1, <3>2
  <2> QED
    BY <2>2, <2>3
<1>4. CASE condition.type # "truthy"
  <2> DEFINE left == condition.left
             right == condition.right
  <2>1. /\ left = Operand(left.value) /\ right = Operand(right.value)
        /\ ConditionVariables(condition) = Candidate(left) \o Candidate(right)
    BY <1>4 DEF OperandsParsed, ConditionVariables
  <2>2. \A operand : IsSeq(Candidate(operand))
    <3>1. IsSeq(<<>>) /\ \A x : IsSeq(<<x>>)
      BY DEF IsSeq, ToSet
    <3> QED
      BY <3>1 DEF Candidate
  <2>3. /\ ToSet(Candidate(left)) \subseteq DOMAIN variables
        /\ ToSet(Candidate(right)) \subseteq DOMAIN variables
    BY <2>1, <2>2, ConcatElements
  <2>4. CASE condition.operator \notin {<<"==">>, <<"!=">>}
    <3>1. EvaluateCondition(condition, variables, line).error =
             UnsupportedOperator(condition.operator, line)
      BY <1>4, <2>4 DEF EvaluateCondition
    <3> QED
      BY <1>2, <3>1
  <2>5. CASE /\ condition.operator \in {<<"==">>, <<"!=">>}
             /\ ~IsCertain(left, variables) /\ ~IsCertain(right, variables)
    <3>1. EvaluateCondition(condition, variables, line).error =
             UndefinedVariables({left.value, right.value}, line)
      BY <1>4, <2>5 DEF EvaluateCondition
    <3>2. left.value \notin DOMAIN variables /\ right.value \notin DOMAIN variables
      BY <2>5 DEF IsCertain
    <3>3. {left.value, right.value} \subseteq Exceptions({left.value, right.value})
      <4> HIDE DEF left, right
      <4> QED
        BY <1>1, <2>1, <2>3, <3>2 DEF Exceptions
    <3> QED
      BY <1>2, <3>1, <3>3
  <2>6. CASE /\ condition.operator \in {<<"==">>, <<"!=">>}
             /\ ~(~IsCertain(left, variables) /\ ~IsCertain(right, variables))
    <3>1. EvaluateCondition(condition, variables, line).error = NoError
      BY <1>4, <2>6 DEF EvaluateCondition
    <3> QED
      BY <1>2, <3>1
  <2> QED
    BY <2>4, <2>5, <2>6
<1> QED
  BY <1>3, <1>4

\* An error that is no undefined variable, or an exception.
Excused(error) ==
    error.kind = "undefined" => error.about \subseteq Exceptions(error.about)

\* Every name in a set, and in the texts that its values are, is in the set.
Closed(names, variables) ==
    \A v \in names : IsTemplate(variables[v]) =>
        /\ variables[v].string \in Input
        /\ ToSet(FindMdVariables(variables[v].string).names) \subseteq names

\* One node of a text whose variables all have values misses exceptions only, if the
\* texts inside it do.
LEMMA NodeMisses ==
    ASSUME NEW nodes \in Forest, NEW k \in DOMAIN nodes, NEW variables, NEW inner,
           NEW names \in SUBSET DOMAIN variables, Closed(names, variables),
           ToSet(FindASTVariables[nodes]) \subseteq names,
           \A a \in Forest :
              ToSet(FindASTVariables[a]) \subseteq names => Excused(inner[a].error)
    PROVE  Excused(EvaluateNode(nodes[k], variables, inner).error)
<1> DEFINE node == nodes[k]
<1>1. /\ IsNode(node) /\ (node.type = "if" => node.children \in Forest)
      /\ ToSet(NodeVariables(node, FindASTVariables)) \subseteq names
  BY ForestNodes, DetectionComplete
<1> HIDE DEF node
<1>2. \A error : error.kind # "undefined" => Excused(error)
  BY DEF Excused
<1>3. \A s : Output(s).error.kind = "none"
  BY DEF Output, NoError, Error
<1>4. \A error : Failure(error).error = error
  BY DEF Failure
<1>5. CASE node.type = "md"
  <2>1. EvaluateNode(node, variables, inner) = Output(node.value)
    BY <1>5 DEF EvaluateNode
  <2> QED
    BY <1>2, <1>3, <2>1 DEF node
<1>6. CASE node.type = "var"
  <2>1. NodeVariables(node, FindASTVariables) = <<node.value>>
    BY <1>6 DEF NodeVariables
  <2>2. node.value \in names
    BY <1>1, <2>1 DEF ToSet
  <2>3. EvaluateNode(node, variables, inner) = ProcessVariable(node, variables, inner)
    BY <1>6 DEF EvaluateNode
  <2>4. CASE ~IsTemplate(variables[node.value])
    <3>1. EvaluateNode(node, variables, inner) = Output(variables[node.value].string)
      BY <2>2, <2>3, <2>4 DEF ProcessVariable
    <3> QED
      BY <1>2, <1>3, <3>1 DEF node
  <2>5. CASE IsTemplate(variables[node.value])
    <3> DEFINE text == variables[node.value].string
    <3>1. text \in Input /\ ToSet(FindMdVariables(text).names) \subseteq names
      BY <2>2, <2>5 DEF Closed
    <3>2. EvaluateNode(node, variables, inner) = EvaluateTemplate(AST[text], inner)
      BY <2>2, <2>3, <2>5 DEF ProcessVariable
    <3> HIDE DEF text
    <3>3. FindMdVariables(text).names = FindASTVariables[AST[text].nodes]
      BY <3>1 DEF FindMdVariables, Detected, Names
    <3>4. /\ AST[text].nodes \in Forest
          /\ AST[text].error = NoError \/ AST[text].error.kind \in {"unclosed", "invalid"}
      BY <3>1, MarkdownInputs
    <3>5. CASE AST[text].error # NoError
      <4>1. EvaluateTemplate(AST[text], inner).error = AST[text].error
        BY <1>4, <3>5 DEF EvaluateTemplate
      <4> QED
        BY <1>2, <3>2, <3>4, <3>5, <4>1 DEF node
    <3>6. CASE AST[text].error = NoError
      <4>1. EvaluateTemplate(AST[text], inner) = inner[AST[text].nodes]
        BY <3>6 DEF EvaluateTemplate
      <4> QED
        BY <3>1, <3>2, <3>3, <3>4, <4>1 DEF node
    <3> QED
      BY <3>5, <3>6
  <2> QED
    BY <2>4, <2>5
<1>7. CASE node.type = "if"
  <2> DEFINE condition == EvaluateCondition(node.condition, variables, node.line)
  <2>1. EvaluateNode(node, variables, inner) = EvaluateIf(condition, node.children, inner)
    BY <1>7 DEF EvaluateNode
  <2>2. OperandsParsed(node.condition) /\ node.children \in Forest
    BY <1>1, <1>7 DEF IsNode
  <2>3. /\ ToSet(ConditionVariables(node.condition)) \subseteq names
        /\ ToSet(FindASTVariables[node.children]) \subseteq names
    <3>1. NodeVariables(node, FindASTVariables) =
             ConditionVariables(node.condition) \o FindASTVariables[node.children]
      BY <1>7 DEF NodeVariables
    <3>2. IsSeq(ConditionVariables(node.condition))
      BY ConditionVariablesAreSeq
    <3>3. IsSeq(FindASTVariables[node.children])
      BY <2>2, DetectionComplete
    <3> QED
      BY <1>1, <3>1, <3>2, <3>3, ConcatElements
  <2>4. Excused(condition.error)
    BY <2>2, <2>3, ConditionMisses DEF Excused
  <2>5. Excused(inner[node.children].error)
    BY <2>2, <2>3
  <2>6. EvaluateIf(condition, node.children, inner).error \in
           {condition.error, inner[node.children].error, Output(<<>>).error}
    <3> HIDE DEF condition
    <3> QED
      BY <1>4 DEF EvaluateIf
  <2>7. Excused(Output(<<>>).error)
    BY <1>2, <1>3
  <2> QED
    BY <2>1, <2>4, <2>5, <2>6, <2>7 DEF node
<1> QED
  BY <1>1, <1>5, <1>6, <1>7 DEF IsNode

\* Evaluation misses exceptions only, once every variable that detection finds, in
\* the text and in the texts that values are, has a value.
THEOREM EvaluationMisses ==
    ASSUME NEW variables, NEW names \in SUBSET DOMAIN variables, Closed(names, variables),
           NEW input \in Input, ToSet(FindMdVariables(input).names) \subseteq names
    PROVE  Excused(ParseDynamicMd(input, variables).error)
<1>1. Depth \in Nat /\ Depth # 0
  BY MarkdownInputs
<1>2. PICK f : EvaluateAST(variables) = f[Depth] /\ f = EvaluateBody(variables, f)
  BY <1>1, EvaluateASTRecursion
<1>3. ASSUME NEW n \in 0..Depth, NEW a \in Forest
      PROVE  f[n][a] = IF n = 0 THEN Failure(StackOverflow)
                       ELSE EvaluateNodes(a, variables, f[n - 1])
  <2>1. f[n] = [nodes \in Forest |->
                   IF n = 0 THEN Failure(StackOverflow)
                   ELSE EvaluateNodes(nodes, variables, f[n - 1])]
    BY <1>2, Zenon DEF EvaluateBody
  <2> QED
    BY <2>1
<1>4. \A error : error.kind # "undefined" => Excused(error)
  BY DEF Excused
<1>5. NoError.kind = "none" /\ \A error : Failure(error).error = error
  BY DEF Failure, NoError, Error
<1> DEFINE Good(n) == \A a \in Forest :
               ToSet(FindASTVariables[a]) \subseteq names => Excused(f[n][a].error)
           Bad == {n \in 0..Depth : ~Good(n)}
<1>6. Bad = {}
  <2>1. SUFFICES ASSUME Bad # {}
                 PROVE  FALSE
    OBVIOUS
  <2>2. PICK n \in Bad : \A k \in Bad : ~(k < n)
    <3> Bad \in SUBSET Nat
      BY <1>1
    <3> HIDE DEF Bad
    <3> QED
      BY <2>1, LeastElement
  <2>3. SUFFICES ASSUME NEW a \in Forest, ToSet(FindASTVariables[a]) \subseteq names
                 PROVE  Excused(f[n][a].error)
    BY <2>2
  <2>4. CASE n = 0
    <3>1. f[n][a].error = StackOverflow
      BY <1>1, <1>3, <1>5, <2>4
    <3> QED
      BY <1>4, <3>1 DEF StackOverflow, Error
  <2>5. CASE n # 0
    <3>1. n - 1 \in 0..Depth /\ n - 1 < n
      BY <1>1, <2>2, <2>5
    <3>2. Good(n - 1)
      BY <2>2, <3>1
    <3>3. f[n][a] = EvaluateNodes(a, variables, f[n - 1])
      BY <1>3, <2>2, <2>5
    <3>4. \A k \in DOMAIN a : Excused(EvaluateNode(a[k], variables, f[n - 1]).error)
      BY <2>3, <3>2, NodeMisses
    <3>5. Excused(NoError)
      BY <1>4, <1>5
    <3> QED
      BY <3>3, <3>4, <3>5, ErrorOfOneNode
  <2> QED
    BY <2>4, <2>5
<1>7. Good(Depth)
  BY <1>1, <1>6
<1>8. /\ AST[input].nodes \in Forest
      /\ AST[input].error = NoError \/ AST[input].error.kind \in {"unclosed", "invalid"}
      /\ FindMdVariables(input).names = FindASTVariables[AST[input].nodes]
  BY MarkdownInputs DEF FindMdVariables, Detected, Names
<1>9. Excused(EvaluateTemplate(AST[input], EvaluateAST(variables)).error)
  <2>1. Excused(f[Depth][AST[input].nodes].error)
    BY <1>7, <1>8
  <2> QED
    BY <1>2, <1>4, <1>5, <1>8, <2>1 DEF EvaluateTemplate
<1>10. \A name : Excused(Failure(Reserved(name)).error)
  BY <1>4, <1>5 DEF Reserved, Error
<1> QED
  BY <1>9, <1>10, Zenon DEF ParseDynamicMd

\* There is nothing in the empty text.
LEMMA EmptyText ==
    /\ <<>> \in Input /\ <<>> \in Forest /\ AST[<<>>] = [nodes |-> <<>>, error |-> NoError]
    /\ FindMdVariables(<<>>).names = <<>>
<1>1. /\ Depth \in Nat /\ Depth # 0
      /\ <<>> \in Input /\ AST[<<>>] = [nodes |-> <<>>, error |-> NoError]
      /\ AST[<<>>].nodes \in Forest
  BY MarkdownInputs
<1>2. <<>> \in Forest
  BY <1>1
<1>3. FindMdVariables(<<>>).names = FindASTVariables[<<>>]
  BY <1>1 DEF FindMdVariables, Detected, Names
<1>4. PICK f : FindASTVariables = f[Depth] /\ f = FindBody(f)
  BY <1>1, FindASTVariablesRecursion
<1>5. f[Depth] = [nodes \in Forest |-> IF Depth = 0 THEN <<>> ELSE FindInNodes(nodes, f[Depth - 1])]
  <2>1. Depth \in 0..Depth
    BY <1>1
  <2> QED
    BY <1>4, <2>1, Zenon DEF FindBody
<1>6. FindASTVariables[<<>>] = FindInNodes(<<>>, f[Depth - 1])
  BY <1>1, <1>2, <1>4, <1>5
<1>7. Len(<<>>) = 0 /\ Len(<<>>) \in Nat
  OBVIOUS
<1>8. PICK g : /\ FindInNodes(<<>>, f[Depth - 1]) = g[Len(<<>>)]
               /\ g = FoundBody(<<>>, f[Depth - 1], g)
  BY <1>7, FindInNodesRecursion
<1>9. g[0] = <<>>
  BY <1>7, <1>8 DEF FoundBody
<1> QED
  BY <1>1, <1>2, <1>3, <1>6, <1>7, <1>8, <1>9

\* With empty values a text that can be scanned fails in a condition, if at all.
LEMMA EmptyValuesLoad ==
    ASSUME NEW text \in Input, FindMdVariables(text).error = NoError
    PROVE  LET error == ParseDynamicMd(text, EmptyVars(text)).error
           IN  error.kind \in {"none", "undefined", "operator", "reserved"} /\ Excused(error)
<1> DEFINE variables == EmptyVars(text)
           Kinds == {"none", "undefined", "operator"}
<1>1. Depth \in Nat /\ Depth # 0
  BY MarkdownInputs
<1>2. /\ AST[text].nodes \in Forest /\ AST[text].error = NoError
      /\ FindMdVariables(text).names = FindASTVariables[AST[text].nodes]
  BY MarkdownInputs DEF FindMdVariables, Detected, Names
<1>3. /\ DOMAIN variables = ToSet(FindMdVariables(text).names)
      /\ \A v \in DOMAIN variables : variables[v] = Str(<<>>)
  BY DEF EmptyVars
<1> HIDE DEF variables
<1>4. Str(<<>>).type = "string" /\ Str(<<>>).string = <<>>
  BY DEF Str
<1>5. Closed(DOMAIN variables, variables)
  <2>1. ToSet(<<>>) = {}
    BY DEF ToSet
  <2> QED
    BY <1>3, <1>4, <2>1, EmptyText DEF Closed
<1>6. Excused(ParseDynamicMd(text, variables).error)
  BY <1>3, <1>5, EvaluationMisses
<1>7. PICK f : EvaluateAST(variables) = f[Depth] /\ f = EvaluateBody(variables, f)
  BY <1>1, EvaluateASTRecursion
<1>8. ASSUME NEW n \in 0..Depth, NEW a \in Forest
      PROVE  f[n][a] = IF n = 0 THEN Failure(StackOverflow)
                       ELSE EvaluateNodes(a, variables, f[n - 1])
  <2>1. f[n] = [nodes \in Forest |->
                   IF n = 0 THEN Failure(StackOverflow)
                   ELSE EvaluateNodes(nodes, variables, f[n - 1])]
    BY <1>7, Zenon DEF EvaluateBody
  <2> QED
    BY <2>1
<1>9. /\ NoError.kind = "none" /\ \A error : Failure(error).error = error
      /\ \A s : Output(s).error = NoError
      /\ \A names, line : UndefinedVariables(names, line).kind = "undefined"
      /\ \A name, line : UnsupportedOperator(name, line).kind = "operator"
      /\ \A name : Reserved(name).kind = "reserved"
  BY DEF Failure, Output, NoError, Error, UndefinedVariables, UnsupportedOperator, Reserved
<1>10. \A condition, line : EvaluateCondition(condition, variables, line).error.kind \in Kinds
  BY <1>9 DEF EvaluateCondition
<1> DEFINE Good(n) == \A a \in Forest : Height[a] < n => f[n][a].error.kind \in Kinds
           Bad == {n \in 0..Depth : ~Good(n)}
<1>11. Bad = {}
  <2>1. SUFFICES ASSUME Bad # {}
                 PROVE  FALSE
    OBVIOUS
  <2>2. PICK n \in Bad : \A k \in Bad : ~(k < n)
    <3> Bad \in SUBSET Nat
      BY <1>1
    <3> HIDE DEF Bad
    <3> QED
      BY <2>1, LeastElement
  <2>3. SUFFICES ASSUME NEW a \in Forest, Height[a] < n
                 PROVE  f[n][a].error.kind \in Kinds
    BY <2>2
  <2>4. /\ Height[a] \in 1..(Depth - 1)
        /\ \A k \in DOMAIN a : IsNode(a[k])
        /\ \A k \in DOMAIN a : a[k].type = "if" =>
              /\ a[k].children \in Forest /\ Height[a[k].children] < Height[a]
              /\ Height[a[k].children] \in 1..(Depth - 1)
    BY ForestNodes
  <2>5. n # 0 /\ n - 1 # 0 /\ n - 1 \in 0..Depth /\ n - 1 < n
    BY <1>1, <2>2, <2>3, <2>4
  <2>6. Good(n - 1)
    BY <2>2, <2>5
  <2> DEFINE inner == f[n - 1]
  <2>7. f[n][a] = EvaluateNodes(a, variables, inner)
    BY <1>8, <2>2, <2>5
  <2>8. inner[<<>>].error = NoError
    <3>1. inner[<<>>] = EvaluateNodes(<<>>, variables, f[(n - 1) - 1])
      BY <1>8, <2>5, EmptyText
    <3>2. DOMAIN <<>> = {}
      OBVIOUS
    <3> QED
      BY <3>1, <3>2, EmptyText, ErrorOfOneNode
  <2>9. ASSUME NEW k \in DOMAIN a
        PROVE  EvaluateNode(a[k], variables, inner).error.kind \in Kinds
    <3> DEFINE node == a[k]
    <3> HIDE DEF inner
    <3>1. CASE node.type = "md"
      <4>1. EvaluateNode(node, variables, inner) = Output(node.value)
        BY <3>1 DEF EvaluateNode
      <4> QED
        BY <1>9, <4>1
    <3>2. CASE node.type = "var"
      <4>1. EvaluateNode(node, variables, inner) = ProcessVariable(node, variables, inner)
        BY <3>2 DEF EvaluateNode
      <4>2. CASE node.value \notin DOMAIN variables
        <5>1. ProcessVariable(node, variables, inner) =
                 Failure(UndefinedVariables({node.value}, node.line))
          BY <4>2 DEF ProcessVariable
        <5> QED
          BY <1>9, <4>1, <5>1
      <4>3. CASE node.value \in DOMAIN variables
        <5>1. IsTemplate(variables[node.value]) /\ variables[node.value].string = <<>>
          BY <1>3, <1>4, <4>3 DEF IsTemplate
        <5>2. ProcessVariable(node, variables, inner) = EvaluateTemplate(AST[<<>>], inner)
          BY <4>3, <5>1 DEF ProcessVariable
        <5>3. EvaluateTemplate(AST[<<>>], inner) = inner[<<>>]
          BY EmptyText DEF EvaluateTemplate
        <5> QED
          BY <1>9, <2>8, <4>1, <5>2, <5>3
      <4> QED
        BY <4>2, <4>3
    <3>3. CASE node.type = "if"
      <4> DEFINE condition == EvaluateCondition(node.condition, variables, node.line)
      <4>1. EvaluateNode(node, variables, inner) = EvaluateIf(condition, node.children, inner)
        BY <3>3 DEF EvaluateNode
      <4>2. condition.error.kind \in Kinds
        BY <1>10
      <4>3. inner[node.children].error.kind \in Kinds
        <5>1. node.children \in Forest /\ Height[node.children] < n - 1
          BY <1>1, <2>2, <2>3, <2>4, <3>3
        <5> QED
          BY <2>6, <5>1 DEF inner
      <4> HIDE DEF condition, node
      <4>4. EvaluateIf(condition, node.children, inner).error \in
               {condition.error, inner[node.children].error, NoError}
        BY <1>9 DEF EvaluateIf
      <4> QED
        BY <1>9, <4>1, <4>2, <4>3, <4>4 DEF node
    <3> QED
      BY <2>4, <3>1, <3>2, <3>3 DEF IsNode
  <2> QED
    BY <1>9, <2>7, <2>9, ErrorOfOneNode
<1>12. EvaluateTemplate(AST[text], EvaluateAST(variables)).error.kind \in Kinds
  <2>1. Height[AST[text].nodes] < Depth
    BY <1>1, <1>2, ForestNodes
  <2>2. f[Depth][AST[text].nodes].error.kind \in Kinds
    BY <1>1, <1>2, <1>11, <2>1
  <2> QED
    BY <1>2, <1>7, <2>2 DEF EvaluateTemplate
<1>13. ParseDynamicMd(text, variables).error.kind \in Kinds \cup {"reserved"}
  BY <1>9, <1>12 DEF ParseDynamicMd
<1> QED
  BY <1>6, <1>13 DEF variables

-----------------------------------------------------------------------------
(* The editor.                                                               *)

\* What an error says of undefined variables is said of the text and the values that
\* are shown, and the variables in the tab are those of that text.
Consistent(s) ==
    /\ s.md \in Input
    /\ TextsOf(s.vars) \subseteq Input
    /\ IsSeq(s.found)
    /\ s.error.kind = "undefined" =>
          /\ s.found = FindMdVariables(s.md).names
          /\ s.error = ParseDynamicMd(s.md, s.vars).error

IInv == Consistent(Now) /\ IsFiniteSet(clipboard)

\* Every parse makes them agree.
LEMMA ParseConsistent ==
    ASSUME NEW s, IsSeq(s.found), NEW text \in Input, NEW variables, TextsOf(variables) \subseteq Input
    PROVE  Consistent(Parse(s, text, variables))
<1> DEFINE p == Parse(s, text, variables)
           found == FindMdVariables(text)
           parsed == ParseDynamicMd(text, variables)
<1>1. /\ p.md = text /\ p.vars = variables
      /\ p.found = IF found.error = NoError THEN found.names ELSE s.found
      /\ p.error = IF found.error # NoError THEN found.error ELSE parsed.error
  BY DEF Parse, Parsed
<1>2. /\ found.names = FindASTVariables[AST[text].nodes] /\ found.error = AST[text].error
      /\ AST[text].nodes \in Forest
      /\ AST[text].error = NoError \/ AST[text].error.kind \in {"unclosed", "invalid"}
  BY MarkdownInputs DEF FindMdVariables, Detected, Names
<1>3. IsSeq(found.names)
  BY <1>2, DetectionComplete
<1> HIDE DEF p, found, parsed
<1>4. p.error.kind = "undefined" => p.found = found.names /\ p.error = parsed.error
  BY <1>1, <1>2
<1>5. IsSeq(p.found)
  BY <1>1, <1>3
<1>6. Consistent(p)
  BY <1>1, <1>4, <1>5 DEF Consistent, found, parsed
<1> QED
  BY <1>6 DEF p

\* A value that is typed, filled or pasted is a text, or no template.
Safe(value) == IsTemplate(value) => value.string \in Input

LEMMA SetOneConsistent ==
    ASSUME NEW s, Consistent(s), NEW name, NEW value, Safe(value[name])
    PROVE  Consistent(SetOne(s, name, value))
<1>1. TextsOf(Set(s.vars, Variable(name), value[name])) \subseteq Input
  BY DEF TextsOf, Set, Consistent, Safe
<1> QED
  BY <1>1, ParseConsistent DEF SetOne, Consistent

LEMMA SetAllConsistent ==
    ASSUME Consistent(Now), NEW names, NEW value, Len(names) \in Nat,
           \A k \in 1..Len(names) : Safe(value[names[k]])
    PROVE  Consistent(SetAll(names, value))
<1>1. PICK f : SetAll(names, value) = f[Len(names)] /\ f = ReducedBody(names, value, f)
  BY SetAllRecursion
<1>2. \A n \in 0..Len(names) :
          f[n] = IF n = 0 THEN Now ELSE SetOne(f[n - 1], names[n], value)
  BY <1>1 DEF ReducedBody
<1> DEFINE Bad == {n \in 0..Len(names) : ~Consistent(f[n])}
<1>3. SUFFICES ASSUME Bad # {}
               PROVE  FALSE
  BY <1>1
<1>4. PICK n \in Bad : \A k \in Bad : ~(k < n)
  <2> Bad \in SUBSET Nat
    OBVIOUS
  <2> HIDE DEF Bad
  <2> QED
    BY <1>3, LeastElement
<1>5. n # 0
  BY <1>2, <1>4
<1>6. n \in 1..Len(names) /\ n - 1 \in 0..Len(names) /\ n - 1 < n
  BY <1>4, <1>5
<1>7. Consistent(f[n - 1])
  BY <1>4, <1>6
<1>8. f[n] = SetOne(f[n - 1], names[n], value)
  BY <1>2, <1>4, <1>5
<1>9. Consistent(f[n])
  BY <1>6, <1>7, <1>8, SetOneConsistent
<1> QED
  BY <1>4, <1>9

\* What the state becomes is as consistent.
LEMMA BecomeConsistent ==
    ASSUME NEW s, Consistent(s), Become(s)
    PROVE  Consistent(Now)'
<1>1. /\ md' = s.md /\ mdVars' = s.vars /\ foundMdVars' = s.found /\ parseError' = s.error
  BY DEF Become
<1> QED
  BY <1>1 DEF Consistent, Now

\* The elements of a sequence are finitely many.
LEMMA ToSetFinite ==
    ASSUME NEW s, IsSeq(s)
    PROVE  IsFiniteSet(ToSet(s))
<1>1. Len(s) \in Nat /\ DOMAIN s = 1..Len(s) /\ s \in [DOMAIN s -> ToSet(s)]
  BY DEF IsSeq
<1>2. IsFiniteSet(DOMAIN s)
  BY <1>1, FS_Interval
<1>3. s \in Surjection(DOMAIN s, ToSet(s))
  BY <1>1 DEF Surjection, ToSet
<1> QED
  BY <1>2, <1>3, FS_Surjection

\* A finite set is listed as a sequence.
LEMMA SetToSeqElements ==
    ASSUME NEW S, IsFiniteSet(S)
    PROVE  /\ Len(SetToSeq(S)) \in Nat
           /\ \A k \in 1..Len(SetToSeq(S)) : SetToSeq(S)[k] \in S
<1>1. Cardinality(S) \in Nat /\ ExistsBijection(1..Cardinality(S), S)
  BY FS_CardinalityType
<1>2. PICK f \in Bijection(1..Cardinality(S), S) : TRUE
  BY <1>1 DEF ExistsBijection
<1>3. f \in [1..Cardinality(S) -> S] /\ IsInjective(f)
  BY <1>2 DEF Bijection, Injection, IsInjective
<1>4. SetToSeq(S) \in [1..Cardinality(S) -> S]
  BY <1>3 DEF SetToSeq
<1>5. SetToSeq(S) \in Seq(S) /\ Len(SetToSeq(S)) = Cardinality(S)
  BY <1>1, <1>4
<1> QED
  BY <1>1, <1>4, <1>5

LEMMA EditorInit == Init => IInv
<1> SUFFICES ASSUME Init
             PROVE  IInv
  OBVIOUS
<1>1. InitialText \in Input /\ TextsOf(InitialVars) \subseteq Input
  BY EditorInputs
<1>2. IsSeq(FindMdVariables(InitialText).names)
  <2>1. FindMdVariables(InitialText).names = FindASTVariables[AST[InitialText].nodes]
    BY <1>1 DEF FindMdVariables, Detected, Names
  <2> QED
    BY <1>1, <2>1, MarkdownInputs, DetectionComplete
<1>3. NoError.kind # "undefined"
  BY DEF NoError, Error
<1>4. Consistent(Now)
  BY <1>1, <1>2, <1>3 DEF Init, Consistent, Now
<1>5. IsFiniteSet(clipboard)
  BY FS_EmptySet DEF Init, NotPasting
<1> QED
  BY <1>4, <1>5 DEF IInv

LEMMA EditorStep ==
    ASSUME IInv, [Next]_vars
    PROVE  IInv'
<1>1. /\ Consistent(Now) /\ IsFiniteSet(clipboard)
      /\ md \in Input /\ TextsOf(mdVars) \subseteq Input /\ IsSeq(foundMdVars)
      /\ Len(foundMdVars) \in Nat
      /\ \A k \in 1..Len(foundMdVars) : foundMdVars[k] \in ToSet(foundMdVars)
  BY DEF IInv, Consistent, Now, IsSeq
<1>2. /\ \A s \in Typed \cup Random : Safe(Str(s))
      /\ \A b \in BOOLEAN : Safe(Bool(b))
  BY EditorInputs DEF Safe, Str, Bool, IsTemplate
<1>3. IsSeq(Now.found)
  BY <1>1 DEF Now
<1>4. ASSUME NEW text \in Input, SetMd(text)
      PROVE  IInv'
  <2>1. Consistent(Parse(Now, text, mdVars))
    BY <1>1, <1>3, ParseConsistent
  <2>2. Become(Parse(Now, text, mdVars)) /\ clipboard' = clipboard
    BY <1>4 DEF SetMd
  <2> QED
    BY <1>1, <2>1, <2>2, BecomeConsistent DEF IInv
<1>5. CASE SetAnyVar
  <2>1. PICK name, value : value \in InputValues(name) /\ SetMdVar(name, value)
    BY <1>5 DEF SetAnyVar
  <2> DEFINE values == [n \in {name} |-> value]
  <2>2. Safe(values[name])
    <3>1. value \in {Bool(TRUE), Bool(FALSE)} \/ \E s \in Typed : value = Str(s)
      BY <2>1 DEF InputValues
    <3> QED
      BY <1>2, <3>1
  <2>3. Become(SetOne(Now, name, values)) /\ clipboard' = clipboard
    BY <2>1 DEF SetMdVar
  <2> HIDE DEF values
  <2>4. Consistent(SetOne(Now, name, values))
    BY <1>1, <2>2, SetOneConsistent
  <2> QED
    BY <1>1, <2>3, <2>4, BecomeConsistent DEF IInv
<1>6. CASE FillRandom
  <2>1. PICK value \in [ToSet(foundMdVars) -> {Str(s) : s \in Random}] :
           Become(SetAll(foundMdVars, value))
    BY <1>6 DEF FillRandom
  <2>2. \A k \in 1..Len(foundMdVars) : Safe(value[foundMdVars[k]])
    BY <1>1, <1>2, <2>1
  <2>3. Consistent(SetAll(foundMdVars, value))
    BY <1>1, <2>2, SetAllConsistent
  <2>4. clipboard' = clipboard
    BY <1>6 DEF FillRandom
  <2> QED
    BY <1>1, <2>1, <2>3, <2>4, BecomeConsistent DEF IInv
<1>7. CASE StartPaste
  <2>1. UNCHANGED state /\ clipboard' = ToSet(foundMdVars)
    BY <1>7 DEF StartPaste
  <2>2. Consistent(Now)'
    BY <1>1, <2>1 DEF Consistent, Now, state
  <2> QED
    BY <1>1, <2>1, <2>2, ToSetFinite DEF IInv
<1>8. CASE Paste
  <2>1. PICK names, value : /\ names \in SUBSET clipboard
                            /\ value \in [names -> {Str(s) : s \in Typed}]
                            /\ Become(SetAll(SetToSeq(names), value))
    BY <1>8 DEF Paste
  <2>2. IsFiniteSet(names)
    BY <1>1, <2>1, FS_Subset
  <2>3. /\ Len(SetToSeq(names)) \in Nat
        /\ \A k \in 1..Len(SetToSeq(names)) : SetToSeq(names)[k] \in names
    BY <2>2, SetToSeqElements
  <2>4. \A k \in 1..Len(SetToSeq(names)) : Safe(value[SetToSeq(names)[k]])
    BY <1>2, <2>1, <2>3
  <2>5. Consistent(SetAll(SetToSeq(names), value))
    BY <1>1, <2>3, <2>4, SetAllConsistent
  <2>6. IsFiniteSet(clipboard')
    BY <1>8, FS_EmptySet DEF Paste, NotPasting
  <2> QED
    BY <2>1, <2>5, <2>6, BecomeConsistent DEF IInv
<1>9. ASSUME NEW text \in Input, NEW variables, TextsOf(variables) \subseteq Input,
             Become(UpdateEditor(text, variables)), UNCHANGED clipboard
      PROVE  IInv'
  <2>1. Consistent(Parse(Now, text, mdVars))
    BY <1>1, <1>3, <1>9, ParseConsistent
  <2>2. IsSeq(Parse(Now, text, mdVars).found)
    BY <2>1 DEF Consistent
  <2>3. Consistent(UpdateEditor(text, variables))
    BY <1>9, <2>2, ParseConsistent DEF UpdateEditor
  <2> QED
    BY <1>1, <1>9, <2>3, BecomeConsistent DEF IInv
<1>10. CASE SelectExample
  <2>1. ExampleText \in Input /\ TextsOf(ExampleVars) \subseteq Input
    BY EditorInputs
  <2> QED
    BY <1>9, <1>10, <2>1 DEF SelectExample
<1>11. ASSUME NEW text \in Input, LoadMdWithEmptyVars(text)
       PROVE  IInv'
  <2>1. TextsOf(EmptyVars(text)) \subseteq Input
    BY EmptyText DEF TextsOf, EmptyVars, Str
  <2> QED
    BY <1>9, <1>11, <2>1 DEF LoadMdWithEmptyVars
<1>12. CASE UNCHANGED vars
  BY <1>1, <1>12 DEF IInv, Consistent, Now, vars, state
<1> QED
  BY <1>4, <1>5, <1>6, <1>7, <1>8, <1>10, <1>11, <1>12 DEF Next

LEMMA EditorIsConsistent == Spec => []IInv
  BY EditorInit, EditorStep, PTL DEF Spec

\* parseDynamicMd and findMdVariables: once every variable that the tab shows, and every
\* one that their values name, has a value, a document fails for an undefined variable
\* only where it is a literal, has no name or has a negation inside a comparison.
THEOREM DetectionSuffices == Spec => []DetectedVariablesSuffice
<1>1. ASSUME IInv
      PROVE  DetectedVariablesSuffice
  <2>1. SUFFICES ASSUME parseError.kind = "undefined", AllSet(ToSet(foundMdVars), mdVars)
                 PROVE  parseError.about \subseteq Exceptions(parseError.about)
    BY DEF DetectedVariablesSuffice
  <2>2. /\ md \in Input /\ TextsOf(mdVars) \subseteq Input
        /\ foundMdVars = FindMdVariables(md).names
        /\ parseError = ParseDynamicMd(md, mdVars).error
    BY <1>1, <2>1 DEF IInv, Consistent, Now
  <2>3. PICK names \in SUBSET DOMAIN mdVars :
           /\ ToSet(foundMdVars) \subseteq names
           /\ \A v \in names : IsTemplate(mdVars[v]) =>
                 ToSet(FindMdVariables(mdVars[v].string).names) \subseteq names
    BY <2>1 DEF AllSet
  <2>4. Closed(names, mdVars)
    BY <2>2, <2>3 DEF Closed, TextsOf
  <2>5. Excused(ParseDynamicMd(md, mdVars).error)
    BY <2>2, <2>3, <2>4, EvaluationMisses
  <2> QED
    BY <2>1, <2>2, <2>5 DEF Excused
<1> QED
  BY <1>1, EditorIsConsistent, PTL

\* loadMdWithEmptyVars: a file that can be scanned loads without a parse error of its
\* own, an expansion without end included; what it may miss are exceptions.
THEOREM FilesAreLoadedClean == Spec => FilesLoadClean
<1> DEFINE Clean ==
        \/ parseError'.kind \in {"none", "operator", "reserved"}
        \/ parseError'.kind = "undefined" /\ parseError'.about \subseteq Exceptions(parseError'.about)
        \/ ~LoadMdWithEmptyVars(md')
<1>1. ASSUME IInv, IInv', [Next]_vars
      PROVE  [Clean]_vars
  <2>1. SUFFICES ASSUME LoadMdWithEmptyVars(md')
                 PROVE  \/ parseError'.kind \in {"none", "operator", "reserved"}
                        \/ /\ parseError'.kind = "undefined"
                           /\ parseError'.about \subseteq Exceptions(parseError'.about)
    OBVIOUS
  <2>2. md' \in Input
    BY <1>1 DEF IInv, Consistent, Now
  <2>3. /\ FindMdVariables(md').error = NoError
        /\ Become(UpdateEditor(md', EmptyVars(md')))
    BY <2>1 DEF LoadMdWithEmptyVars
  <2> DEFINE first == Parse(Now, md', mdVars)
             parsed == ParseDynamicMd(md', EmptyVars(md'))
  <2>4. UpdateEditor(md', EmptyVars(md')).error = parsed.error
    BY <2>3 DEF UpdateEditor, Parse, Parsed
  <2>5. parseError' = parsed.error
    BY <2>3, <2>4 DEF Become
  <2>6. parsed.error.kind \in {"none", "undefined", "operator", "reserved"} /\ Excused(parsed.error)
    BY <2>2, <2>3, EmptyValuesLoad
  <2> HIDE DEF parsed
  <2> QED
    BY <2>5, <2>6 DEF Excused
<1> HIDE DEF Clean
<1>2. Spec => [][Clean]_vars
  BY <1>1, EditorIsConsistent, PTL DEF Spec
<1> QED
  BY <1>2 DEF FilesLoadClean, Clean
=============================================================================
