--------------------------- MODULE Workspace_proofs ---------------------------
(***************************************************************************)
(* What a tab can rely on while nobody else works at the files it works    *)
(* at, with any number of tabs, files and documents and however names are  *)
(* typed: whichever calls fail, renames keep documents and overwrites keep *)
(* names.                                                                  *)
(***************************************************************************)
EXTENDS Workspace, TLAPS

OneTab == \A t, u \in Tab : t = u

\* The sequences of calls that are still to be made at some time.
Move       == <<"load", "upload", "delete", "list">>
Copy       == <<"load", "upload">>
Replace    == <<"upload", "delete", "list">>
Store      == <<"upload", "list">>
StoreOnly  == <<"upload">>
Remove     == <<"delete", "list">>
Refetch    == <<"list">>

CallsOf(kind) ==
    CASE kind = "none"      -> {<<>>}
      [] kind = "save"      -> {Store, Refetch, <<>>}
      [] kind = "delete"    -> {Remove, Refetch, <<>>}
      [] kind = "overwrite" -> {Replace, Store, Remove, Refetch, <<>>}
      [] kind = "rename"    -> {Move, Copy, Replace, StoreOnly, Remove, Refetch, <<>>}

WillUpload == {Store, Replace, StoreOnly}
WillDelete == {Move, Replace, Remove}

\* What a tab knows by itself.
OwnInv(t) ==
    /\ calls[t] \in CallsOf(op[t].kind)
    /\ calls[t] \in WillUpload => content[t] # "none"
    /\ op[t].kind = "overwrite" => op[t].newKey.name = op[t].key.name
    /\ op[t].kind = "overwrite" /\ calls[t] \in WillDelete => op[t].newKey # op[t].key

WorkspaceInv == TypeOK /\ \A t \in Tab : OwnInv(t)

\* What it takes the bucket to hold.
BucketInv(t) ==
    /\ op[t].kind = "overwrite" /\ calls[t] = Remove => bucket[op[t].newKey] # "none"
    /\ op[t].kind = "rename" /\ calls[t] \in WillUpload => content[t] = bucket[op[t].key]
    /\ op[t].kind = "rename" /\ calls[t] = Remove =>
           bucket[op[t].newKey] = bucket[op[t].key]

Keys(t) == {op[t].key, op[t].newKey}

\* While t has an operation under way, nobody else has one on the same files.
Undisturbed(t) ==
    \A u \in Tab \ {t} : calls[t] # <<>> /\ calls[u] # <<>> => Keys(t) \cap Keys(u) = {}

LEMMA SequenceFacts ==
    /\ Head(Move) = "load" /\ Tail(Move) = Replace
    /\ Head(Copy) = "load" /\ Tail(Copy) = StoreOnly
    /\ Head(Replace) = "upload" /\ Tail(Replace) = Remove
    /\ Head(Store) = "upload" /\ Tail(Store) = Refetch
    /\ Head(StoreOnly) = "upload" /\ Tail(StoreOnly) = <<>>
    /\ Head(Remove) = "delete" /\ Tail(Remove) = Refetch
    /\ Head(Refetch) = "list" /\ Tail(Refetch) = <<>>
BY DEF Move, Copy, Replace, Store, StoreOnly, Remove, Refetch

LEMMA SequenceLengths ==
    /\ Len(Move) = 4 /\ Len(Copy) = 2 /\ Len(Replace) = 3 /\ Len(Store) = 2
    /\ Len(StoreOnly) = 1 /\ Len(Remove) = 2 /\ Len(Refetch) = 1 /\ Len(<<>>) = 0
BY DEF Move, Copy, Replace, Store, StoreOnly, Remove, Refetch

LEMMA ShortSequences ==
    \A s \in {Copy, StoreOnly, Remove, Refetch, <<>>} : ~(Len(s) > 2)
<1>1. ~(Len(Copy) > 2)
  BY DEF Copy
<1>2. ~(Len(StoreOnly) > 2)
  BY DEF StoreOnly
<1>3. ~(Len(Remove) > 2)
  BY DEF Remove
<1>4. ~(Len(Refetch) > 2)
  BY DEF Refetch
<1>5. ~(Len(<<>>) > 2)
  OBVIOUS
<1> QED
  BY <1>1, <1>2, <1>3, <1>4, <1>5, Zenon

Kind == {"none", "save", "overwrite", "rename", "delete"}

LEMMA CallsAreSequences ==
    ASSUME NEW kind \in Kind, NEW s \in CallsOf(kind)
    PROVE  s \in Seq({"load", "upload", "delete", "list"})
<1> DEFINE C == {"load", "upload", "delete", "list"}
<1>1. /\ Move \in Seq(C) /\ Copy \in Seq(C) /\ Replace \in Seq(C) /\ Store \in Seq(C)
      /\ StoreOnly \in Seq(C) /\ Remove \in Seq(C) /\ Refetch \in Seq(C) /\ <<>> \in Seq(C)
  BY DEF Move, Copy, Replace, Store, StoreOnly, Remove, Refetch
<1> HIDE DEF C
<1>2. s \in {Move, Copy, Replace, Store, StoreOnly, Remove, Refetch, <<>>}
  BY DEF Kind, CallsOf
<1> QED
  BY <1>1, <1>2 DEF C

\* What is left of a sequence of calls after one of them.
LEMMA NextCalls ==
    ASSUME NEW kind \in Kind, NEW s \in CallsOf(kind), s # <<>>
    PROVE  /\ Tail(s) \in CallsOf(kind)
           /\ Head(s) = "load" => kind = "rename" /\ Tail(s) \in {Replace, StoreOnly}
           /\ Head(s) = "upload" => s \in WillUpload
           /\ Head(s) = "delete" => s = Remove
           /\ Tail(s) \in WillUpload => Head(s) = "load"
           /\ Tail(s) \in WillDelete => s \in WillDelete
           /\ Tail(s) = Remove => Head(s) = "upload"
<1>1. \A a, b \in {Move, Copy, Replace, Store, StoreOnly, Remove, Refetch, <<>>} :
          Len(a) # Len(b) \/ (a # <<>> /\ b # <<>> /\ Head(a) # Head(b)) => a # b
  OBVIOUS
<1>2. Move # <<>> /\ Copy # <<>> /\ Replace # <<>> /\ Store # <<>> /\ StoreOnly # <<>>
      /\ Remove # <<>> /\ Refetch # <<>>
  BY SequenceLengths
<1>3. /\ Refetch \notin WillUpload \cup WillDelete \cup {Remove}
      /\ <<>> \notin WillUpload \cup WillDelete \cup {Remove}
      /\ Remove \notin WillUpload
      /\ Store \notin WillDelete \cup {Remove} /\ StoreOnly \notin WillDelete \cup {Remove}
      /\ Replace # Remove
  BY <1>2, SequenceFacts, SequenceLengths DEF WillUpload, WillDelete
<1>4. CASE kind = "save"
  BY <1>2, <1>3, <1>4, SequenceFacts DEF CallsOf, WillUpload, WillDelete
<1>5. CASE kind = "delete"
  BY <1>2, <1>3, <1>5, SequenceFacts DEF CallsOf, WillUpload, WillDelete
<1>6. CASE kind = "overwrite"
  BY <1>2, <1>3, <1>6, SequenceFacts DEF CallsOf, WillUpload, WillDelete
<1>7. CASE kind = "rename"
  BY <1>2, <1>3, <1>7, SequenceFacts DEF CallsOf, WillUpload, WillDelete
<1>8. CASE kind = "none"
  BY <1>8 DEF CallsOf
<1> QED
  BY <1>4, <1>5, <1>6, <1>7, <1>8 DEF Kind

LEMMA TypeFacts ==
    ASSUME TypeOK
    PROVE  /\ bucket \in [Key -> Document \cup {"none"}]
           /\ list \in [Tab -> SUBSET Key]
           /\ calls \in [Tab -> Seq({"load", "upload", "delete", "list"})]
           /\ content \in [Tab -> Document \cup {"none"}]
           /\ DOMAIN op = Tab
           /\ \A t \in Tab : op[t].kind \in Kind
           /\ \A t \in Tab : op[t].kind # "none" => op[t].key \in Key /\ op[t].newKey \in Key
BY DEF TypeOK, Kind

\* A click starts an operation.
LEMMA BeginStep ==
    ASSUME WorkspaceInv,
           NEW t \in Tab, NEW kind \in Kind \ {"none"}, NEW k \in Key, NEW newKey \in Key,
           NEW s \in CallsOf(kind),
           Begin(t, kind, k, newKey, s),
           content' \in [Tab -> Document \cup {"none"}],
           \A u \in Tab \ {t} : content'[u] = content[u],
           s \in WillUpload => content'[t] # "none",
           kind = "overwrite" => newKey.name = k.name /\ s # Remove,
           kind = "rename" => s \notin WillUpload \cup {Remove},
           kind = "overwrite" /\ s \in WillDelete => newKey # k
    PROVE  WorkspaceInv' /\ BucketInv(t)'
<1>1. /\ op' = [op EXCEPT ![t] = [kind |-> kind, key |-> k, newKey |-> newKey]]
      /\ calls' = [calls EXCEPT ![t] = s]
      /\ UNCHANGED <<bucket, list>>
  BY DEF Begin
<1>2. s \in Seq({"load", "upload", "delete", "list"})
  BY CallsAreSequences
<1>3. TypeOK'
  BY <1>1, <1>2 DEF WorkspaceInv, TypeOK, Kind
<1>4. calls'[t] = s /\ op'[t] = [kind |-> kind, key |-> k, newKey |-> newKey]
  BY <1>1, TypeFacts DEF WorkspaceInv
<1>5. \A u \in Tab \ {t} : calls'[u] = calls[u] /\ op'[u] = op[u]
  BY <1>1, TypeFacts DEF WorkspaceInv
<1>6. \A u \in Tab : OwnInv(u)'
  BY <1>4, <1>5 DEF WorkspaceInv, OwnInv
<1>7. BucketInv(t)'
  BY <1>4 DEF BucketInv
<1> QED
  BY <1>3, <1>6, <1>7 DEF WorkspaceInv

LEMMA CallNames ==
    /\ Move \notin WillUpload \cup {Remove}
    /\ Replace # Remove /\ Store # Remove /\ StoreOnly # Remove
    /\ Store \notin WillDelete /\ Copy \notin WillUpload \cup WillDelete
    /\ StoreOnly \notin WillDelete
BY SequenceLengths, SequenceFacts DEF WillUpload, WillDelete

LEMMA NothingLeft == <<>> \notin WillUpload \cup WillDelete \cup {Remove}
BY SequenceLengths DEF WillUpload, WillDelete

LEMMA KeyForFacts ==
    ASSUME NEW t \in Tab, NEW n \in Name, NEW g \in Tags
    PROVE  /\ KeyFor(t, n, g) \in Key
           /\ KeyFor(t, n, g).name = n /\ KeyFor(t, n, g).tags = g
BY WorkspaceInputs DEF KeyFor, Key

LEMMA ClickStep ==
    ASSUME WorkspaceInv, NEW t \in Tab, Click(t)
    PROVE  WorkspaceInv' /\ (BucketInv(t) => BucketInv(t)')
<1>1. /\ TypeOK
      /\ content \in [Tab -> Document \cup {"none"}]
      /\ calls \in [Tab -> Seq({"load", "upload", "delete", "list"})]
      /\ list[t] \subseteq Key
      /\ "none" \notin Document
  BY TypeFacts, WorkspaceInputs DEF WorkspaceInv
<1>2. ASSUME NEW n \in Name, NEW blank \in Blanks, NEW g \in Tags, NEW left \in BOOLEAN,
             NEW d \in Document, SaveNew(t, n, blank, g, left, d)
      PROVE  WorkspaceInv' /\ BucketInv(t)'
  <2>1. /\ Begin(t, "save", KeyFor(t, n, g), KeyFor(t, n, g), Store)
        /\ content' = [content EXCEPT ![t] = d]
    BY <1>2 DEF SaveNew, Store
  <2>2. Store \in CallsOf("save") /\ "save" \in Kind \ {"none"}
    BY DEF CallsOf, Kind
  <2>3. content' \in [Tab -> Document \cup {"none"}] /\ content'[t] # "none"
    BY <1>1, <2>1
  <2>4. \A u \in Tab \ {t} : content'[u] = content[u]
    BY <1>1, <2>1
  <2> HIDE DEF Store
  <2> QED
    BY <2>1, <2>2, <2>3, <2>4, KeyForFacts, BeginStep
<1>3. ASSUME NEW k \in list[t], NEW n \in Name, NEW blank \in Blanks, NEW g \in Tags,
             NEW left \in BOOLEAN, Rename(t, k, n, blank, g, left)
      PROVE  WorkspaceInv' /\ BucketInv(t)'
  <2>1. Begin(t, "rename", k, KeyFor(t, n, g), Move) /\ UNCHANGED content
    BY <1>3 DEF Rename, RenameCalls, Move
  <2>2. Move \in CallsOf("rename") /\ "rename" \in Kind \ {"none"}
    BY DEF CallsOf, Kind
  <2> QED
    BY <1>1, <2>1, <2>2, KeyForFacts, CallNames, BeginStep
<1>4. ASSUME NEW k \in list[t], NEW d \in Document, Overwrite(t, k, d)
      PROVE  WorkspaceInv' /\ BucketInv(t)'
  <2> DEFINE newKey == KeyFor(t, k.name, TagsOf(k))
  <2>1. Begin(t, "overwrite", k, newKey, OverwriteCalls(k, newKey))
        /\ content' = [content EXCEPT ![t] = d]
    BY <1>4 DEF Overwrite
  <2>2. k.name \in Name /\ TagsOf(k) \in Tags
    BY <1>1, WorkspaceInputs DEF Key, TagsOf
  <2>3. newKey \in Key /\ newKey.name = k.name
    BY <2>2, KeyForFacts
  <2> HIDE DEF newKey
  <2>4. CASE newKey # k
    <3>1. OverwriteCalls(k, newKey) = Replace
      BY <2>4 DEF OverwriteCalls, CleanOld, Replace
    <3>2. Replace \in CallsOf("overwrite") /\ "overwrite" \in Kind \ {"none"}
      BY DEF CallsOf, Kind
    <3> QED
      BY <1>1, <2>1, <2>3, <2>4, <3>1, <3>2, CallNames, BeginStep
  <2>5. CASE newKey = k
    <3>1. OverwriteCalls(k, newKey) = Store
      BY <2>5 DEF OverwriteCalls, CleanOld, Store
    <3>2. Store \in CallsOf("overwrite") /\ "overwrite" \in Kind \ {"none"}
      BY DEF CallsOf, Kind
    <3> QED
      BY <1>1, <2>1, <2>3, <2>5, <3>1, <3>2, CallNames, BeginStep
  <2> QED
    BY <2>4, <2>5
<1>5. ASSUME NEW k \in list[t], Delete(t, k)
      PROVE  WorkspaceInv' /\ BucketInv(t)'
  <2>1. Begin(t, "delete", k, k, Remove) /\ UNCHANGED content
    BY <1>5 DEF Delete, Remove
  <2>2. Remove \in CallsOf("delete") /\ "delete" \in Kind \ {"none"}
    BY DEF CallsOf, Kind
  <2>3. Remove \notin WillUpload
    BY CallNames DEF WillUpload
  <2> QED
    BY <1>1, <2>1, <2>2, <2>3, BeginStep
<1>6. CASE CancelRename(t)
  <2>1. /\ op[t].kind = "rename" /\ Len(calls[t]) > 2
        /\ calls' = [calls EXCEPT ![t] = IF Head(@) = "load" THEN Copy ELSE StoreOnly]
        /\ UNCHANGED <<bucket, list, op, content>>
    BY <1>6 DEF CancelRename, Copy, StoreOnly
  <2>2. calls[t] \in CallsOf("rename")
    BY <2>1 DEF WorkspaceInv, OwnInv
  <2>3. calls[t] \in {Move, Replace}
    <3>1. calls[t] \in {Move, Copy, Replace, StoreOnly, Remove, Refetch, <<>>}
      BY <2>2 DEF CallsOf
    <3>2. \A s \in {Copy, StoreOnly, Remove, Refetch, <<>>} : ~(Len(s) > 2)
      BY ShortSequences
    <3>3. Len(calls[t]) > 2
      BY <2>1, Zenon
    <3>4. calls[t] \notin {Copy, StoreOnly, Remove, Refetch, <<>>}
      BY <3>2, <3>3, Zenon
    <3> QED
      BY <3>1, <3>4, Zenon
  <2>4. /\ calls'[t] \in {Copy, StoreOnly}
        /\ calls'[t] = StoreOnly => calls[t] = Replace
    BY <1>1, <2>1, <2>3, SequenceFacts, SequenceLengths
  <2>5. Copy \in CallsOf("rename") /\ StoreOnly \in CallsOf("rename")
    BY DEF CallsOf
  <2>6. TypeOK'
    <3>1. calls'[t] \in Seq({"load", "upload", "delete", "list"})
      BY <2>4, <2>5, CallsAreSequences DEF Kind
    <3> QED
      BY <1>1, <2>1, <3>1 DEF TypeOK
  <2>7. Copy # Remove
    BY SequenceFacts, SequenceLengths
  <2>8. \A u \in Tab \ {t} : calls'[u] = calls[u]
    BY <1>1, <2>1
  <2>9. ASSUME NEW u \in Tab PROVE OwnInv(u)'
    <3>1. CASE u = t
      BY <2>1, <2>4, <2>5, <3>1, CallNames DEF WorkspaceInv, OwnInv, WillUpload
    <3>2. CASE u # t
      BY <2>1, <2>8, <3>2 DEF WorkspaceInv, OwnInv
    <3> QED
      BY <3>1, <3>2
  <2>10. BucketInv(t) => BucketInv(t)'
    BY <2>1, <2>4, <2>7, CallNames DEF BucketInv, WillUpload
  <2> QED
    BY <2>6, <2>9, <2>10 DEF WorkspaceInv
<1> QED
  BY <1>2, <1>3, <1>4, <1>5, <1>6 DEF Click

\* What holds of a tab, its operation and its calls before one of them is made.
LEMMA TabFacts ==
    ASSUME WorkspaceInv, NEW t \in Tab, calls[t] # <<>>
    PROVE  /\ op[t].kind \in Kind \ {"none"} /\ calls[t] \in CallsOf(op[t].kind)
           /\ op[t].key \in Key /\ op[t].newKey \in Key
           /\ calls[t] \in WillUpload => content[t] \in Document
           /\ Head(calls[t]) \in {"load", "upload", "delete", "list"}
<1>1. /\ calls[t] \in CallsOf(op[t].kind) /\ op[t].kind \in Kind
      /\ calls[t] \in WillUpload => content[t] \in Document
      /\ op[t].kind # "none" => op[t].key \in Key /\ op[t].newKey \in Key
  BY TypeFacts, WorkspaceInputs DEF WorkspaceInv, OwnInv
<1>2. op[t].kind # "none"
  BY <1>1 DEF CallsOf
<1>3. calls[t] \in Seq({"load", "upload", "delete", "list"})
  BY TypeFacts DEF WorkspaceInv
<1>4. Head(calls[t]) \in {"load", "upload", "delete", "list"}
  BY <1>3
<1> QED
  BY <1>1, <1>2, <1>4

\* Whatever a call does to the bucket, it stays a bucket.
LEMMA EffectType ==
    ASSUME WorkspaceInv, NEW t \in Tab, calls[t] # <<>>, Effect(t, Head(calls[t]))
    PROVE  bucket' \in [Key -> Document \cup {"none"}]
<1>1. Head(calls[t]) = "upload" => content[t] \in Document
  BY TabFacts, NextCalls
<1> QED
  BY <1>1, TabFacts, TypeFacts DEF WorkspaceInv, Effect

LEMMA CallSucceedsStep ==
    ASSUME WorkspaceInv, NEW t \in Tab, CallSucceeds(t)
    PROVE  WorkspaceInv' /\ (BucketInv(t) => BucketInv(t)')
<1> DEFINE call == Head(calls[t])
<1> DEFINE kind == op[t].kind
<1>1. /\ calls[t] # <<>>
      /\ call = "load" => op[t].key \in Files
      /\ Effect(t, call)
      /\ content' = [content EXCEPT ![t] = IF call = "load" THEN bucket[op[t].key] ELSE "none"]
      /\ list' = IF call = "list" THEN [list EXCEPT ![t] = Files] ELSE list
      /\ calls' = [calls EXCEPT ![t] = Tail(@)]
      /\ op' = op
  BY DEF CallSucceeds
<1>2. /\ kind \in Kind \ {"none"} /\ calls[t] \in CallsOf(kind)
      /\ op[t].key \in Key /\ op[t].newKey \in Key
      /\ calls[t] \in WillUpload => content[t] \in Document
      /\ call \in {"load", "upload", "delete", "list"}
  BY <1>1, TabFacts
<1>3. /\ Tail(calls[t]) \in CallsOf(kind)
      /\ call = "load" => kind = "rename" /\ Tail(calls[t]) \in {Replace, StoreOnly}
      /\ call = "upload" => calls[t] \in WillUpload
      /\ call = "delete" => calls[t] = Remove
      /\ Tail(calls[t]) \in WillUpload => call = "load"
      /\ Tail(calls[t]) \in WillDelete => calls[t] \in WillDelete
      /\ Tail(calls[t]) = Remove => call = "upload"
  BY <1>1, <1>2, NextCalls
<1>4. /\ calls'[t] = Tail(calls[t])
      /\ content'[t] = IF call = "load" THEN bucket[op[t].key] ELSE "none"
      /\ \A u \in Tab \ {t} : calls'[u] = calls[u] /\ content'[u] = content[u]
  BY <1>1, TypeFacts DEF WorkspaceInv
<1>5. /\ call = "upload" => bucket' = [bucket EXCEPT ![op[t].newKey] = content[t]]
      /\ call = "delete" => bucket' = [bucket EXCEPT ![op[t].key] = "none"]
      /\ call \in {"load", "list"} => bucket' = bucket
  BY <1>1 DEF Effect
<1>6. TypeOK'
  <2>1. bucket' \in [Key -> Document \cup {"none"}]
    BY <1>1, EffectType
  <2>2. list' \in [Tab -> SUBSET Key]
    BY <1>1, TypeFacts DEF WorkspaceInv, Files
  <2>3. calls' \in [Tab -> Seq({"load", "upload", "delete", "list"})]
    BY <1>1, <1>2, <1>3, CallsAreSequences, TypeFacts DEF WorkspaceInv
  <2>4. content' \in [Tab -> Document \cup {"none"}]
    BY <1>1, <1>2, TypeFacts DEF WorkspaceInv
  <2> QED
    BY <1>1, <2>1, <2>2, <2>3, <2>4 DEF WorkspaceInv, TypeOK
<1>7. calls'[t] \in WillUpload => content'[t] = bucket'[op[t].key] /\ content'[t] # "none"
  BY <1>1, <1>3, <1>4, <1>5 DEF Files
<1>8. \A u \in Tab : OwnInv(u)'
  <2>1. OwnInv(t)'
    BY <1>1, <1>3, <1>4, <1>7 DEF WorkspaceInv, OwnInv
  <2>2. \A u \in Tab \ {t} : OwnInv(u)'
    BY <1>1, <1>4 DEF WorkspaceInv, OwnInv
  <2> QED
    BY <2>1, <2>2
<1>9. ASSUME BucketInv(t), kind \in {"overwrite", "rename"}, calls'[t] = Remove
      PROVE  /\ bucket'[op[t].newKey] # "none"
             /\ kind = "rename" => bucket'[op[t].newKey] = bucket'[op[t].key]
  <2>1. call = "upload" /\ calls[t] \in WillUpload /\ content[t] # "none"
    BY <1>3, <1>4, <1>9 DEF WorkspaceInv, OwnInv
  <2>2. bucket'[op[t].newKey] = content[t]
    BY <1>2, <1>5, <2>1, TypeFacts DEF WorkspaceInv
  <2>3. kind = "rename" => bucket'[op[t].key] = content[t]
    BY <1>2, <1>5, <1>9, <2>1, TypeFacts DEF WorkspaceInv, BucketInv
  <2> QED
    BY <2>1, <2>2, <2>3
<1>10. BucketInv(t) => BucketInv(t)'
  BY <1>1, <1>7, <1>9 DEF BucketInv
<1> QED
  BY <1>6, <1>8, <1>10 DEF WorkspaceInv

LEMMA CallFailsStep ==
    ASSUME WorkspaceInv, NEW t \in Tab, NEW tookEffect \in BOOLEAN,
           CallFails(t, tookEffect)
    PROVE  WorkspaceInv' /\ BucketInv(t)'
<1>1. /\ calls[t] # <<>>
      /\ IF tookEffect THEN Effect(t, Head(calls[t])) ELSE bucket' = bucket
      /\ calls' = [calls EXCEPT ![t] = <<>>]
      /\ content' = [content EXCEPT ![t] = "none"]
      /\ list' = list /\ op' = op
  BY DEF CallFails
<1>2. bucket' \in [Key -> Document \cup {"none"}]
  BY <1>1, EffectType, TypeFacts DEF WorkspaceInv
<1>3. TypeOK'
  BY <1>1, <1>2 DEF WorkspaceInv, TypeOK
<1>4. /\ calls'[t] = <<>>
      /\ \A u \in Tab \ {t} : calls'[u] = calls[u] /\ content'[u] = content[u]
  BY <1>1, TypeFacts DEF WorkspaceInv
<1>5. <<>> \in CallsOf(op[t].kind)
  BY TypeFacts DEF WorkspaceInv, CallsOf, Kind
<1>6. <<>> \notin WillUpload \cup WillDelete \cup {Remove}
  BY NothingLeft
<1>7. \A u \in Tab : OwnInv(u)'
  BY <1>1, <1>4, <1>5, <1>6 DEF WorkspaceInv, OwnInv
<1>8. BucketInv(t)'
  BY <1>4, <1>6 DEF BucketInv
<1> QED
  BY <1>3, <1>7, <1>8 DEF WorkspaceInv

LEMMA RefreshStep ==
    ASSUME WorkspaceInv, NEW t \in Tab, Refresh(t)
    PROVE  WorkspaceInv' /\ (BucketInv(t) => BucketInv(t)')
<1>1. /\ list' = [list EXCEPT ![t] = Files]
      /\ UNCHANGED <<bucket, op, calls, content>>
  BY DEF Refresh
<1>2. TypeOK'
  BY <1>1 DEF WorkspaceInv, TypeOK, Files
<1>3. \A u \in Tab : OwnInv(u)'
  BY <1>1 DEF WorkspaceInv, OwnInv
<1>4. BucketInv(t) => BucketInv(t)'
  BY <1>1 DEF BucketInv
<1> QED
  BY <1>2, <1>3, <1>4 DEF WorkspaceInv

LEMMA InitEstablishes == Init => WorkspaceInv /\ \A t \in Tab : BucketInv(t)
<1> SUFFICES ASSUME Init PROVE WorkspaceInv /\ \A t \in Tab : BucketInv(t)
  OBVIOUS
<1>1. TypeOK
  BY DEF Init, TypeOK
<1>2. <<>> \notin WillUpload \cup WillDelete \cup {Remove}
  BY NothingLeft
<1>3. \A t \in Tab : OwnInv(t) /\ BucketInv(t)
  BY <1>2 DEF Init, OwnInv, BucketInv, CallsOf
<1> QED
  BY <1>1, <1>3 DEF WorkspaceInv

\* What a step of tab t is.
TabStep(t) ==
    \/ Click(t)
    \/ CallSucceeds(t)
    \/ \E tookEffect \in BOOLEAN : CallFails(t, tookEffect)
    \/ Refresh(t)

LEMMA NextIsTabStep == Next <=> \E t \in Tab : TabStep(t)
BY DEF Next, TabStep

LEMMA OwnStep ==
    ASSUME WorkspaceInv, NEW t \in Tab, TabStep(t)
    PROVE  WorkspaceInv' /\ (BucketInv(t) => BucketInv(t)')
BY ClickStep, CallSucceedsStep, CallFailsStep, RefreshStep DEF TabStep

LEMMA StepPreserves ==
    ASSUME WorkspaceInv, [Next]_vars
    PROVE  WorkspaceInv'
<1>1. CASE Next
  BY <1>1, NextIsTabStep, OwnStep
<1>2. CASE UNCHANGED vars
  BY <1>2 DEF vars, WorkspaceInv, TypeOK, OwnInv
<1> QED
  BY <1>1, <1>2

LEMMA InvariantHolds == Spec => []WorkspaceInv
<1>1. Init => WorkspaceInv
  BY InitEstablishes
<1> QED
  BY <1>1, StepPreserves, PTL DEF Spec

\* However many tabs work on the bucket: it, the lists and the operations stay of
\* their types; no tab ever uploads anything but a document or nothing.
THEOREM WorkspaceTypeCorrect == Spec => []TypeOK
<1>1. WorkspaceInv => TypeOK
  BY DEF WorkspaceInv
<1> QED
  BY <1>1, InvariantHolds, PTL

-----------------------------------------------------------------------------
(* What the tabs do to each other.                                           *)

\* A step of a tab touches no other tab, and of the bucket only the files of its
\* operation, by a call that has its effect.
LEMMA StepFrame ==
    ASSUME WorkspaceInv, NEW u \in Tab, TabStep(u)
    PROVE  /\ \A t \in Tab \ {u} : /\ op'[t] = op[t] /\ calls'[t] = calls[t]
                                   /\ content'[t] = content[t]
           /\ bucket' = bucket \/ (calls[u] # <<>> /\ Effect(u, Head(calls[u])))
<1> USE TypeFacts DEF WorkspaceInv
<1>1. CASE Click(u)
  BY <1>1 DEF Click, SaveNew, Rename, Overwrite, Delete, Begin, CancelRename
<1>2. CASE CallSucceeds(u)
  BY <1>2 DEF CallSucceeds
<1>3. ASSUME NEW tookEffect \in BOOLEAN, CallFails(u, tookEffect)
      PROVE  /\ \A t \in Tab \ {u} : /\ op'[t] = op[t] /\ calls'[t] = calls[t]
                                     /\ content'[t] = content[t]
             /\ bucket' = bucket \/ (calls[u] # <<>> /\ Effect(u, Head(calls[u])))
  BY <1>3 DEF CallFails
<1>4. CASE Refresh(u)
  BY <1>4 DEF Refresh
<1> QED
  BY <1>1, <1>2, <1>3, <1>4 DEF TabStep

LEMMA OthersStep ==
    ASSUME WorkspaceInv, NEW t \in Tab, BucketInv(t), Undisturbed(t),
           NEW u \in Tab \ {t}, TabStep(u)
    PROVE  BucketInv(t)'
<1>1. op'[t] = op[t] /\ calls'[t] = calls[t] /\ content'[t] = content[t]
  BY StepFrame
<1>2. CASE calls[t] = <<>>
  BY <1>1, <1>2, NothingLeft DEF BucketInv
<1>3. CASE calls[t] # <<>>
  <2>1. bucket'[op[t].key] = bucket[op[t].key] /\ bucket'[op[t].newKey] = bucket[op[t].newKey]
    <3>1. CASE bucket' = bucket
      BY <3>1
    <3>2. CASE calls[u] # <<>> /\ Effect(u, Head(calls[u]))
      <4>1. {op[t].key, op[t].newKey} \cap {op[u].key, op[u].newKey} = {}
        BY <1>3, <3>2 DEF Undisturbed, Keys
      <4>2. op[t].key \in Key /\ op[t].newKey \in Key
        BY <1>3, TabFacts
      <4> QED
        BY <3>2, <4>1, <4>2, TypeFacts DEF Effect, WorkspaceInv
    <3> QED
      BY <3>1, <3>2, StepFrame
  <2> QED
    BY <1>1, <2>1 DEF BucketInv
<1> QED
  BY <1>2, <1>3

LEMMA BucketStep ==
    ASSUME WorkspaceInv, NEW t \in Tab, BucketInv(t), Undisturbed(t), [Next]_vars
    PROVE  BucketInv(t)'
<1>1. CASE Next
  BY <1>1, NextIsTabStep, OwnStep, OthersStep
<1>2. CASE UNCHANGED vars
  BY <1>2 DEF vars, BucketInv
<1> QED
  BY <1>1, <1>2

LEMMA BucketHolds ==
    ASSUME NEW t \in Tab
    PROVE  Spec /\ []Undisturbed(t) => []BucketInv(t)
<1>1. Init => BucketInv(t)
  BY InitEstablishes
<1>2. WorkspaceInv /\ BucketInv(t) /\ Undisturbed(t) /\ [Next]_vars => BucketInv(t)'
  BY BucketStep
<1> QED
  BY <1>1, <1>2, InvariantHolds, PTL DEF Spec

\* What a call of a rename or of an overwrite does to the files.
LEMMA EffectOnFiles ==
    ASSUME WorkspaceInv, NEW t \in Tab, BucketInv(t),
           calls[t] # <<>>, Effect(t, Head(calls[t]))
    PROVE  /\ op[t].kind = "rename" /\ op[t].key \in Files \ Files' =>
                  bucket'[op[t].newKey] = bucket[op[t].key] \/ op[t].newKey = op[t].key
           /\ op[t].kind = "overwrite" => Names \subseteq Names'
<1> DEFINE call == Head(calls[t])
<1>1. /\ op[t].kind \in Kind \ {"none"} /\ calls[t] \in CallsOf(op[t].kind)
      /\ op[t].key \in Key /\ op[t].newKey \in Key
      /\ calls[t] \in WillUpload => content[t] \in Document
      /\ call \in {"load", "upload", "delete", "list"}
  BY TabFacts
<1>2. /\ call = "upload" => calls[t] \in WillUpload
      /\ call = "delete" => calls[t] = Remove
  BY <1>1, NextCalls
<1>3. bucket \in [Key -> Document \cup {"none"}] /\ bucket' \in [Key -> Document \cup {"none"}]
  BY TypeFacts, EffectType DEF WorkspaceInv
<1>4. CASE call \in {"load", "list"}
  <2>1. bucket' = bucket
    BY <1>4 DEF Effect
  <2> QED
    BY <2>1 DEF Files, Names
<1>5. CASE call = "upload"
  <2>1. bucket' = [bucket EXCEPT ![op[t].newKey] = content[t]] /\ content[t] # "none"
    BY <1>1, <1>2, <1>5, WorkspaceInputs DEF Effect
  <2>2. Files \subseteq Files'
    BY <1>3, <2>1 DEF Files
  <2> QED
    BY <2>2 DEF Names
<1>6. CASE call = "delete"
  <2>1. bucket' = [bucket EXCEPT ![op[t].key] = "none"] /\ calls[t] = Remove
    BY <1>2, <1>6 DEF Effect
  <2>2. op[t].kind = "overwrite" => op[t].newKey # op[t].key
    BY <2>1 DEF WorkspaceInv, OwnInv, WillDelete
  <2>3. op[t].kind = "rename" =>
            bucket'[op[t].newKey] = bucket[op[t].key] \/ op[t].newKey = op[t].key
    BY <1>1, <1>3, <2>1 DEF BucketInv
  <2>4. ASSUME op[t].kind = "overwrite"
        PROVE  Names \subseteq Names'
    <3>1. bucket[op[t].newKey] # "none" /\ op[t].newKey.name = op[t].key.name
      BY <2>1, <2>4 DEF WorkspaceInv, OwnInv, BucketInv
    <3>2. op[t].newKey \in Files'
      BY <1>1, <1>3, <2>1, <2>2, <2>4, <3>1 DEF Files
    <3>3. \A k \in Files : k \in Files' \/ k = op[t].key
      BY <1>3, <2>1 DEF Files
    <3> QED
      BY <3>1, <3>2, <3>3 DEF Names
  <2> QED
    BY <2>3, <2>4
<1> QED
  BY <1>1, <1>4, <1>5, <1>6

\* The calls of an operation are made by its own tab.
LEMMA BucketSteps ==
    ASSUME WorkspaceInv, [Next]_vars, NEW t \in Tab, StepOf(t)
    PROVE  \/ bucket' = bucket
           \/ calls[t] # <<>> /\ Effect(t, Head(calls[t]))
<1>1. calls' # calls
  BY DEF StepOf
<1>2. PICK u \in Tab : TabStep(u)
  BY <1>1, NextIsTabStep DEF vars
<1>3. u = t
  BY <1>2, StepFrame DEF StepOf
<1> QED
  BY <1>2, <1>3, StepFrame

RenameKeeps(t) ==
    op[t].kind = "rename" /\ StepOf(t) /\ op[t].key \in Files \ Files' =>
        \/ bucket'[op[t].newKey] = bucket[op[t].key]
        \/ op[t].newKey = op[t].key

OverwriteKeeps(t) ==
    op[t].kind = "overwrite" /\ StepOf(t) => Names \subseteq Names'

LEMMA OperationsKeep ==
    ASSUME WorkspaceInv, NEW t \in Tab, BucketInv(t), [Next]_vars
    PROVE  RenameKeeps(t) /\ OverwriteKeeps(t)
<1> SUFFICES ASSUME StepOf(t)
             PROVE  RenameKeeps(t) /\ OverwriteKeeps(t)
  BY DEF RenameKeeps, OverwriteKeeps
<1>1. CASE bucket' = bucket
  BY <1>1 DEF RenameKeeps, OverwriteKeeps, Files, Names
<1>2. CASE calls[t] # <<>> /\ Effect(t, Head(calls[t]))
  BY <1>2, EffectOnFiles DEF RenameKeeps, OverwriteKeeps
<1> QED
  BY <1>1, <1>2, BucketSteps

\* A tab whose files nobody else works at while it does: its rename loses the
\* document it moves only if the new key is the old one.  Otherwise a copy is left
\* at whatever call it fails, or is cancelled, and whatever the other tabs do.
THEOREM UndisturbedRenameKeepsDocument ==
    ASSUME NEW t \in Tab
    PROVE  Spec /\ []Undisturbed(t) =>
               [][op[t].kind = "rename" /\ StepOf(t) /\ op[t].key \in Files \ Files' =>
                      \/ bucket'[op[t].newKey] = bucket[op[t].key]
                      \/ op[t].newKey = op[t].key]_vars
<1>1. WorkspaceInv /\ BucketInv(t) /\ [Next]_vars => RenameKeeps(t)
  BY OperationsKeep
<1>2. Spec /\ []Undisturbed(t) => [][RenameKeeps(t)]_vars
  BY <1>1, InvariantHolds, BucketHolds, PTL DEF Spec
<1> QED
  BY <1>2 DEF RenameKeeps

\* Its overwrite never leaves a name without a file, also when the old key goes
\* because it bears another user's name.
THEOREM UndisturbedNameOutlivesOverwrite ==
    ASSUME NEW t \in Tab
    PROVE  Spec /\ []Undisturbed(t) =>
               [][op[t].kind = "overwrite" /\ StepOf(t) => Names \subseteq Names']_vars
<1>1. WorkspaceInv /\ BucketInv(t) /\ [Next]_vars => OverwriteKeeps(t)
  BY OperationsKeep
<1>2. Spec /\ []Undisturbed(t) => [][OverwriteKeeps(t)]_vars
  BY <1>1, InvariantHolds, BucketHolds, PTL DEF Spec
<1> QED
  BY <1>2 DEF OverwriteKeeps

-----------------------------------------------------------------------------
(* The properties the run checks are about every tab, hence all of them      *)
(* together: they hold when no two tabs ever work at the same file.          *)

Apart == \A t \in Tab : Undisturbed(t)

AllInv == WorkspaceInv /\ \A t \in Tab : BucketInv(t)

LEMMA AllInvariant == Spec /\ []Apart => []AllInv
<1>1. Init => AllInv
  BY InitEstablishes DEF AllInv
<1>2. AllInv /\ Apart /\ [Next]_vars => AllInv'
  BY StepPreserves, BucketStep DEF AllInv, Apart
<1> QED
  BY <1>1, <1>2, PTL DEF Spec

\* As long as no two tabs work at the same file at once, every rename keeps its
\* document; a single tab is never disturbed.
THEOREM ApartRenameKeepsDocument == Spec /\ []Apart => RenameKeepsDocument
<1>1. AllInv /\ [Next]_vars =>
          \A t \in Tab :
              op[t].kind = "rename" /\ StepOf(t) /\ op[t].key \in Files \ Files' =>
                  \/ bucket'[op[t].newKey] = bucket[op[t].key]
                  \/ op[t].newKey = op[t].key
  BY OperationsKeep DEF AllInv, RenameKeeps
<1> QED
  BY <1>1, AllInvariant, PTL DEF Spec, RenameKeepsDocument

\* As long as no two tabs work at the same file at once, every overwrite keeps
\* all names.
THEOREM ApartNameOutlivesOverwrite == Spec /\ []Apart => NameOutlivesOverwrite
<1>1. AllInv /\ [Next]_vars =>
          \A t \in Tab :
              /\ op[t].kind = "overwrite" /\ StepOf(t)
              /\ \A u \in Tab : op[u].kind \notin {"delete", "rename"}
              => Names \subseteq Names'
  BY OperationsKeep DEF AllInv, OverwriteKeeps
<1> QED
  BY <1>1, AllInvariant, PTL DEF Spec, NameOutlivesOverwrite

LEMMA OneTabApart == OneTab => Apart
BY DEF OneTab, Apart, Undisturbed

\* A user alone with one tab: its renames keep their documents.
THEOREM OneTabRenameKeepsDocument ==
    ASSUME OneTab
    PROVE  Spec => RenameKeepsDocument
BY OneTabApart, ApartRenameKeepsDocument, PTL

\* A user alone with one tab: its overwrites keep the names.
THEOREM OneTabNameOutlivesOverwrite ==
    ASSUME OneTab
    PROVE  Spec => NameOutlivesOverwrite
BY OneTabApart, ApartNameOutlivesOverwrite, PTL
=============================================================================
