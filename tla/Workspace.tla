------------------------------ MODULE Workspace ------------------------------
(***************************************************************************)
(* The shared workspace of the preview web: apps/preview-web/components/   *)
(* workspace with actions/gcp-bucket.ts.  Files lie in a bucket under a    *)
(* key that holds name, tags and the user who saved last.  Save, overwrite,*)
(* rename and delete are sequences of calls to the bucket; each call is    *)
(* atomic, may fail before or after it took effect, and other browser tabs *)
(* make theirs in between.                                                 *)
(*                                                                         *)
(* A tab has one operation under way at a time.  The forms keep no state   *)
(* here: a save is given what was typed, and whether the tag field was     *)
(* left after the name had been checked.                                   *)
(***************************************************************************)
EXTENDS Naturals, Sequences

CONSTANTS
    Tab,
    User,
    UserOf,      \* the name in the session of a tab
    Name,
    Tags,        \* what the tags of a file may be: "empty", "some" or both
    Document,
    Blanks       \* whether a name may be typed with a blank at its end

NoUser == "nobody"

ASSUME WorkspaceInputs ==
    /\ NoUser \notin User
    /\ UserOf \in [Tab -> User \cup {NoUser}]
    /\ Tags \subseteq {"empty", "some"} /\ "empty" \in Tags
    /\ Blanks \subseteq BOOLEAN
    /\ "none" \notin Document

VARIABLES
    bucket,      \* the document under each key, or "none"
    list,        \* the keys a tab shows
    op,          \* the operation of a tab
    calls,       \* the calls it has still to make, in order
    content      \* the document it is going to upload

vars == <<bucket, list, op, calls, content>>

\* FileInfo.  "Very legacy: filename.md" has neither a tags nor a user section.
Key == [name : Name, tags : Tags, user : User \cup {NoUser}]
           \cup [name : Name, tags : {"absent"}, user : {NoUser}]

Files == {k \in Key : bucket[k] # "none"}
Names == {k.name : k \in Files}

\* The bucket may hold some files already; a tab has listed nothing yet.
Init ==
    /\ \E k, l \in Key, d, e \in Document \cup {"none"} :
          bucket = [j \in Key |-> IF j = k THEN d ELSE IF j = l THEN e ELSE "none"]
    /\ list = [t \in Tab |-> {}]
    /\ op = [t \in Tab |-> [kind |-> "none"]]
    /\ calls = [t \in Tab |-> <<>>]
    /\ content = [t \in Tab |-> "none"]

-----------------------------------------------------------------------------
(* Pieces of the handlers.  An operator whose name ends in _bug is the       *)
(* mistake that a mutant of PROJECT.json puts in the place of the operator   *)
(* below it; no specification uses it.                                       *)

\* extractTags finds no tags where there is no tags section.
TagsOf(k) == IF k.tags = "absent" THEN "empty" ELSE k.tags

\* createKey, in the name of the current user.
KeyFor(t, n, g) == [name |-> n, tags |-> g, user |-> UserOf[t]]

\* filenameExistsInKeys: a very legacy key does not count, and a name with a
\* blank at its end is another name.
FilenameExists(t, n, blank) ==
    ~blank /\ \E k \in list[t] : k.name = n /\ k.tags # "absent"

\* customErrorMessage is empty: handleAddTag clears what isFilenameValid has set.
NameAccepted(t, n, blank, tagFieldLeft) ==
    tagFieldLeft \/ ~FilenameExists(t, n, blank)

CleanOld_bug(k, newKey) == TRUE

\* "If the key has changed (because of a different user), delete the old file
\* to prevent duplicates"
CleanOld(k, newKey) == newKey # k

OverwriteCalls(k, newKey) ==
    IF CleanOld(k, newKey) THEN <<"upload", "delete", "list">> ELSE <<"upload", "list">>

RenameCalls_bug == <<"load", "delete", "upload", "list">>

RenameCalls == <<"load", "upload", "delete", "list">>

Idle(t) == calls[t] = <<>>

Begin(t, kind, k, newKey, sequence) ==
    /\ op' = [op EXCEPT ![t] = [kind |-> kind, key |-> k, newKey |-> newKey]]
    /\ calls' = [calls EXCEPT ![t] = sequence]
    /\ UNCHANGED <<bucket, list>>

-----------------------------------------------------------------------------
(* What the user clicks.                                                     *)

SaveNew(t, n, blank, g, tagFieldLeft, d) ==
    /\ Idle(t)
    /\ NameAccepted(t, n, blank, tagFieldLeft)
    /\ Begin(t, "save", KeyFor(t, n, g), KeyFor(t, n, g), <<"upload", "list">>)
    /\ content' = [content EXCEPT ![t] = d]

Overwrite(t, k, d) ==
    LET newKey == KeyFor(t, k.name, TagsOf(k))
    IN  /\ Idle(t)
        /\ Begin(t, "overwrite", k, newKey, OverwriteCalls(k, newKey))
        /\ content' = [content EXCEPT ![t] = d]

\* areFilenameAndTagsUnchanged
Untouched(k, n, blank, g) == n = k.name /\ ~blank /\ g = k.tags

\* A name that was not typed is not checked; one that was is trimmed afterwards.
Rename(t, k, n, blank, g, tagFieldLeft) ==
    /\ Idle(t)
    /\ ~Untouched(k, n, blank, g)
    /\ (n = k.name /\ ~blank) \/ NameAccepted(t, n, blank, tagFieldLeft)
    /\ Begin(t, "rename", k, KeyFor(t, n, g), RenameCalls)
    /\ UNCHANGED content

Delete(t, k) ==
    /\ Idle(t)
    /\ Begin(t, "delete", k, k, <<"delete", "list">>)
    /\ UNCHANGED content

\* Cancel, or closing the overlay: the callback that would delete the old file
\* of a rename, and with it fetch the list, is not called any more.
CancelRename(t) ==
    /\ op[t].kind = "rename"
    /\ Len(calls[t]) > 2
    /\ calls' = [calls EXCEPT ![t] = IF Head(@) = "load" THEN <<"load", "upload">>
                                                         ELSE <<"upload">>]
    /\ UNCHANGED <<bucket, list, op, content>>

-----------------------------------------------------------------------------
(* The calls.                                                                *)

\* What a call does to the bucket; delete ignores that there is no such file.
Effect(t, call) ==
    bucket' = CASE call = "upload" -> [bucket EXCEPT ![op[t].newKey] = content[t]]
                [] call = "delete" -> [bucket EXCEPT ![op[t].key] = "none"]
                [] OTHER -> bucket

CallSucceeds(t) ==
    /\ calls[t] # <<>>
    /\ LET call == Head(calls[t])
       IN  /\ call = "load" => op[t].key \in Files
           /\ Effect(t, call)
           /\ content' = [content EXCEPT ![t] = IF call = "load" THEN bucket[op[t].key] ELSE "none"]
           /\ list' = IF call = "list" THEN [list EXCEPT ![t] = Files] ELSE list
    /\ calls' = [calls EXCEPT ![t] = Tail(@)]
    /\ UNCHANGED op

\* The call fails, its answer is lost, or the page is left: nothing follows.
CallFails(t, tookEffect) ==
    /\ calls[t] # <<>>
    /\ IF tookEffect THEN Effect(t, Head(calls[t])) ELSE UNCHANGED bucket
    /\ calls' = [calls EXCEPT ![t] = <<>>]
    /\ content' = [content EXCEPT ![t] = "none"]
    /\ UNCHANGED <<list, op>>

\* React Query fetches the list whenever the window gets the focus.
Refresh(t) ==
    /\ list' = [list EXCEPT ![t] = Files]
    /\ UNCHANGED <<bucket, op, calls, content>>

Click(t) ==
    \/ \E n \in Name, blank \in Blanks, g \in Tags, left \in BOOLEAN :
          \/ \E d \in Document : SaveNew(t, n, blank, g, left, d)
          \/ \E k \in list[t] : Rename(t, k, n, blank, g, left)
    \/ \E k \in list[t], d \in Document : Overwrite(t, k, d)
    \/ \E k \in list[t] : Delete(t, k)
    \/ CancelRename(t)

Next ==
    \E t \in Tab :
        \/ Click(t)
        \/ CallSucceeds(t)
        \/ \E tookEffect \in BOOLEAN : CallFails(t, tookEffect)
        \/ Refresh(t)

Spec == Init /\ [][Next]_vars

-----------------------------------------------------------------------------
TypeOK ==
    /\ bucket \in [Key -> Document \cup {"none"}]
    /\ list \in [Tab -> SUBSET Key]
    /\ op \in [Tab -> [kind : {"none"}]
                    \cup [kind : {"save", "overwrite", "rename", "delete"}, key : Key, newKey : Key]]
    /\ calls \in [Tab -> Seq({"load", "upload", "delete", "list"})]
    /\ content \in [Tab -> Document \cup {"none"}]

\* The steps of a tab's operation that reach the bucket.
StepOf(t) == calls[t] # <<>> /\ calls'[t] # calls[t]

\* A rename moves a document: what it removes under the old key is there under
\* the new one, whichever of its calls fail and whether or not it is cancelled;
\* unless the new key is the old one, which a blank at the end of the name hides.
RenameKeepsDocument ==
    [][\A t \in Tab :
           op[t].kind = "rename" /\ StepOf(t) /\ op[t].key \in Files \ Files' =>
               \/ bucket'[op[t].newKey] = bucket[op[t].key]
               \/ op[t].newKey = op[t].key]_vars

\* An overwrite replaces a file, under another key if need be: as long as nobody
\* deletes or renames, no step of it takes the last file of a name away.
NameOutlivesOverwrite ==
    [][\A t \in Tab :
           /\ op[t].kind = "overwrite" /\ StepOf(t)
           /\ \A u \in Tab : op[u].kind \notin {"delete", "rename"}
           => Names \subseteq Names']_vars
=============================================================================
