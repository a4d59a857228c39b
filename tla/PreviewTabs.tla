----------------------------- MODULE PreviewTabs -----------------------------
(***************************************************************************)
(* The previews of the editor: apps/preview-web/components/editor/         *)
(* Preview.tsx with hooks/useDebouncedMutation.ts.                         *)
(*                                                                         *)
(* Two of the tabs show what the API renders.  An effect that runs after   *)
(* a render of the component decides whether the active tab needs a new    *)
(* document and starts its debounce timer; the timer sends the request.    *)
(* React Query shows the state of the request sent last and still runs     *)
(* onSuccess for the ones it superseded.                                   *)
(*                                                                         *)
(* A document stands for everything the two remote tabs have in common:    *)
(* Markdown, variables, template and template arguments.                   *)
(***************************************************************************)
EXTENDS Naturals, FiniteSets

CONSTANTS
    Document,
    Broken,         \* documents that do not parse
    Options,        \* PDF options
    Tabs            \* the tabs that are used

Remote == {"pdf", "html-remote"}

ASSUME PreviewInputs ==
    /\ Document # {} /\ Options # {}
    /\ Broken \subseteq Document
    /\ "md" \in Tabs
    /\ Tabs \subseteq {"md", "html"} \cup Remote

VARIABLES
    doc, options, activePreviewTab,
    previousHtmlValues, previousPdfValues,
    rendered,       \* tabs whose result ref (pdfUrlRef, remoteHtmlRef) is set
    timer,          \* what the debounce timer of a tab is going to send
    request,        \* the request of a tab sent last
    superseded      \* earlier requests that have not been answered

records == <<previousHtmlValues, previousPdfValues>>
vars == <<doc, options, activePreviewTab, records, rendered, timer, request, superseded>>

\* buildPreviewRequest: only the PDF depends on the PDF options.
Payload(tab, d, o) == IF tab = "pdf" THEN [doc |-> d, options |-> {o}]
                                     ELSE [doc |-> d, options |-> {}]

None == [doc |-> "none"]
Payloads == [doc : Document, options : {{}} \cup {{o} : o \in Options}]

Init ==
    /\ doc \in Document \ Broken
    /\ options \in Options
    /\ activePreviewTab = "md"
    /\ previousHtmlValues = doc
    /\ previousPdfValues = options
    /\ rendered = {}
    /\ timer = [t \in Remote |-> None]
    /\ request = [t \in Remote |-> [payload |-> None, state |-> "idle"]]
    /\ superseded = {}

-----------------------------------------------------------------------------
\* An operator whose name ends in _bug is the mistake that the mutant of
\* PROJECT.json puts in the place of the operator below it.
Unchanged_bug(tab, d, o) == previousHtmlValues = d /\ tab \in rendered

\* "Check if any of the payload values have changed since the last render"
Unchanged(tab, d, o) ==
    /\ previousHtmlValues = d
    /\ tab = "pdf" => previousPdfValues = o
    /\ tab \in rendered

\* The effect of the active tab, run with the values of the new render.
Effect(tab, d, o) ==
    IF tab \notin Remote \/ d \in Broken \/ Unchanged(tab, d, o)
    THEN UNCHANGED <<records, timer>>
    ELSE /\ previousHtmlValues' = d
         /\ previousPdfValues' = IF tab = "pdf" THEN o ELSE previousPdfValues
         /\ timer' = [timer EXCEPT ![tab] = Payload(tab, d, o)]

Edit(d) ==
    /\ d # doc
    /\ doc' = d
    /\ Effect(activePreviewTab, d, options)
    /\ UNCHANGED <<options, activePreviewTab, rendered, request, superseded>>

\* Only the effect of the PDF tab depends on the options.
SetPdfOptions(o) ==
    /\ o # options
    /\ options' = o
    /\ IF activePreviewTab = "pdf" THEN Effect("pdf", doc, o)
                                   ELSE UNCHANGED <<records, timer>>
    /\ UNCHANGED <<doc, activePreviewTab, rendered, request, superseded>>

SwitchTab(t) ==
    /\ t # activePreviewTab
    /\ activePreviewTab' = t
    /\ Effect(t, doc, options)
    /\ UNCHANGED <<doc, options, rendered, request, superseded>>

\* The timer of the tab is running, and was not cleared.
Due(t) == timer[t] # None

\* mutate: the tab now follows the new request.
TimerFires(t) ==
    /\ Due(t)
    /\ timer' = [timer EXCEPT ![t] = None]
    /\ request' = [request EXCEPT ![t] = [payload |-> timer[t], state |-> "pending"]]
    /\ superseded' = IF request[t].state = "pending"
                     THEN superseded \cup {[tab |-> t, payload |-> request[t].payload]}
                     ELSE superseded
    /\ UNCHANGED <<doc, options, activePreviewTab, records, rendered>>

Answered(t, outcome) ==
    /\ request[t].state = "pending"
    /\ request' = [request EXCEPT ![t].state = outcome]
    /\ rendered' = IF outcome = "success" THEN rendered \cup {t} ELSE rendered
    /\ UNCHANGED <<doc, options, activePreviewTab, records, timer, superseded>>

AnsweredLate(r, outcome) ==
    /\ superseded' = superseded \ {r}
    /\ rendered' = IF outcome = "success" THEN rendered \cup {r.tab} ELSE rendered
    /\ UNCHANGED <<doc, options, activePreviewTab, records, timer, request>>

Outcomes == {"success", "error"}

Next ==
    \/ \E d \in Document : Edit(d)
    \/ \E o \in Options : SetPdfOptions(o)
    \/ \E t \in Tabs : SwitchTab(t)
    \/ \E t \in Remote : TimerFires(t)
    \/ \E t \in Remote, outcome \in Outcomes : Answered(t, outcome)
    \/ \E r \in superseded, outcome \in Outcomes : AnsweredLate(r, outcome)

Spec == Init /\ [][Next]_vars

-----------------------------------------------------------------------------
TypeOK ==
    /\ doc \in Document
    /\ options \in Options
    /\ activePreviewTab \in Tabs
    /\ previousHtmlValues \in Document
    /\ previousPdfValues \in Options
    /\ rendered \subseteq Remote
    /\ timer \in [Remote -> Payloads \cup {None}]
    /\ request \in [Remote -> [payload : Payloads \cup {None},
                               state : {"idle", "pending"} \cup Outcomes]]
    /\ superseded \subseteq [tab : Remote, payload : Payloads]

\* A remote tab that is open and waits for nothing has asked for the document
\* and the options as they are now, whatever was edited before on which tab and
\* in which order answers came; unless it keeps an older document because the
\* other remote tab, with which it shares one record of what was rendered, has
\* asked for the new one.
QuietTabIsCurrent ==
    LET t == activePreviewTab
    IN  t \in Remote /\ doc \notin Broken /\ timer[t] = None =>
            \/ request[t].payload = Payload(t, doc, options)
            \/ \E other \in (Tabs \cap Remote) \ {t}, old \in Document :
                  /\ request[t].payload = Payload(t, old, options)
                  /\ doc \in {timer[other].doc, request[other].payload.doc}
=============================================================================
