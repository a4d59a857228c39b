-------------------------- MODULE PreviewTabs_proofs --------------------------
(***************************************************************************)
(* What a remote tab at rest shows, for any documents and options and any  *)
(* remote tabs: the two share one record of the document asked for last,   *)
(* so that it is always the document of one of them.                       *)
(***************************************************************************)
EXTENDS PreviewTabs, TLAPS

OneRemoteTab == \A t, u \in Tabs \cap Remote : t = u

\* What a tab asked for last, or is about to ask for.
Asked(t) == IF timer[t] # None THEN timer[t] ELSE request[t].payload

\* Only a tab that is used asks, and the PDF tab alone records its options.
AskedOptions ==
    \A t \in Remote : Asked(t) # None =>
        t \in Tabs /\ \E d \in Document : Asked(t) = Payload(t, d, previousPdfValues)

\* The record of the document is right for the tab that asked last.
RecordIsOfOne ==
    (\E t \in Remote : Asked(t) # None) =>
        \E last \in Remote :
            Asked(last) # None /\ Asked(last).doc = previousHtmlValues

\* Results and answers are of tabs that have asked.
AnswersAreAsked ==
    /\ \A t \in Remote : t \in rendered \/ request[t].state # "idle" => request[t].payload # None
    /\ \A r \in superseded : r.tab \in Remote /\ request[r.tab].payload # None

\* The effect has run since the last change of document, options or tab.
ActiveIsRecorded ==
    activePreviewTab \in Remote /\ doc \notin Broken =>
        /\ Asked(activePreviewTab) # None
        /\ previousHtmlValues = doc
        /\ activePreviewTab = "pdf" => previousPdfValues = options

RecordInv == AskedOptions /\ RecordIsOfOne /\ AnswersAreAsked /\ ActiveIsRecorded

PreviewInv == TypeOK /\ RecordInv

LEMMA PayloadFacts ==
    ASSUME NEW t \in Remote, NEW d \in Document, NEW o \in Options
    PROVE  /\ Payload(t, d, o) \in Payloads /\ Payload(t, d, o) # None
           /\ Payload(t, d, o).doc = d
<1>1. Payload(t, d, o) \in Payloads /\ Payload(t, d, o).doc = d
  BY DEF Payload, Payloads
<1>2. "options" \in DOMAIN Payload(t, d, o) /\ "options" \notin DOMAIN None
  BY DEF Payload, None
<1> QED
  BY <1>1, <1>2

\* The effect that runs after a render, in the tab that is active then.
LEMMA EffectStep ==
    ASSUME PreviewInv,
           NEW t \in Tabs, NEW d \in Document, NEW o \in Options,
           activePreviewTab' = t, doc' = d, options' = o,
           Effect(t, d, o),
           UNCHANGED <<rendered, request, superseded>>
    PROVE  PreviewInv'
<1>1. TypeOK /\ RecordInv
  BY DEF PreviewInv
<1>2. CASE t \notin Remote \/ d \in Broken \/ Unchanged(t, d, o)
  <2>1. UNCHANGED <<previousHtmlValues, previousPdfValues, timer>>
    BY <1>2 DEF Effect, records
  <2>2. TypeOK'
    BY <1>1, <2>1 DEF TypeOK
  <2>3. \A u \in Remote : Asked(u)' = Asked(u)
    BY <2>1 DEF Asked
  <2>4. ASSUME t \in Remote, d \notin Broken
        PROVE  /\ Asked(t)' # None
               /\ previousHtmlValues' = d
               /\ t = "pdf" => previousPdfValues' = o
    <3>1. /\ previousHtmlValues = d
          /\ t = "pdf" => previousPdfValues = o
          /\ t \in rendered
      BY <1>2, <2>4 DEF Unchanged
    <3>2. Asked(t) # None
      BY <1>1, <2>4, <3>1 DEF RecordInv, AnswersAreAsked, Asked
    <3> QED
      BY <2>1, <2>3, <2>4, <3>1, <3>2
  <2>5. AskedOptions' /\ RecordIsOfOne'
    BY <1>1, <2>1, <2>3 DEF RecordInv, AskedOptions, RecordIsOfOne
  <2>6. AnswersAreAsked'
    BY <1>1 DEF RecordInv, AnswersAreAsked
  <2>7. ActiveIsRecorded'
    BY <2>4 DEF ActiveIsRecorded
  <2> QED
    BY <2>2, <2>5, <2>6, <2>7 DEF PreviewInv, RecordInv
<1>3. CASE t \in Remote /\ d \notin Broken /\ ~Unchanged(t, d, o)
  <2>1. /\ previousHtmlValues' = d
        /\ previousPdfValues' = IF t = "pdf" THEN o ELSE previousPdfValues
        /\ timer' = [timer EXCEPT ![t] = Payload(t, d, o)]
    BY <1>3 DEF Effect
  <2>2. /\ Payload(t, d, o) \in Payloads /\ Payload(t, d, o) # None
        /\ Payload(t, d, o).doc = d
    BY <1>3, PayloadFacts
  <2>3. TypeOK'
    BY <1>1, <2>1, <2>2 DEF TypeOK
  <2>4. timer \in [Remote -> Payloads \cup {None}]
    BY <1>1 DEF TypeOK
  <2>5. Asked(t)' = Payload(t, d, o)
    BY <1>3, <2>1, <2>2, <2>4 DEF Asked
  <2>6. Payload(t, d, o) = Payload(t, d, previousPdfValues')
    BY <2>1 DEF Payload
  <2>7. ASSUME NEW u \in Remote, u # t
        PROVE  Asked(u)' = Asked(u)
    BY <2>1, <2>4, <2>7 DEF Asked
  <2>8. ASSUME NEW u \in Remote, u # t, NEW e
        PROVE  Payload(u, e, previousPdfValues') = Payload(u, e, previousPdfValues)
    BY <1>3, <2>1, <2>8 DEF Payload, Remote
  <2>9. AskedOptions'
    BY <1>1, <1>3, <2>5, <2>6, <2>7, <2>8 DEF RecordInv, AskedOptions
  <2>10. RecordIsOfOne'
    BY <1>3, <2>1, <2>2, <2>5 DEF RecordIsOfOne
  <2>11. AnswersAreAsked'
    BY <1>1 DEF RecordInv, AnswersAreAsked
  <2>12. ActiveIsRecorded'
    BY <2>1, <2>2, <2>5 DEF ActiveIsRecorded
  <2> QED
    BY <2>3, <2>9, <2>10, <2>11, <2>12 DEF PreviewInv, RecordInv
<1> QED
  BY <1>2, <1>3

LEMMA PreviewStep ==
    ASSUME PreviewInv, [Next]_vars
    PROVE  PreviewInv'
<1>1. TypeOK /\ RecordInv
  BY DEF PreviewInv
<1>2. /\ timer \in [Remote -> Payloads \cup {None}]
      /\ request \in [Remote -> [payload : Payloads \cup {None},
                                 state : {"idle", "pending"} \cup Outcomes]]
      /\ superseded \subseteq [tab : Remote, payload : Payloads]
      /\ doc \in Document /\ options \in Options /\ activePreviewTab \in Tabs
  BY <1>1 DEF TypeOK
<1>3. ASSUME NEW d \in Document, Edit(d)
      PROVE  PreviewInv'
  BY <1>2, <1>3, EffectStep DEF Edit
<1>4. ASSUME NEW o \in Options, SetPdfOptions(o)
      PROVE  PreviewInv'
  <2>1. CASE activePreviewTab = "pdf"
    BY <1>2, <1>4, <2>1, EffectStep DEF SetPdfOptions
  <2>2. CASE activePreviewTab # "pdf"
    <3>1. /\ UNCHANGED <<doc, activePreviewTab, previousHtmlValues, previousPdfValues, timer,
                         rendered, request, superseded>>
          /\ options' = o
      BY <1>4, <2>2 DEF SetPdfOptions, records
    <3>2. TypeOK'
      BY <1>1, <3>1 DEF TypeOK
    <3>3. AskedOptions' /\ RecordIsOfOne' /\ AnswersAreAsked'
      BY <1>1, <3>1 DEF RecordInv, AskedOptions, RecordIsOfOne, AnswersAreAsked, Asked
    <3>4. ActiveIsRecorded'
      BY <1>1, <2>2, <3>1 DEF RecordInv, ActiveIsRecorded, Asked
    <3> QED
      BY <3>2, <3>3, <3>4 DEF PreviewInv, RecordInv
  <2> QED
    BY <2>1, <2>2
<1>5. ASSUME NEW t \in Tabs, SwitchTab(t)
      PROVE  PreviewInv'
  BY <1>2, <1>5, EffectStep DEF SwitchTab
<1>6. ASSUME NEW t \in Remote, TimerFires(t)
      PROVE  PreviewInv'
  <2>1. /\ timer[t] # None /\ timer[t] \in Payloads
        /\ timer' = [timer EXCEPT ![t] = None]
        /\ request' = [request EXCEPT ![t] = [payload |-> timer[t], state |-> "pending"]]
        /\ UNCHANGED <<doc, options, activePreviewTab, previousHtmlValues, previousPdfValues,
                       rendered>>
    BY <1>2, <1>6 DEF TimerFires, Due, records
  <2>2. superseded' \subseteq [tab : Remote, payload : Payloads]
    <3>1. request[t].state = "pending" => request[t].payload \in Payloads
      BY <1>1, <1>2 DEF RecordInv, AnswersAreAsked
    <3> QED
      BY <1>2, <1>6, <3>1 DEF TimerFires
  <2>3. TypeOK'
    BY <1>1, <1>2, <2>1, <2>2 DEF TypeOK
  <2>4. \A u \in Remote : Asked(u)' = Asked(u)
    BY <1>2, <2>1 DEF Asked
  <2>5. \A u \in Remote : request[u].payload # None \/ u = t => request'[u].payload # None
    BY <1>2, <2>1
  <2>6. \A r \in superseded' : r \in superseded \/ r.tab = t
    BY <1>6 DEF TimerFires
  <2>7. \A u \in Remote \ {t} : request'[u] = request[u]
    BY <1>2, <2>1
  <2>8. AskedOptions' /\ RecordIsOfOne' /\ ActiveIsRecorded'
    BY <1>1, <2>1, <2>4 DEF RecordInv, AskedOptions, RecordIsOfOne, ActiveIsRecorded
  <2>9. AnswersAreAsked'
    BY <1>1, <1>6, <2>1, <2>5, <2>6, <2>7 DEF RecordInv, AnswersAreAsked
  <2> QED
    BY <2>3, <2>8, <2>9 DEF PreviewInv, RecordInv
<1>7. ASSUME NEW t \in Remote, NEW outcome \in Outcomes, Answered(t, outcome)
      PROVE  PreviewInv'
  <2>1. /\ request[t].state = "pending"
        /\ request' = [request EXCEPT ![t].state = outcome]
        /\ rendered' \subseteq rendered \cup {t}
        /\ UNCHANGED <<doc, options, activePreviewTab, previousHtmlValues, previousPdfValues,
                       timer, superseded>>
    BY <1>7 DEF Answered, records
  <2>2. \A u \in Remote : request'[u].payload = request[u].payload
    BY <1>2, <2>1
  <2>3. \A u \in Remote : u # t => request'[u] = request[u]
    BY <1>2, <2>1
  <2>4. TypeOK'
    BY <1>1, <1>2, <1>7, <2>1 DEF TypeOK
  <2>5. \A u \in Remote : Asked(u)' = Asked(u)
    BY <2>1, <2>2 DEF Asked
  <2>6. AskedOptions' /\ RecordIsOfOne' /\ ActiveIsRecorded'
    BY <1>1, <2>1, <2>5 DEF RecordInv, AskedOptions, RecordIsOfOne, ActiveIsRecorded
  <2>7. AnswersAreAsked'
    BY <1>1, <2>1, <2>2, <2>3 DEF RecordInv, AnswersAreAsked
  <2> QED
    BY <2>4, <2>6, <2>7 DEF PreviewInv, RecordInv
<1>8. ASSUME NEW r \in superseded, NEW outcome \in Outcomes, AnsweredLate(r, outcome)
      PROVE  PreviewInv'
  <2>1. /\ superseded' \subseteq superseded
        /\ rendered' \subseteq rendered \cup {r.tab}
        /\ UNCHANGED <<doc, options, activePreviewTab, previousHtmlValues, previousPdfValues,
                       timer, request>>
    BY <1>8 DEF AnsweredLate, records
  <2>2. r.tab \in Remote
    BY <1>2
  <2>3. TypeOK'
    BY <1>1, <2>1, <2>2 DEF TypeOK
  <2>4. AskedOptions' /\ RecordIsOfOne' /\ ActiveIsRecorded'
    BY <1>1, <2>1 DEF RecordInv, AskedOptions, RecordIsOfOne, ActiveIsRecorded, Asked
  <2>5. AnswersAreAsked'
    BY <1>1, <2>1 DEF RecordInv, AnswersAreAsked
  <2> QED
    BY <2>3, <2>4, <2>5 DEF PreviewInv, RecordInv
<1>9. CASE UNCHANGED vars
  <2>1. UNCHANGED <<doc, options, activePreviewTab, previousHtmlValues, previousPdfValues,
                    rendered, timer, request, superseded>>
    BY <1>9 DEF vars, records
  <2>2. TypeOK'
    BY <1>1, <2>1 DEF TypeOK
  <2>3. AskedOptions' /\ RecordIsOfOne' /\ AnswersAreAsked' /\ ActiveIsRecorded'
    BY <1>1, <2>1
       DEF RecordInv, AskedOptions, RecordIsOfOne, AnswersAreAsked, ActiveIsRecorded, Asked
  <2> QED
    BY <2>2, <2>3 DEF PreviewInv, RecordInv
<1> QED
  BY <1>3, <1>4, <1>5, <1>6, <1>7, <1>8, <1>9 DEF Next

LEMMA PreviewInvHolds == Spec => []PreviewInv
<1>1. Init => PreviewInv
  <2> SUFFICES ASSUME Init PROVE PreviewInv
    OBVIOUS
  <2>1. TypeOK
    BY PreviewInputs DEF Init, TypeOK
  <2>2. \A t \in Remote : Asked(t) = None
    BY DEF Init, Asked
  <2>3. activePreviewTab \notin Remote
    BY DEF Init, Remote
  <2>4. AskedOptions /\ RecordIsOfOne /\ AnswersAreAsked /\ ActiveIsRecorded
    BY <2>2, <2>3
       DEF Init, AskedOptions, RecordIsOfOne, AnswersAreAsked, ActiveIsRecorded
  <2> QED
    BY <2>1, <2>4 DEF PreviewInv, RecordInv
<1>2. PreviewInv /\ [Next]_vars => PreviewInv'
  BY PreviewStep
<1> QED
  BY <1>1, <1>2, PTL DEF Spec

\* Whoever has asked last has asked for the document as it is: the tab that is open,
\* or the other remote tab, whose request or timer then holds it.
LEMMA QuietTab ==
    ASSUME PreviewInv, activePreviewTab \in Remote, doc \notin Broken,
           timer[activePreviewTab] = None
    PROVE  /\ activePreviewTab \in Tabs
           /\ \E old \in Document :
                 request[activePreviewTab].payload = Payload(activePreviewTab, old, options)
           /\ \/ request[activePreviewTab].payload = Payload(activePreviewTab, doc, options)
              \/ \E other \in (Tabs \cap Remote) \ {activePreviewTab} :
                    doc \in {timer[other].doc, request[other].payload.doc}
<1> DEFINE t == activePreviewTab
<1>1. TypeOK /\ RecordInv /\ t \in Tabs
  BY DEF PreviewInv, TypeOK
<1>2. /\ Asked(t) # None /\ Asked(t) = request[t].payload
      /\ previousHtmlValues = doc
      /\ t = "pdf" => previousPdfValues = options
  BY <1>1 DEF RecordInv, ActiveIsRecorded, Asked
<1>3. PICK old \in Document : Asked(t) = Payload(t, old, previousPdfValues)
  BY <1>1, <1>2 DEF RecordInv, AskedOptions
<1>4. \A d : Payload(t, d, previousPdfValues) = Payload(t, d, options)
  BY <1>2 DEF Payload
<1>5. request[t].payload = Payload(t, old, options)
  BY <1>2, <1>3, <1>4
<1>6. PICK last \in Remote : Asked(last) # None /\ Asked(last).doc = doc
  BY <1>1, <1>2 DEF RecordInv, RecordIsOfOne
<1>7. CASE last = t
  <2>1. old = doc
    BY <1>1, <1>2, <1>5, <1>6, <1>7, PayloadFacts DEF TypeOK
  <2> QED
    BY <1>1, <1>5, <2>1
<1>8. CASE last # t
  <2>1. last \in (Tabs \cap Remote) \ {t}
    BY <1>1, <1>6, <1>8 DEF RecordInv, AskedOptions
  <2>2. doc \in {timer[last].doc, request[last].payload.doc}
    BY <1>6 DEF Asked
  <2> QED
    BY <1>1, <1>5, <2>1, <2>2
<1> QED
  BY <1>7, <1>8

\* Preview.tsx, for any number of documents and options, any remote tabs and any order
\* of edits, timers and answers: a tab at rest is current, but for a document that the
\* other remote tab asked for in its place.
THEOREM QuietCurrent == Spec => []QuietTabIsCurrent
<1>1. PreviewInv => QuietTabIsCurrent
  BY QuietTab DEF QuietTabIsCurrent
<1> QED
  BY <1>1, PreviewInvHolds, PTL

\* With one remote tab there is no other one to share the record with: it never stays
\* with an older document.
THEOREM OneTabIsCurrent ==
    ASSUME OneRemoteTab
    PROVE  Spec => [](activePreviewTab \in Remote /\ doc \notin Broken
                          /\ timer[activePreviewTab] = None =>
                      request[activePreviewTab].payload = Payload(activePreviewTab, doc, options))
<1>1. PreviewInv => (activePreviewTab \in Remote /\ doc \notin Broken
                         /\ timer[activePreviewTab] = None =>
                     request[activePreviewTab].payload = Payload(activePreviewTab, doc, options))
  BY QuietTab DEF OneRemoteTab
<1> QED
  BY <1>1, PreviewInvHolds, PTL
=============================================================================
