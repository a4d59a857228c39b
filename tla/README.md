# Formal models of brevgen2

TLA+ specifications of the parts of brevgen2 where order, time, failure or
several actors decide whether the program is right; configurations with which
TLC checks them on small instances; and proofs, checked by TLAPS, that the most
important properties hold for every value of the constants.

* [The system and its components](#the-system-and-its-components)
* [Modules](#modules)
* [Runs](#runs)
* [Fairness](#fairness)
* [Proofs](#proofs)
* [Disagreements found](#disagreements-found)
* [What the models leave out](#what-the-models-leave-out)
* [Plan](#plan)
* [Running it](#running-it)

## The system and its components

brevgen2 turns Markdown with variables and conditions into PDF or HTML letters.
A caller (usually an application that uses the NuGet client) posts a document to
the API; the API renders it with a shared Chromium behind an admission queue.
The preview web application is an editor for the letters: it calls the same API
and keeps shared drafts in a bucket.

    NuGet client ──HTTP──▶ route /genererbrev ──▶ scheduler ──▶ browser pool ──▶ Chromium
      retry loop            backstop timer         slots, FIFO    pages, recycle
                                                       │
    kubelet ──probes──▶ /health/* ◀── snapshot ── renderer health
    preview web ──HTTP──▶ route /genererbrev
           └────────────▶ bucket (shared files)

| Component | State it keeps | Operations | What is hard |
|---|---|---|---|
| **Generation scheduler** `apps/api/src/generation/scheduler.ts` | active slot count, FIFO of waiting tasks with a timer and an abort listener each | `schedule()`, abort event, deadline timer, completion and pump | timers race the pump; entries leave from the middle; time is charged by a clock that may be set |
| **Renderer health** `renderer/health.ts`, `http/routes/health.ts` | time of last progress per job, logged state | job events, monitor interval, snapshot for the probes | two views of one state; jobs that hang are replaced and make it look well again |
| **Browser pool** `renderer/browser/get-browser.ts`, `renderer/generate-output.ts`, `utils/timeout.ts` | browser, launch and close promises, reference count, page count, recycle flag | acquire, release, mark unhealthy, recycle, retry with budget | every await is a point where other users interleave |
| **HTTP route and document generator** `http/routes/genererbrev.ts`, `generation/document-generator.ts`, `app.ts`, `server.ts` | open exchanges | refuse, schedule, notice a disconnect, reply, handler timeout, startup check | two timers started at different moments by different layers; late settlements |
| **NuGet client** `nuget-client/BrevgeneratorClient` | attempt number | send, retry after an overload, return, cancel | a retry must not render a document twice |
| **Dynamic Markdown** `packages/dynamic-markdown` | none (pure) | tokenize, build the AST, evaluate, detect variables | nesting scanned twice, values that are templates, undefined and self-referring variables, line numbers of errors |
| **Render config and templates** `generation/render-config.ts`, `packages/document-templates`, `packages/shared-types` | none (pure) | check a request, choose letter, header and footer, merge options | the same arguments checked in two places, options merged at two levels |
| **NuGet builder, models and converters** `nuget-client/BrevgeneratorClient` | options and template arguments of one builder | steps in any order, `Build` | one object under five interfaces, used again after `Build` |
| **Preview web: editor and preview** `components/editor`, `hooks/useDebouncedMutation.ts` | text, variables, forms of the templates, PDF options, active tab, what was rendered last, debounce timers | edit, fill, paste, load, switch tab, send, receive | answers out of order; forms that are not shown; what a tab shows against what was edited |
| **Preview web: shared workspace** `components/workspace`, `actions/gcp-bucket.ts` | list of files in a cache, files in a bucket | list, save, overwrite, rename, delete | several users, each operation several calls, no transaction |
| **Preview web: repositories and configuration** `actions/git*`, `components/config`, `components/SelectCombobox.tsx` | selected system, branch and file, queries, the list box | list, select, search | late answers in a cascade of selections |
| **Observability and API documentation**, **Presentational components, tests and deployment** | none that the program reads back | | |

What makes each of them correct:

* *Scheduler.* The slot count is exact and bounded; nothing waits while a slot is
  free; the queue holds exactly the unanswered requests, in order of arrival;
  timers and listeners exist exactly for the queued; a task taken from the queue
  has budget left; the total stays below the HTTP backstop; everything queued is
  answered.
* *Health.* Readiness fails only when every slot is stuck; a stall is noticed with
  no job event to trigger it; liveness is lost after readiness; a restart comes
  last and, for a wedged renderer, does come.
* *Browser pool.* One Chromium at a time, never closed under a user; no more pages
  than the cap; the reference count survives every way out of an attempt; a retry
  gets another browser; a deadline of one user costs the others nothing; nobody
  awaits a recycle or launch that is not under way; every
  user ends and the event loop is never starved.
* *Route.* One reply, true of the task; an overload only when nothing was
  rendered; the backstop never cuts off a request that is within its budget.
* *Client.* A document is rendered at most once per call; every call ends.
* *Preview.* A tab at rest has asked for the document as it is.
* *Dynamic Markdown.* What the scanners and the evaluator make of a text is what
  the template means; the variables that are found are the ones that evaluation
  needs; an error names the section of its mistake; a file loads without one.
* *Requests.* What the schema accepts renders, with its options and nobody else's;
  letter and footer agree; a form that is not shown blocks nothing;
  what the builder builds is accepted.
* *Workspace.* A rename keeps its document, and an overwrite the name, whichever
  call fails.
* *Selection.* The branch is one of the selected repository; every selection
  comes to a branch or an error; typing finds an option, and a repeated letter the next.

## Modules

### GenerationScheduler (and BoundedService)

`GenerationScheduler` has one action per handler of the class, because each
handler runs to completion on the event loop. `Schedule(r)` is a call of
`schedule()`, split by its outcome; `AbortQueued(i)` and `DeadlineTimer(i)` are
the two listeners of a queue entry, both through `removeQueuedTask`; and
`TaskSettles(r, outcome)` is the end of a task with its `finally` block: the slot
is freed, `health.complete` is called and `startPendingTasks` shifts the queue.
The `while` loop of the pump is not unrolled into steps (nothing can come in
between): `Shifts(active)` is the number of entries it takes off, the least for
which its condition is false.

Time is kept per request, relative to it. `age` is monotonic time, as
`setTimeout` and the renderer's budget see it; `waited` is what `now() -
enqueuedAt` would be. `Tick` advances both, `ClockStep(d)` the second alone, as
setting the clock behind `Date.now` does. `TimerLag` is how late the event loop
may run a due timer. The constructor's checks are the assumption
`SchedulerLimits`.

`BoundedService` is what callers are promised, with no queue, timer or counter in
it: a bounded number of places, a bounded number of seats, and nobody waiting
while a place is free. `ImplementsService` maps the scheduler's `status` onto it.

### RendererHealth and HealthProbes

`RendererHealth` is the class: progress times per job, `evaluate()` at the end of
each event, `Snapshot` as `getSnapshot()` computes it. It has no specification of
its own; `HealthProbes` composes its actions with the jobs in the slots (with
their budgets) and with a kubelet that probes readiness and liveness by the
periods and failure counts of `.nais/api.yaml`. The kubelet is external. `Wedge`
marks the moment from which no job progresses and the queue refills each slot
that is freed.

### BrowserPool

The code of `acquire()`, `runAttempt()` and `useBrowserWithRetry()`, cut at every
`await`. An action is one continuation at the head of the microtask queue, or one
macrotask (Chromium's answer, a timer) when that queue is empty. This distinction
matters: a loop whose awaits are all settled promises never lets a timer run, and
two properties are about that. `pc` names the continuation a user runs next, or
what it waits for. What a render does inside Chromium is one outcome, `ok` or
`error`. Time is not counted: `DeadlinePasses(u)` is the moment from which
`remainingMs()` throws, `DeadlineTimer(u)` the moment the racing timer runs.
`closeWaiters` and `launchWaiters` are no fields of the pool: they are the races on
the two promises that are still open, in the order in which they would be decided.
`Promise.race` settles once, so a race that its timer has won is no longer among
them (`Undecided`).

### DocumentRoute

Extends the scheduler: every request except `Warmup` is an HTTP exchange, and
`Warmup` is the render of the startup check, before whose success no traffic
arrives. The route's actions take a step of the scheduler and, in the same step,
send the reply the settled promise leads to (`Answer`). `HandlerTimesOut` is
Fastify's handler timeout; the handler goes on behind it, and its late result
goes nowhere.

### BrevgeneratorClient

Extends the route: attempt *a* of call *c* is the exchange `<<c, a>>`. `Send`,
`Retry`, `Return` and `GiveUp` are the paths through the loop of `GenererBrev`.
Cancellation and a broken connection may come at any time; a call that gives up
while it waits closes its connection, which the route may notice later or never.
A document counts as rendered once its task was started.

### DynamicMarkdown, MarkdownParser, MarkdownTemplates, MarkdownEditor and EditorMeaning

The package is cut in two, because the parser is recursive over texts, where the
provers cannot follow. `DynamicMarkdown` is what evaluates and detects
(`EvaluateAST`, `FindMdVariables`, `ParseDynamicMd`) on the trees of a parser that is a
constant, `Parsing`; `MarkdownParser` is the parser (`Tokenize`, `BuildAST`) and gives
that constant its value. Texts are sequences of symbols: the pairs of characters that
the scanners look for are one symbol each, white space is a blank or a line break, and
what the code throws is a record. Both recursions of the first module are functions of
the number of calls that still fit on the stack.

`MarkdownTemplates` is the reference: templates as structures (text, variable,
condition with a body), `Written` as their text, and `Meaning`, which evaluates the
structure and knows nothing of braces, tokens or lines but where a part begins.

`MarkdownEditor` is the reducer of `useDynamicMarkdown.ts` with the inputs of the
variables tab and the loading of texts. Every action parses, as every `dispatch`
does. Filling at random and pasting are one handler that dispatches per
variable; the clipboard answers in a later step, for the variables that were found
when it was asked. What is pasted replaces values, so that a value becomes a
template that names another variable, or itself. It needs `DynamicMarkdown` only;
`EditorMeaning` puts it beside the parser and the reference, and states the properties
that compare them.

### LetterTemplates, EditorForms, ArgsBuilder and RenderRequests

`LetterTemplates` is what the service makes of a request: the schema
(`Accepted`), the templates (`Letter`, `TemplateConfig`) and the merge of options
(`ResolveRenderConfig`). An object of JSON is a function on the keys it has, so that
a spread is `++` and a missing key differs from an empty value.

`EditorForms` has the forms of the two letter templates, the PDF options and
`buildPreviewRequest.ts`; `ArgsBuilder` has the steps of the builder in the NuGet
client. Every step returns the same object under another interface, and C# lets its
user keep all of them: `steps` are the interfaces that the user has. What `Build`
returned shares the builder's objects until `WithConversionOptions` replaces them.

`RenderRequests` composes them with the service. A behaviour follows one sender (a
user of the preview, a user of the builder, or anybody else), and the properties are
about each request that sender could send now.

### PreviewTabs

The two preview tabs that show what the API renders. `Effect` is the body of the
two `useEffect`s of `Preview.tsx` (the same code, once with the PDF options and
once without); the actions that edit, change options or switch tabs run it with
the new values, as React does after a render. `TimerFires` is the debounce timer;
`Answered` settles the request sent last and `AnsweredLate` one it superseded:
React Query shows only the former, but `onSuccess` runs for both. A document
stands for everything both tabs send; `Broken` documents do not parse. Both tabs
compare with one record of the last payload, and `QuietTabIsCurrent` says exactly
what comes of it.

### Workspace

Files lie in a bucket under a key that holds name, tags and the user who saved
last, so that a save of another user moves the file. A click starts an operation
of a tab (`SaveNew`, `Overwrite`, `Rename`, `Delete`), whose calls to the bucket are
in `calls[t]`; `CallSucceeds` makes the first of them, `CallFails` ends the operation
with that call done or not. Tabs interleave between calls, and a tab picks a file
from the list it fetched last. `CancelRename` is the button that unmounts the
rename form: React Query then does not run the callback in which the old file is
deleted. What is typed is abstracted to a name, whether a blank follows it
(`createKey` gets the trimmed name, `isFilenameValid` the other), and whether the
tag field was left since (which clears the message that the name is taken).

### SelectCombobox and RepoSelection

`SelectCombobox` is the list box: keys, mouse, focus, and the search by typed
letters. `RepoSelection` puts the systems into it and follows the selection to the
branches: one query per repository at a time, which is neither cancelled nor waited
for when the selection changes, and which sets the default branch if none was
selected *in the render that started it*. `Reopen` unmounts the panel: its queries
go on, its setters do nothing. Retries of React Query are part of a query, so that
`BranchesFail` is the last of them.

### Naming

An operator whose name ends in `_bug` is a plausible mistake in the operator that
follows it. No specification uses it; `PROJECT.json` lists, per checked property,
the replacement that makes TLC find the property violated. `MC*.tla` hold only
symmetry sets and values for constants.

## Runs

| Run | What it asks | Bounds, and why they are enough |
|---|---|---|
| `scheduler` | structure of slots, queue, timers, listeners and health; budget at start; order; refinement of `BoundedService` | 5 callers on 2 slots and 2 places: the smallest instance with a full queue behind full slots and one caller refused. One jump of the wall clock by 2 either way crosses the queue deadline, which is 2. About 128 000 states. |
| `pool` | safety of the pool when launches, renders, closes and budgets fail | 3 users, 2 pages per browser, 2 attempts: one user holds, one waits, one fails, with the page cap reached by the first two. About 52 000 states. |
| `pool_progress` | users end, recycles happen, the event loop turns, as long as Chromium launches | 2 users and 1 page per browser, so that the second always meets the page cap; 3 attempts as configured. |
| `pool_launch_failure` | users end, when launches may fail: **violated** | 2 users share the failing launch. |
| `health` | readiness, liveness, the logged state | 2 slots; default thresholds in units of 5 s (all configured times are multiples of it); a kubelet that acts on the first failed liveness probe, the harshest for `RestartIsLastResort`. About 74 000 states. |
| `health_configured` | a wedged renderer is restarted, with the values of `.nais/api.yaml`: **violated** | as above, three failures asked for. |
| `client` | replies tell the outcome, the backstop, at most one render per call, calls end; with a steady clock the total of a request stays below the backstop and everything queued is answered | 2 calls with one retry each plus the startup check, on 1 slot and 1 place; queue wait 2, job 3, handler timeout 5. No clock jumps, and no symmetry, because liveness is checked. About 26 000 states. |
| `markdown` | parser and evaluator mean what the template means; detection suffices; lines of errors; files load clean | 16 templates of up to three conditions, nested or touching, before and after text with line breaks, with both kinds of test, comparisons of variables and literals; 4 texts that no template is written as (unclosed, two separators, negated operands); values may be any template with a variable, so values inside one another and cycles occur. The stack has room for `Depth` 6 calls of `evaluateAST`: no text nests more than two, and there are two variables to expand. About 60 000 states. |
| `render` | what is refused and why; what is accepted renders; whose options win; letter and footer agree | `MaxActs` 6 steps of one sender: the shortest path of the builder with a template changed half-way, and of a form left incomplete behind another one, takes five. Fields present, missing, empty or blank; options valid, malformed, unknown. About 282 000 states. |
| `preview` | a resting tab is current, with both remote tabs in use | 3 documents (one broken) and 2 option sets: an edit, an edit back and an edit in between, on either tab. About 929 000 states. |
| `workspace` | renames keep documents, overwrites keep names, with one tab, names that end in a blank included | 2 names, 2 documents, up to 2 files of the user, of another one or of nobody to begin with: source and target of a rename, and a file in its way. Tags are empty: other tags would only be another key. About 80 000 states. |
| `selection` | the branch belongs to the selection; selections settle; typing finds an option | 3 systems of two providers, two of which share a repository, and a branch that only one repository has; two of the three labels share their first letter, so that repeating it has somewhere to go and a third option to go wrong at; `MaxSearch` 2 letters tell a repeated letter from a longer prefix. Pages of 2 options. About 325 000 states. |

In `client` the queue wait of a second call never meets a full queue (one call
runs, one waits). The path through `queue-full` is exercised by `scheduler`, and
covered for any number of calls by the proofs about the composed specification.
The overload that `client` retries on is the queue deadline.

Deadlock is checked in every run but `render`, where a sender stops at `MaxActs`
and other callers do nothing but send. Elsewhere, where nothing is left to do the
clock still goes on or the user may still act, and in `pool`, which has no clock,
the explicit step `AllOver` loops once all users are done.

Bounds: `MaxClockSteps` bounds the number of jumps of the wall clock, `QuietCap`
the silence of a job that is still told apart (beyond it no comparison changes),
`MaxAttempts` the attempts (a bound of the code), `Depth` the nested calls of
`evaluateAST` (in the code, the call stack), `MaxActs` the steps of a sender,
`MaxSearch` the letters typed before the search is cleared. The other counters are
bounded by the guards of the code.

## Fairness

* *Scheduler* (`FairSpec`): weak fairness of `Tick`, of the deadline timers and of
  the end of each running task. Node runs due timers; a task ends because the
  renderer races it against its budget. Nothing is assumed about callers.
* *Pool*: weak fairness of microtasks, strong fairness of launches, closes,
  renders and sleeps. Strong, since a macrotask is enabled only when no microtask
  is ready: the event loop gives a due timer a turn whenever the queue is empty
  again and again. That it is empty again and again is *not* assumed; it is
  `EventLoopTurns`. Every Puppeteer call has a timeout, so launches, closes and
  renders do settle. No fairness of `DeadlinePasses`: progress must not rest on
  budgets running out.
* *Health*: weak fairness of the system as a whole while it runs. Between two
  ticks only a bounded number of steps is possible once the renderer is wedged.
* *Client* (`FairCallSpec`): as the scheduler, plus the handler timeout, the
  startup check, and the client's own next step. Nothing is assumed of the
  handler or of disconnects; a handler that never runs is answered by Fastify's
  timeout.
* *Selection* (`FairSpec`): weak fairness of the end of each branches query, by an
  answer or by a failure: the server actions run under the timeouts of `fetch` and
  React Query gives up after three retries. Nothing is assumed of the user.

## Proofs

Eight modules hold theorems. All are proved for arbitrary constants within the
named assumptions, which are the checks of the constructors and the configuration
(`SchedulerLimits`, `PoolLimits`, `HealthLimits`, `ProbeLimits`, `WarmupIsRequest`,
`ClientLimits`), describe what is typed and clicked (`PreviewInputs`, `WorkspaceInputs`,
`ComboboxInputs`), say that systems, labels and branches are what the forges answer with
(`SelectionInputs`), that the classes of the client have the types of the schema
(`ClientTypes`, `RenderInputs`), or that the parser makes finite trees in which each operand
is the work of `parseOperand` (`MarkdownInputs`; `EditorInputs` says which texts there are);
`Request`, `Call`, `User`, `Name`, `Document` and the sets of texts may be infinite. What a theorem assumes beyond that stands in its statement.

**BrevgeneratorClient_proofs, the scheduler.** None of the safety properties is
inductive alone: the slot count stays exact only if no queued request is started twice, which needs
the queue without duplicates, which needs `Enqueue` to find the request new, and
so on; that work is conserved needs the loop condition of the pump. The inductive
invariant is `Inv == TypeOK /\ SlotsConsistent /\ QueueConsistent`, where the
second says that the running set is finite, counted and bounded and that nothing
waits while a slot is free, and the third that queue, timers, listeners and health
agree with `status`. The lemmas at the head are about the pump: `Shifts` is well
defined, the entries it shifts are distinct and queued, and each it starts takes
one of the free slots. `TypeCorrect`, `SlotsCorrect` (`SlotsInUse`), `QueueCorrect`
(`QueueHoldsTheWaiting`) and `HealthCorrect` follow.

Its second part is about time: `BudgetCorrect` (a task from the queue has
more than `MaxJobDuration - MaxQueueWait` left, whatever the wall clock does),
`AnsweredOnceCorrect`, `OrderCorrect` from the invariant `SortedByAge` (the queue
is sorted by age, which splicing and shifting keep), and three bounds on the time that
a request spends in the scheduler. `QueueWaitBounded` needs nothing of the wall clock,
since the timer of the queue runs on the monotonic one (`QueueTime`). What it is charged
for the wait is measured with the wall clock, so that the total is off by what that was
set back while the request waited (`TimeAddsUp`: `age + budget <= MaxJobDuration` plus
the setbacks so far). `DelayedBySetback` is the bound for setbacks of up to `S` each, and
`TotalCorrect` (`TotalBelowBackstop`) the case of none, however often the clock is set
forward.

Its third part is the refinement. `ServiceImplemented`: initial states map to
initial states and each step to a step or a stutter of `BoundedService`. The work
is in `TaskSettles`, where the entries that the pump starts and turns away must
be exhibited, and either nobody waits afterwards or all places are taken.

**BrowserPool_proofs.** The properties are about who uses which browser; what makes
them inductive is about the event loop. `Inv` has seven parts besides the types. The queue of
microtasks and the two lists of open races hold exactly the users whose label says so, each once
(`QueuesExact`). Those that the end of a launch has woken stand before everybody else in
that queue (`WokenFirst`), so that nobody recycles the browser under them or launches
another one. The
promises, the flag of the pool and the state of each Chromium fit together
(`PoolConsistent`), whoever is suspended on a promise awaits one that is pending
(`WaitersConsistent`), and each user with a browser holds the current one
(`HoldersConsistent`), of which `activeUsers` is the exact number (`Counted`). A browser
that failed a user who will try again is condemned (`FailuresRemembered`). The proof has one
lemma for what each return of `acquire` does (`AcquireEffect`), and one for what
`release` gives back. From it follow `PoolTypeCorrect`, `CountsCorrect`
(`UsersAndPagesCounted`), `OneChromium` (`OneOpenChromium`), `WaitersCorrect`
(`NoLostWaiter`), `FreshBrowser` (`RetryGetsFreshBrowser`) and `DeadlinesAreNoFailures`
(`DeadlineDoesNotRecycle`).

Two theorems say what the runs only hinted at. `AcquireNeverRecycles`: the call of
`recycleIfIdle` in `acquire` never has an effect, since a browser due for recycling still
has users whenever `acquire` finds it. `WedgedForGood`: in the disagreement of the run
`pool_launch_failure`, once a recycle is due while the promise of an earlier one is left
behind, that stays so, and nobody new gets a browser; that the state is reached is what
the run shows. `NeverWedgedWhileLaunching` is its counterpart: without a failed launch
(`NoLaunchFailed`) it is not reached, whatever renders and deadlines do.
`EventLoopAdvances` is the safety half of `EventLoopTurns`: unless the pool is wedged, each
microtask either suspends its user or takes it a step further (`Work`, at most
three for each attempt), so that the loops of `acquire` cannot spin.

**BrevgeneratorClient_proofs, route and client.** `ComposedImplementsScheduler`: each step of client
and route is a step of the scheduler or leaves it alone, so that every theorem
above holds of the composition. `CallTypeCorrect` and `ReplyCorrect` come from
`RouteInv` (the scheduler's invariant, and that an exchange not yet handled has
not been scheduled and each reply agrees with the settled status).
`RendersOnceCorrect` needs in addition `AttemptsInOrder`: an attempt that was left
behind ended in an overload, and of the attempts to come nothing exists yet.
`CancelledCorrect` (`CancelledIsUnseen`) needs `CancelInv`: a request is aborted only
after its connection closed, and a task ends as cancelled only if its request was
aborted, at whichever of the three places it is looked at.

Two theorems are about the timeout of the handler. `EveryHandledIsOwedOrAnswered`: no reply
is lost, an exchange in the handler that has no reply is queued or running. And
`BackstopIsForLateStarts`: if the clock is not set back, the timeout hits only an exchange
that has not been scheduled, or was scheduled so late that the reserve of the timeout over
`MaxJobDuration + TimerLag` was spent before; its lead, the time in the handler before that,
does not change any more (`Lead`).

**HealthProbes_proofs.** `SnapshotMeans` says what a snapshot says without clocks or
least elements: `Stuck(jobs, t)`, every slot is taken by a job silent for longer than
`t`. `SilenceGrows` is the argument: only time makes jobs stuck, by one for each tick.
`StallNoticed` follows from the invariant `LateByLess` (the logged state is wrong by
less than the time since the monitor ran), `DegradesStepwise` from it if the monitor
runs within the recovery grace, `RestartComesLast` from `ProbesFail` (failed
readiness probes and the time since the last add up to the time stuck) if the
failures that readiness needs fit into the recovery grace. The defaults satisfy
both: 5 s and 15 s against 20 s. `StallTakesPodOut` says that readiness is not late either:
under the second assumption a pod stuck for the threshold and the failed probes is out of
the traffic.

`RestartNeverComes` is the safety half of the disagreement of `health_configured`, for all
constants and any number of slots: if threshold, grace and the time of the failures that
liveness asks for reach the generation budget (the defaults: 20 s, 20 s and
2 * 10 s against 50 s), no pod is ever restarted. The invariant `FailuresAreSpent`
follows the budget of each job: one that was silent at the first failed probe has by the
last one spent more than it has.

**PreviewTabs_proofs.** `QuietCurrent` (`QuietTabIsCurrent`): whichever remote tabs are in
use and in whatever order edits, timers and answers come, a tab at rest is current, but for
a document that the other remote tab asked for in its place. `RecordInv` says why: a tab
asks only for what it was shown with, the record of the last payload is always that of
one of the tabs, and for the active one it is up to date. `OneTabIsCurrent` follows: with
one remote tab the exception is empty.

**RenderRequests_proofs.** Two facts carry the module. `SpreadKeys` says which keys
a spread has and whose values. The inductive invariant `Inv` says of the forms that
only the exemption from publicity can be wrong in them (`FormsTyped`), and of the
builder that its arguments belong to classes of the client, and that what was built
is what `Build` looked at, unless the builder was used again (`BuilderTyped`). From
these follow `SendersTyped`, `ShownFormBlocks` and `BuildIsAccepted`. `AcceptedRenders`, `OptionsOverride` and `FooterIsTheReference`
are about every accepted request, whoever sent it: `MergedKeys` follows an option
through both merges, and `ShownBy` explains why a header or footer that turns
itself on is always a valid one of the caller.

**RepoSelection_proofs.** `BranchIsOfSelection` (`BranchFollowsSelection`), for any systems
and branches, from `SelectionInv`: a query that will set the branch is that of the selected
system unless the selection raced it (`StraysAreRaced`), and a system that started its
query has its branch, waits for it, or the query has failed (`BranchIsAwaited`).
`TypingFinds` (`TypingFindsOption`), for any labels: the search goes round the list, so
that what is found is the first match after the mark, and one letter repeated goes on to
another option that starts with it, if there is another (`CycledGoesOn`). `Options` is a recursive function over `System`;
`ListedEquation` shows, by least counterexample, that it is one.

**Workspace_proofs.** For any number of tabs, files, names, users and documents, and for
every call that fails or is cancelled. `OwnInv` is what a tab knows by itself: which calls it
has still to make and that it has a document before it uploads one. It gives
`WorkspaceTypeCorrect`. `BucketInv` is what it takes the bucket to hold before each of these
calls: above all that a file to be deleted is not the one just uploaded, and that the upload
is there when its turn comes. Other tabs may break it, and with two tabs at the same file both
properties fail; but they touch only the files of their own operations (`StepFrame`). So
`UndisturbedRenameKeepsDocument` and `UndisturbedNameOutlivesOverwrite` hold of each tab
whose files nobody else works at meanwhile (`Undisturbed`), whatever goes on elsewhere in the
bucket. The code enforces nothing of the kind, which is why it is an assumption. Of all tabs
together they give `ApartRenameKeepsDocument` and `ApartNameOutlivesOverwrite`, and for a
single tab, which nobody disturbs, `OneTabRenameKeepsDocument` and
`OneTabNameOutlivesOverwrite`. The exception in the first property, a rename to the key that
the file has, stays.

**MarkdownEditor_proofs.** For every set of texts, whatever trees the parser makes of
them. `RecursionOnSegments` shows once that the recursive functions exist; the rest
argues with their equations, by least counterexample. `DetectionComplete`: since no text
nests conditions to the end of the stack, detection finds in nodes what it finds in each of
them. `EvaluationMisses` is the relation between the two functions that the package never
states: if a set of names with values contains those detected in a text and in every value
that is a text itself, evaluation misses no other, at whatever depth and even where it does
not end. The argument is one case for each kind of node and of condition, and names the
exceptions: a literal that stands alone, an operand without a name, and a negated operand of
a comparison. Through the invariant `IInv` (an error about undefined variables is that of the
text and the values shown, and the tab shows the variables of that text, after any handler
that dispatches several times) it gives `DetectionSuffices` (`DetectedVariablesSuffice`), and
for loads `FilesAreLoadedClean` (`FilesLoadClean`), where the values are empty, so that
expansion ends at once.

Only model-checked are the liveness properties, since liveness under fairness is out of
reach for the installed provers (`QueuedIsAnswered`, `EveryUserFinishes`,
`RecycleIsCarriedOut`, `EventLoopTurns`, `EveryCallEnds`, `WedgeLeadsToRestart`,
`SelectionSettles`), and what compares the parser of Dynamic Markdown with the meaning of
templates (`ParseIsMeaning`, `ErrorNamesItsSection`): parser and reference are recursive
operators over texts, about which tlapm cannot reason.

## Disagreements found

| Run | What the code does | What the repository says |
|---|---|---|
| `pool_launch_failure` | without a browser `recycle()` completes before its promise is stored, which is then never cleared; when a second user of the same launch then requests a recycle, none can start and `acquire()` spins in microtasks (`get-browser.ts:222`) | "retrying with a fresh browser on failure" (`get-browser.ts:286`); the test for it has one user |
| `health_configured` | a wedged renderer is unhealthy for 10 s at a time, then its jobs are torn down and the newcomers count as progress; three liveness probes 10 s apart never fail in a row (`health.ts:214`, `.nais/api.yaml:47-51`) | the constructor refuses thresholds with which "the probes would be decorative" (`scheduler.ts:131-132`) |

Two more were seen there and have no run. `get-browser.ts:153` reads the
budget before it attaches to the launch just started, so that a launch that fails
after the budget ran out there is an unhandled rejection (the comment at lines
107-108 states the rule for the render). And the scheduler measures queue waits with
`Date.now` (`scheduler.ts:119`), so that the total can pass the backstop after the
wall clock was set back (`DelayedBySetback` says by how much), while `timeout-budget.ts:6-8` says the wait "eats into the
render budget".

### Known deviations

Where the code does something that its user would hardly expect, the models do it
too, and a property names it as an exception, or the definition says so.

*Dynamic Markdown.* Closing braces that touch (`}}}}`) are miscounted by
`splitLogicToken` (`build.ts:173-211`). The sections of a nested condition get line
numbers that are too small (`build.ts:152`), and a mistake inside the value of a
variable is reported at a line of the value. Values that name one another in a
cycle are expanded until the stack overflows (`evaluate.ts:43`). A bare condition
`undefined` is a literal. Detection takes a leading `!` off the operands of a
comparison and evaluation does not (`detect.ts:42`). An operand that is missing
counts as 0, and a trailing `::` is accepted.

*Editor.* Loading a file sets every word that a condition compares with to the empty
text, as if it were a variable, so that `{{if xyz == abc}}` evaluates differently in
the preview and in the API (`index.tsx:100-106`, `parse.basics.test.ts:199`). The reserved
name of `{{ if }}`, filled by a load, at random or by pasting, blocks the editor until
the next load. The types of variables are not updated by loads, examples and random
values.

*Requests.* `WithConversionOptions` never overrides an author or title, although
`GenererBrevArgsBuilder.cs:95` says that it can (`BuilderSteps.cs:116-121`), and a second
call of it replaces the first. What `Build` returned shares objects with the builder
(`BuilderSteps.cs:161-166`). Arguments of a template that was given up pass `Build` and are
refused by the API (`BuilderSteps.cs:139-159`, `api.ts:20-21`), and so are `merge_css`
without CSS, an unknown medium and options out of range. A legal basis of only
blanks is accepted and printed empty. The number 0 as reference of a `direktorat` letter
is in its footer and not in its letterhead. The preview always sends a format, so
that width and height have no effect, and setting one side of the margin sets the
others to zero.

*Preview.* Both remote tabs compare with one record of the last payload
(`Preview.tsx:160`, `207`), so that a document rendered on one tab leaves the other with
its old one. The HTML tab is off by default.

*Workspace.* A rename to the name the file has, with a blank after it, uploads the
file under its own key and then deletes that key
(`SharedFileListItemRename.tsx:33-39`). Two users who overwrite each other's file of a
name delete each other's upload (`hooks.ts:77`); the run has one tab, and the theorems
about several assume that they do not work at the same file.

*Selection.* A late answer of the first branches query of another repository sets
that one's default branch for the repository now selected
(`components/config/index.tsx:59-61`). When the next system shares the
repository, no branch is set until the window is focused again; a query that was
started by a panel since closed, or by that focus, sets none. Typing on a
closed list opens it at the chosen option and not at the match
(`SelectCombobox.tsx:107-110`), and the first search passes over the first option. When
the list shrinks under the marked option, Enter chooses nothing. A list disabled while
open can still be used with the mouse.

## What the models leave out

* *Logging, metrics, tracing, wording, CSS, template texts*: output only.
* *Rendering inside Chromium*: an outcome. Pages that outlive the user that gave
  them up, and Chromium processes of launches that time out, are outside the state
  the pool keeps; both are listed as hazards without a property.
* *The number of microtask turns* an `async` function takes to hand on a result is
  one here; V8 takes one to three. Order between users follows the order in which
  their promises settled, and no property depends on more.
* *Which token or body the route refuses* is left open there (`Refuse` may always
  happen; what the schema accepts is in `LetterTemplates`), and so is the length of a
  retry delay in the client.
* *Renders of React* run an effect only when one of its dependencies changed. The
  React Compiler memoises the values in between, so that is what happens; an
  effect that ran more often would find nothing changed.
* *Dynamic Markdown*: single braces and colons, and variables with the names of
  methods of every object. Every state parses one of the listed texts; texts
  are not built character by character.
* *Requests*: margins given as one string (`margin.ts`), which the schema does not let
  through; keys with the value `undefined` are dropped, as JSON drops them.
* *Loading files into the editor*: from a repository, an example or an address. Two
  loads may answer out of order and close whichever dialog is open
  (`components/editor/index.tsx:108-120`). Translation replaces the range that was selected when it
  was asked for, whatever was typed since (`useApertium.ts:79-88`).
* *Workspace*: a second operation of a tab while one is under way (each form
  disables only its own buttons); names and tags that contain the separators of
  the key; several tabs, which the module allows and no run instantiates.
* *Repositories*: the list of files, the report on variables, the settings page, and
  the wrappers of the GitHub and Azure DevOps interfaces, which only pass on what they
  are told. Resetting the settings clears the storage and not the page.
* *Observability and presentational components*: no state that the program reads
  back, or an order that the type system enforces.

## Plan

Done, in this order: scheduler with its proofs; pool with its own; health and probes,
route and client with their proofs; preview tabs with theirs; workspace with its
proofs; Dynamic Markdown with the editor's reducer; requests, templates and builder with
their proofs; selection of systems and branches, proved. Next:

1. **Workspace, several users**: two tabs of one user (overwrites then meet under one
   key), duplicates of a name, a second operation of a tab while one is under way.
   Abstract specification: a map from names to documents with atomic operations,
   which the one-tab specification without failures should implement.
2. **File loads**: by a click, by an address, from an example; with answers out of
   order, and translation; composed with `MarkdownEditor` and `PreviewTabs`.
3. **Proofs**: the refinement of `Workspace`, and type correctness of the selection.
4. **Orphans**: pages that go on after their user's deadline, and the load they
   mean for Chromium.

## Running it

    tlc -workers 2 -config MCGenerationScheduler.cfg MCGenerationScheduler
    tlapm BrevgeneratorClient_proofs.tla

`PROJECT.json` lists the components, runs, replacements, theorems, hazards and,
for every definition, the lines of the source it models.
