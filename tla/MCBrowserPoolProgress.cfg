\* Progress of the pool as long as Chromium launches: renders may fail, budgets
\* may run out, and nothing relies on a budget running out.  With one page per
\* browser the second user polls while the first one holds the browser.
CONSTANTS
    User = {u1, u2}
    MaxAttempts = 3
    MaxPages = 1
    LaunchOutcomes = {"ok"}
SPECIFICATION FairSpec
PROPERTIES
    EveryUserFinishes
    RecycleIsCarriedOut
    EventLoopTurns
