\* A failed launch leaves the promise of a finished recycle behind; the retry
\* then waits for a recycle that never comes.
CONSTANTS
    User = {u1, u2}
    MaxAttempts = 2
    MaxPages = 2
    LaunchOutcomes = {"ok", "error"}
SPECIFICATION FairSpec
PROPERTIES
    EveryUserFinishes
