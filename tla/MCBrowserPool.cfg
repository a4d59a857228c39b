\* Safety of the pool when launches, renders and deadlines may all fail.
CONSTANTS
    User = {u1, u2, u3}
    MaxAttempts = 2
    MaxPages = 2
    LaunchOutcomes = {"ok", "error"}
SYMMETRY UserSymmetry
SPECIFICATION Spec
INVARIANTS
    UsersAndPagesCounted
    OneOpenChromium
    NoLostWaiter
    RetryGetsFreshBrowser
PROPERTIES
    DeadlineDoesNotRecycle
