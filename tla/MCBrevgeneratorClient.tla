------------------------- MODULE MCBrevgeneratorClient -------------------------
(* Small instances of BrevgeneratorClient for TLC. *)
EXTENDS BrevgeneratorClient

CONSTANT StartupCheck

Attempts == (Call \X (1..MaxAttempts)) \cup {StartupCheck}
NoSteps == {}

=============================================================================
