--------------------------- MODULE MCCronService ---------------------------
(* Small instances of CronService for TLC.                                 *)
EXTENDS CronService, TLC

CONSTANTS j1, j2, j3

MixedKinds == (j1 :> "at") @@ (j2 :> "every") @@ (j3 :> "once")
TwoKinds == (j1 :> "at") @@ (j2 :> "every")
OneTime == (j1 :> "at")
Recurring == (j2 :> "every")
=============================================================================
