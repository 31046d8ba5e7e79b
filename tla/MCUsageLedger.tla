---------------------------- MODULE MCUsageLedger ---------------------------
(***************************************************************************)
(* Small instances of UsageLedger: the worker, whose loop awaits its       *)
(* pushes, and taster-admin, whose tasks go on booking meanwhile.          *)
(***************************************************************************)
EXTENDS UsageLedger, TLC

=============================================================================
