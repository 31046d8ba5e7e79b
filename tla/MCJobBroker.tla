---------------------------- MODULE MCJobBroker -----------------------------
(***************************************************************************)
(* Small instances of JobBroker: a capture that writes a record and a      *)
(* lookup that does not, and the bound on the faults.                      *)
(***************************************************************************)
EXTENDS JobBroker, TLC

=============================================================================
