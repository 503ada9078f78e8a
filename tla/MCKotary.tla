------------------------------ MODULE MCKotary ------------------------------
(***************************************************************************)
(* One namespace, the default claim's name and one more, for TLC.          *)
(***************************************************************************)
EXTENDS Kotary, MCClaims

MCDefaultSpec == Both(1)
OnlyHuge == {Both(5)}

LabelledAmidFaults == [OneClaim EXCEPT !["namespaces"] = 1, !["faults"] = 1, !["restarts"] = 1]
Recreated == [Nothing EXCEPT !["namespaces"] = 2, !["quotas"] = 1, !["resyncs"] = 1]
=============================================================================
