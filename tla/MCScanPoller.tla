---------------------------- MODULE MCScanPoller ----------------------------
(* The instance of ScanPoller that TLC checks. *)
EXTENDS ScanPoller, TLC
=============================================================================
