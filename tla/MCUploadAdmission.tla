-------------------------- MODULE MCUploadAdmission --------------------------
(* The instance of UploadAdmission that TLC checks: r1 hangs in docker.     *)
EXTENDS UploadAdmission

CONSTANTS r1, r2, r3
=============================================================================
