--------------------------- MODULE MCDatabaseStart ---------------------------
(* The instances of DatabaseStart that TLC checks; scans of the server are  *)
(* interchangeable.                                                        *)
EXTENDS DatabaseStart, TLC
Symmetry == Permutations(Scans \ Follows)
=============================================================================
