--------------------------- MODULE MCEngineFanout ---------------------------
(* The instances of EngineFanout that TLC checks.                          *)
EXTENDS EngineFanout

CONSTANTS nsrl, clamav, pescan

(* clamav takes every file, pescan only Windows executables.               *)
MCIntel == {nsrl}
MCMimeSets == {{clamav}, {clamav, pescan}}
=============================================================================
