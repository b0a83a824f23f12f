----------------------------- MODULE TwoPhaseRun -----------------------------
(***************************************************************************)
(* What scanRun promises (src/commands/scan.go, the comment over it: it     *)
(* `fans out to every applicable engine and blocks until they all report'): *)
(* the intel engines run first, together; when every one is through, the    *)
(* engines of one mime type do, or the run ends with an error; it returns   *)
(* when these are through as well.  No engine runs twice.                  *)
(*                                                                         *)
(* EngineFanout, which has the goroutines and containers of one scan, and   *)
(* every scan of ScanLifecycle, which has no more of an engine than that it *)
(* is at work, both implement this specification.                          *)
(***************************************************************************)
CONSTANTS Intel,        \* the intel engines
          MimeSets      \* the sets of engines there may be for a mime type

VARIABLES phase,        \* where the run is
          working,      \* the engines at work
          through       \* the engines that have been

run == <<phase, working, through>>

Init == phase = "before" /\ working = {} /\ through = {}

Goto(from, to) == phase = from /\ phase' = to /\ UNCHANGED through

StartIntel == Goto("before", "intel") /\ working' = Intel

(* An engine is through: it has reported, or failed.                       *)
End(e) == /\ e \in working
          /\ working' = working \ {e}
          /\ through' = through \cup {e}
          /\ UNCHANGED phase

IntelDone       == Goto("intel", "between") /\ working = {} /\ UNCHANGED working
StartEngines(S) == Goto("between", "engines") /\ S \cap through = {} /\ working' = S
Return          == Goto("engines", "returned") /\ working = {} /\ UNCHANGED working

(* The setup before it, or a second detection of the mime type.            *)
GiveUp == /\ Goto("before", "failed") \/ Goto("between", "failed")
          /\ UNCHANGED working

Next == \/ StartIntel \/ IntelDone \/ Return \/ GiveUp
        \/ \E e \in working : End(e)
        \/ \E S \in MimeSets : StartEngines(S)

Spec == Init /\ [][Next]_run
=============================================================================
