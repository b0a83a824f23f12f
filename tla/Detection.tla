------------------------------ MODULE Detection ------------------------------
(***************************************************************************)
(* What one engine's result in a scan document means: the server's rule     *)
(* (isDetection and isNullResult, src/api/server.go), which makes the       *)
(* verdict, and the web interface's (isDetection and the cards of           *)
(* renderScanDetail, src/web/static/app.js), which labels each engine.     *)
(*                                                                         *)
(* A result is a record of the fields the two rules look at; a field that  *)
(* the engine's JSON leaves out has the value that decoding gives it.      *)
(***************************************************************************)
EXTENDS Naturals

Null == [null |-> TRUE]

(* The result of an engine that finds nothing.                             *)
NoHit == [found |-> FALSE, infected |-> FALSE, status |-> "", hits |-> 0,
          positives |-> 0, sandbox |-> 0]

Threats == {"infected", "threat", "malicious"}
Stati   == Threats \cup {"", "skipped", "error"}
Results == [found : BOOLEAN, infected : BOOLEAN, status : Stati, hits : Nat,
            positives : Nat, sandbox : Nat]

foundIsThreat == {"kvrt", "lmd", "hashlookup"}
Special == {"nsrl", "shadow-server", "virustotal"}

isNullResult(res) == res = Null

(* What makes a result of any engine but the special ones a detection.     *)
Flagged(res) == res.infected \/ res.status \in Threats \/ res.hits > 0

(* The special engines, in the switch that both rules have.                *)
SpecialDetection(name, res) ==
    \/ name = "shadow-server" /\ res.sandbox > 0
    \/ name = "virustotal" /\ res.positives > 0

(* Mutant: a found hash is a detection, whoever found it.                   *)
FoundCounts(name, res) == res.found \/ Flagged(res) \/ SpecialDetection(name, res)

(* The server's rule: the special engines by themselves, first.            *)
isDetection(name, res) ==
    IF name \in Special THEN SpecialDetection(name, res)
    ELSE Flagged(res) \/ (res.found /\ name \in foundIsThreat)

(* The web interface's rule: the general test comes before the special     *)
(* engines.                                                                *)
isDetectionJS(name, res) ==
    /\ ~isNullResult(res)
    /\ \/ Flagged(res)
       \/ IF name \in Special THEN SpecialDetection(name, res)
          ELSE res.found /\ name \in foundIsThreat

(* The label of an engine's card on the detail page.                       *)
Card(name, res) ==
    CASE isNullResult(res)             -> "not run"
      [] isDetectionJS(name, res)      -> "detection"
      [] ~isNullResult(res) /\ ~isDetectionJS(name, res) ->
            IF res.status \in {"skipped", "error"} THEN res.status ELSE "clean"
=============================================================================
