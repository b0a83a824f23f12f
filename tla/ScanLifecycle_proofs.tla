------------------------ MODULE ScanLifecycle_proofs ------------------------
(***************************************************************************)
(* Machine-checked proofs, for all scans, samples, plugins, results and     *)
(* failures, of the safety properties of ScanLifecycle.  The inductive      *)
(* invariant has three parts: how far each scan is (Control), what has      *)
(* become of each of its engines (Account), and who fills the file that all *)
(* scans of one sample share (Sharing).  First comes where the two          *)
(* implementations of the detection rule, the server's and the page's,      *)
(* agree; last, what they make of the slots of a scan (PageAgrees), and     *)
(* that the run of every scan is one of TwoPhaseRun.                        *)
(***************************************************************************)
EXTENDS ScanLifecycle, TLAPS

-----------------------------------------------------------------------------
(* A result that an engine has written is not the null of one that has not  *)
(* run.                                                                    *)
LEMMA ResultsAreNotNull == \A res \in Results : ~isNullResult(res)
  <1> SUFFICES ASSUME NEW res \in Results, res = Null PROVE FALSE
    BY DEF isNullResult
  <1>1. "found" \in DOMAIN res
    BY DEF Results
  <1>2. DOMAIN Null = {"null"}
    BY DEF Null
  <1> QED
    BY <1>1, <1>2

(* Whatever the server counts towards the verdict carries the label of a     *)
(* detection on the page: no infected verdict without a card that says why. *)
THEOREM CardsExplainVerdict ==
    \A name, res : res \in Results /\ isDetection(name, res)
                     => Card(name, res) = "detection"
  BY ResultsAreNotNull DEF Card, isDetection, isDetectionJS

(* For every other engine the two rules agree, on every result.            *)
THEOREM RulesAgree ==
    \A name, res : res \in Results /\ name \notin Special
                     => (isDetection(name, res) <=> isDetectionJS(name, res))
  BY ResultsAreNotNull DEF isDetection, isDetectionJS

-----------------------------------------------------------------------------
Running == {"intel", "redetect", "launch", "files", "returned"}

(* Round 1 ends with the document, and what a mime type is based on that no *)
(* detection has got wrong.                                                *)
ControlOf(s) ==
    /\ pc[s] = "store" => round[s] = 1
    /\ pc[s] \in Running => round[s] = 2
    /\ round[s] = 1 => docs[s] = 0
    /\ round[s] = 2 => docs[s] = 1
    /\ pc[s] \notin {"intel", "files"} => running[s] = {}
    /\ <<s, "mime">> \notin broken =>
          /\ round[s] = 2 => docMime[s] = MimeOf[sampleOf[s]]
          /\ pc[s] \in {"store"} \cup Running => mime[s] = MimeOf[sampleOf[s]]

Control == \A s \in Scans : ControlOf(s)

-----------------------------------------------------------------------------
(* The plugins of a mime type are engines.                                 *)
LEMMA PluginsAreEngines ==
    /\ Intel \subseteq Engines
    /\ \A m \in Mimes \cup {Undetected} : PluginsForMime(m) \subseteq Engines
  BY DEF PluginsForMime, Engines

(* The first states.                                                       *)
LEMMA ControlInit == Init => TypeOK /\ Control
  <1> SUFFICES ASSUME Init PROVE TypeOK /\ Control
    OBVIOUS
  <1>1. TypeOK
    BY SamplesAssumption DEF Init, TypeOK, PCs, Files
  <1>2. Control
    BY DEF Init, Control, ControlOf, Running
  <1> QED
    BY <1>1, <1>2

(* The types and the rounds, through the steps up to the copy.             *)
LEMMA ControlCopy ==
    ASSUME TypeOK, Control, NEW s \in Scans,
           Setup(s) \/ Stat(s) \/ BeginCopy(s) \/ FillCopy(s) \/ EndCopy(s)
    PROVE  TypeOK' /\ Control'
  <1>1. CASE Setup(s)
    <2>1. TypeOK'
      BY <1>1, SMTT(40) DEF Setup, Goto, TypeOK, PCs, document, Peers
    <2>2. Control'
      BY <1>1, ZenonT(60) DEF Setup, Goto, TypeOK, document, Control, ControlOf, Running
    <2> QED
      BY <2>1, <2>2
  <1>2. CASE Stat(s)
    <2>1. TypeOK'
      BY <1>2 DEF Stat, Goto, TypeOK, PCs, document, history
    <2>2. Control'
      BY <1>2, ZenonT(60) DEF Stat, Goto, TypeOK, document, history, Control, ControlOf, Running
    <2> QED
      BY <2>1, <2>2
  <1>3. CASE BeginCopy(s)
    <2>1. TypeOK'
      BY <1>3 DEF BeginCopy, Goto, TypeOK, PCs, Files, document, history
    <2>2. Control'
      BY <1>3 DEF BeginCopy, Goto, TypeOK, document, history, Control, ControlOf, Running
    <2> QED
      BY <2>1, <2>2
  <1>4. CASE FillCopy(s)
    <2>1. TypeOK'
      BY <1>4 DEF FillCopy, TypeOK, PCs, Files, document, history
    <2>2. Control'
      BY <1>4 DEF FillCopy, TypeOK, document, history, Control, ControlOf, Running
    <2> QED
      BY <2>1, <2>2
  <1>5. CASE EndCopy(s)
    <2>1. TypeOK'
      BY <1>5 DEF EndCopy, Goto, TypeOK, PCs, Files, document
    <2>2. Control'
      BY <1>5 DEF EndCopy, Goto, TypeOK, document, Control, ControlOf, Running
    <2> QED
      BY <2>1, <2>2
  <1> QED
    BY <1>1, <1>2, <1>3, <1>4, <1>5

(* The types and the rounds, through the detection and the run.            *)
LEMMA ControlRun ==
    ASSUME TypeOK, Control, NEW s \in Scans,
           \/ DetectMime(s) \/ Store(s) \/ IntelDone(s) \/ Redetect(s)
           \/ Launch(s) \/ FilesDone(s)
    PROVE  TypeOK' /\ Control'
  <1>1. ASSUME Detected(s)
        PROVE  \E m \in Mimes \cup {Undetected} :
                  /\ mime' = [mime EXCEPT ![s] = m]
                  /\ broken' = IF m = MimeOf[sampleOf[s]] THEN broken
                               ELSE broken \cup {<<s, "mime">>}
                  /\ UNCHANGED <<sampleOf, round, volume, writer, docs, docMime, results,
                                 blind, met>>
    BY <1>1 DEF Detected, Detect, document, TypeOK
  <1>t. ASSUME Detected(s)
        PROVE  /\ mime' \in [Scans -> Mimes \cup {Undetected}]
               /\ broken' \subseteq Scans \X (Engines \cup {"copy", "mime"})
               /\ UNCHANGED <<sampleOf, round, volume, writer, docs, docMime, results,
                              blind, met>>
    <2>1. mime' \in [Scans -> Mimes \cup {Undetected}]
      BY <1>1, <1>t DEF TypeOK
    <2>2. broken' \subseteq broken \cup {<<s, "mime">>}
      BY <1>1, <1>t
    <2> QED
      BY <1>1, <1>t, <2>1, <2>2 DEF TypeOK
  <1>2. CASE DetectMime(s)
    <2>1. /\ Goto(s, "mime", IF round[s] = 1 THEN "store" ELSE "intel")
          /\ Detected(s)
          /\ running' = [running EXCEPT ![s] = IF round[s] = 1 THEN {} ELSE Intel]
      BY <1>2 DEF DetectMime
    <2>2. TypeOK'
      <3>1. pc' \in [Scans -> PCs] /\ running' \in [Scans -> SUBSET Engines]
        BY <2>1, PluginsAreEngines DEF Goto, TypeOK, PCs
      <3> QED
        BY <1>t, <2>1, <3>1 DEF TypeOK
    <2>3. Control'
      <3>1. PICK m \in Mimes \cup {Undetected} :
                  /\ mime' = [mime EXCEPT ![s] = m]
                  /\ broken' = IF m = MimeOf[sampleOf[s]] THEN broken
                               ELSE broken \cup {<<s, "mime">>}
                  /\ UNCHANGED <<sampleOf, round, docs, docMime>>
        BY <1>1, <2>1
      <3>2. ASSUME NEW t \in Scans, t # s PROVE ControlOf(t)'
        BY <2>1, <3>1, <3>2 DEF Goto, TypeOK, Control, ControlOf, Running
      <3>3. ControlOf(s)'
        BY <2>1, <3>1 DEF Goto, TypeOK, Control, ControlOf, Running
      <3> QED
        BY <3>2, <3>3 DEF Control
    <2> QED
      BY <2>2, <2>3
  <1>3. CASE Store(s)
    <2>1. UNCHANGED <<volume, writer, mime, running, results, history>>
      BY <1>3 DEF Store
    <2>2. CASE /\ Goto(s, "store", "setup")
               /\ docs' = [docs EXCEPT ![s] = @ + 1]
               /\ docMime' = [docMime EXCEPT ![s] = mime[s]]
               /\ round' = [round EXCEPT ![s] = 2]
      <3>1. pc[s] = "store" /\ pc' = [pc EXCEPT ![s] = "setup"] /\ docs[s] = 0
        BY <2>2 DEF Goto, Control, ControlOf
      <3>2. docs' = [docs EXCEPT ![s] = 1]
        BY <2>2, <3>1
      <3>3. /\ pc' \in [Scans -> PCs] /\ round' \in [Scans -> {1, 2}]
            /\ docMime' \in [Scans -> Mimes \cup {Undetected}]
        BY <2>2, <3>1 DEF TypeOK, PCs
      <3>4. docs' \in [Scans -> Nat]
        BY <3>2 DEF TypeOK
      <3>5. TypeOK'
        BY <2>1, <3>3, <3>4 DEF TypeOK, history
      <3>6. /\ pc'[s] = "setup" /\ docs'[s] = 1 /\ round'[s] = 2 /\ docMime'[s] = mime[s]
            /\ \A t \in Scans \ {s} : /\ pc'[t] = pc[t] /\ docs'[t] = docs[t]
                                      /\ round'[t] = round[t] /\ docMime'[t] = docMime[t]
        BY <2>2, <3>1, <3>2 DEF TypeOK
      <3>7. ASSUME NEW t \in Scans, t # s PROVE ControlOf(t)'
        BY <2>1, <3>6, <3>7 DEF Control, ControlOf, history, Running
      <3>8. ControlOf(s)'
        BY <2>1, <3>1, <3>6 DEF Control, ControlOf, history, Running
      <3> QED
        BY <3>5, <3>7, <3>8 DEF Control
    <2>3. CASE Goto(s, "store", "failed") /\ UNCHANGED <<docs, docMime, round>>
      BY <2>1, <2>3 DEF Goto, TypeOK, PCs, history, Control, ControlOf, Running
    <2> QED
      BY <1>3, <2>2, <2>3 DEF Store
  <1>4. CASE IntelDone(s)
    <2>1. TypeOK'
      BY <1>4 DEF IntelDone, Goto, TypeOK, PCs, history, document
    <2>2. Control'
      BY <1>4 DEF IntelDone, Goto, TypeOK, history, document, Control, ControlOf, Running
    <2> QED
      BY <2>1, <2>2
  <1>5. CASE Redetect(s)
    <2>1. CASE Goto(s, "redetect", "launch") /\ Detected(s) /\ UNCHANGED running
      <3>1. TypeOK'
        <4>1. pc' \in [Scans -> PCs]
          BY <2>1 DEF Goto, TypeOK, PCs
        <4> QED
          BY <1>t, <2>1, <4>1 DEF TypeOK
      <3>2. PICK m \in Mimes \cup {Undetected} :
                  /\ mime' = [mime EXCEPT ![s] = m]
                  /\ broken' = IF m = MimeOf[sampleOf[s]] THEN broken
                               ELSE broken \cup {<<s, "mime">>}
                  /\ UNCHANGED <<sampleOf, round, docs, docMime>>
        BY <1>1, <2>1
      <3>3. ASSUME NEW t \in Scans, t # s PROVE ControlOf(t)'
        BY <2>1, <3>2, <3>3 DEF Goto, TypeOK, Control, ControlOf, Running
      <3>4. ControlOf(s)'
        BY <2>1, <3>2 DEF Goto, TypeOK, Control, ControlOf, Running
      <3> QED
        BY <3>1, <3>3, <3>4 DEF Control
    <2>2. CASE /\ Goto(s, "redetect", "failed")
               /\ UNCHANGED <<round, volume, writer, mime, document, running, history>>
      BY <2>2 DEF Goto, TypeOK, PCs, history, document, Control, ControlOf, Running
    <2> QED
      BY <1>5, <2>1, <2>2 DEF Redetect
  <1>6. CASE Launch(s)
    <2>1. TypeOK'
      BY <1>6, PluginsAreEngines DEF Launch, Goto, TypeOK, PCs, history, document
    <2>2. Control'
      BY <1>6 DEF Launch, Goto, TypeOK, history, document, Control, ControlOf, Running
    <2> QED
      BY <2>1, <2>2
  <1>7. CASE FilesDone(s)
    <2>1. TypeOK'
      BY <1>7 DEF FilesDone, Goto, TypeOK, PCs, history, document
    <2>2. Control'
      BY <1>7 DEF FilesDone, Goto, TypeOK, history, document, Control, ControlOf, Running
    <2> QED
      BY <2>1, <2>2
  <1> QED
    BY <1>2, <1>3, <1>4, <1>5, <1>6, <1>7

(* The types and the rounds, through the end of an engine.                 *)
LEMMA ControlEngine ==
    ASSUME TypeOK, Control, NEW s \in Scans, NEW e \in running[s],
           Report(s, e) \/ BreakDown(s, e)
    PROVE  TypeOK' /\ Control'
  <1>e. e \in Engines
    BY DEF TypeOK
  <1>1. CASE Report(s, e)
    <2>1. Finds[e][sampleOf[s]] \in Results /\ Blank[e] \in Results
      BY <1>e, ResultsAssumption DEF TypeOK
    <2>2. TypeOK'
      BY <1>1, <1>e, <2>1 DEF Report, TypeOK
    <2>3. Control'
      BY <1>1 DEF Report, TypeOK, Control, ControlOf, Running
    <2> QED
      BY <2>2, <2>3
  <1>2. CASE BreakDown(s, e)
    <2>1. TypeOK'
      BY <1>2, <1>e DEF BreakDown, TypeOK, document
    <2>2. Control'
      BY <1>2, <1>e, PluginsAssumption DEF BreakDown, TypeOK, document, Control, ControlOf, Running
    <2> QED
      BY <2>1, <2>2
  <1> QED
    BY <1>1, <1>2

-----------------------------------------------------------------------------
(* Every engine that was to run for s is at work or through.               *)
AccountOf(s) ==
    /\ pc[s] \in {"setup", "stat", "write", "fill", "mime", "store"} => Through(s) = {}
    /\ pc[s] = "intel" => running[s] \cup Through(s) = Intel
    /\ pc[s] \in {"redetect", "launch"} => Through(s) = Intel
    /\ pc[s] \in {"files", "returned"} => running[s] \cup Through(s) = ScanPlugins(mime[s])

Account == \A s \in Scans : AccountOf(s)

(* Nothing has run at first.                                               *)
LEMMA AccountInit == Init => Account
  BY DEF Init, Account, AccountOf, Through

(* A failure of the copy or of a detection is no engine's.                 *)
NoEngine(s) ==
    /\ results' = results
    /\ broken' \in {broken, broken \cup {<<s, "copy">>}, broken \cup {<<s, "mime">>}}

LEMMA ThroughSame ==
    ASSUME NEW s \in Scans, NoEngine(s)
    PROVE  \A t \in Scans : Through(t)' = Through(t)
  <1> USE DEF NoEngine
  <1>1. \A t \in Scans, e \in Engines : <<t, e>> \in broken' <=> <<t, e>> \in broken
    BY PluginsAssumption
  <1> QED
    BY <1>1 DEF Through

(* A step of s that is no engine's leaves the others' accounts as they are. *)
LEMMA AccountOthers ==
    ASSUME TypeOK, Account, NEW s \in Scans,
           \A t \in Scans : Through(t)' = Through(t),
           \A t \in Scans \ {s} : /\ pc'[t] = pc[t] /\ running'[t] = running[t]
                                  /\ mime'[t] = mime[t],
           AccountOf(s)'
    PROVE  Account'
  BY DEF Account, AccountOf

(* What these steps do to results and failures.                            *)
LEMMA NoEngineStep ==
    ASSUME NEW s \in Scans,
           \/ Setup(s) \/ Stat(s) \/ BeginCopy(s) \/ FillCopy(s) \/ EndCopy(s)
           \/ DetectMime(s) \/ Store(s) \/ IntelDone(s) \/ Redetect(s)
           \/ Launch(s) \/ FilesDone(s)
    PROVE  \A t \in Scans : Through(t)' = Through(t)
  <1>2. ASSUME Setup(s) \/ Stat(s) \/ BeginCopy(s) \/ FillCopy(s) \/ EndCopy(s)
        PROVE  NoEngine(s)
    BY <1>2 DEF Setup, Stat, BeginCopy, FillCopy, EndCopy, NoEngine, document, history
  <1>3. ASSUME DetectMime(s) \/ Redetect(s)
        PROVE  NoEngine(s)
    BY <1>3 DEF DetectMime, Redetect, Detected, NoEngine, document, history
  <1>4. ASSUME Store(s) \/ IntelDone(s) \/ Launch(s) \/ FilesDone(s)
        PROVE  NoEngine(s)
    BY <1>4 DEF Store, IntelDone, Launch, FilesDone, NoEngine, document, history
  <1>5. NoEngine(s)
    BY <1>2, <1>3, <1>4
  <1> QED
    BY <1>5, ThroughSame

(* Every step but an engine's keeps the accounts.                          *)
LEMMA AccountKeeps ==
    ASSUME TypeOK, Control, Account, NEW s \in Scans,
           \/ Setup(s) \/ Stat(s) \/ BeginCopy(s) \/ FillCopy(s) \/ EndCopy(s)
           \/ DetectMime(s) \/ Store(s) \/ IntelDone(s) \/ Redetect(s)
           \/ Launch(s) \/ FilesDone(s)
    PROVE  Account'
  <1>a. AccountOf(s) /\ ControlOf(s)
    BY DEF Account, Control
  <1>c. \A t \in Scans : Through(t)' = Through(t)
    BY NoEngineStep
  <1>1. CASE Setup(s) \/ Stat(s) \/ BeginCopy(s) \/ FillCopy(s) \/ EndCopy(s) \/ Store(s)
    <2>1. /\ pc[s] \in {"setup", "stat", "write", "fill", "mime", "store"}
          /\ \E to \in {"setup", "stat", "write", "fill", "mime", "store", "failed"} :
                pc' = [pc EXCEPT ![s] = to]
          /\ UNCHANGED <<mime, running>>
      BY <1>1 DEF Setup, Stat, BeginCopy, FillCopy, EndCopy, Store, Goto, TypeOK
    <2>2. AccountOf(s)'
      BY <1>a, <1>c, <2>1 DEF AccountOf, TypeOK
    <2> QED
      BY <1>c, <2>1, <2>2, AccountOthers DEF TypeOK
  <1>2. CASE DetectMime(s)
    <2>1. /\ pc[s] = "mime"
          /\ \E m \in Mimes \cup {Undetected} : mime' = [mime EXCEPT ![s] = m]
          /\ \/ round[s] = 1 /\ pc' = [pc EXCEPT ![s] = "store"]
             \/ round[s] = 2 /\ pc' = [pc EXCEPT ![s] = "intel"]
          /\ running' = [running EXCEPT ![s] = IF round[s] = 1 THEN {} ELSE Intel]
      BY <1>2 DEF DetectMime, Detected, Detect, Goto, TypeOK
    <2>2. Through(s) = {}
      BY <1>a, <2>1 DEF AccountOf
    <2>3. AccountOf(s)'
      BY <1>c, <2>1, <2>2 DEF AccountOf, TypeOK
    <2> QED
      BY <1>c, <2>1, <2>3, AccountOthers DEF TypeOK
  <1>3. CASE IntelDone(s)
    <2>1. /\ pc[s] = "intel" /\ running[s] = {} /\ UNCHANGED <<mime, running>>
          /\ \E to \in {"redetect", "launch"} : pc' = [pc EXCEPT ![s] = to]
      BY <1>3 DEF IntelDone, Goto
    <2>2. AccountOf(s)'
      BY <1>a, <1>c, <2>1 DEF AccountOf, TypeOK
    <2> QED
      BY <1>c, <2>1, <2>2, AccountOthers DEF TypeOK
  <1>4. CASE Redetect(s)
    <2>1. /\ pc[s] = "redetect" /\ running' = running
          /\ \/ mime' = mime
             \/ \E m \in Mimes \cup {Undetected} : mime' = [mime EXCEPT ![s] = m]
          /\ \E to \in {"launch", "failed"} : pc' = [pc EXCEPT ![s] = to]
      BY <1>4 DEF Redetect, Detected, Detect, Goto
    <2>2. AccountOf(s)'
      BY <1>a, <1>c, <2>1 DEF AccountOf, TypeOK
    <2> QED
      BY <1>c, <2>1, <2>2, AccountOthers DEF TypeOK
  <1>5. CASE Launch(s)
    <2>1. /\ pc[s] = "launch" /\ pc' = [pc EXCEPT ![s] = "files"] /\ mime' = mime
          /\ running' = [running EXCEPT ![s] = PluginsForMime(mime[s])]
      BY <1>5 DEF Launch, Goto
    <2>2. AccountOf(s)'
      BY <1>a, <1>c, <2>1 DEF AccountOf, TypeOK, ScanPlugins
    <2> QED
      BY <1>c, <2>1, <2>2, AccountOthers DEF TypeOK
  <1>6. CASE FilesDone(s)
    <2>1. /\ pc[s] = "files" /\ pc' = [pc EXCEPT ![s] = "returned"]
          /\ UNCHANGED <<mime, running>>
      BY <1>6 DEF FilesDone, Goto
    <2>2. AccountOf(s)'
      BY <1>a, <1>c, <2>1 DEF AccountOf, TypeOK
    <2> QED
      BY <1>c, <2>1, <2>2, AccountOthers DEF TypeOK
  <1> QED
    BY <1>1, <1>2, <1>3, <1>4, <1>5, <1>6

(* An engine that ends goes from those at work to those that are through.   *)
LEMMA EngineEnds ==
    ASSUME TypeOK, NEW s \in Scans, NEW e \in running[s],
           Report(s, e) \/ BreakDown(s, e)
    PROVE  /\ UNCHANGED <<pc, mime>> /\ running' = [running EXCEPT ![s] = @ \ {e}]
           /\ Through(s)' = Through(s) \cup {e}
           /\ \A t \in Scans \ {s} : Through(t)' = Through(t)
  <1>e. e \in Engines
    BY DEF TypeOK
  <1>1. UNCHANGED <<pc, mime>> /\ running' = [running EXCEPT ![s] = @ \ {e}]
    BY DEF Report, BreakDown
  <1>2. Through(s)' = Through(s) \cup {e} /\ \A t \in Scans \ {s} : Through(t)' = Through(t)
    <2>1. CASE Report(s, e)
      <3>1. PICK res \in Results : results' = [results EXCEPT ![s][e] = res]
        BY <1>e, <2>1, ResultsAssumption DEF Report, TypeOK
      <3>2. res # Null
        BY ResultsAreNotNull DEF isNullResult
      <3>3. broken' = broken
        BY <2>1 DEF Report
      <3>4. \A x \in Engines \ {e} : results'[s][x] = results[s][x]
        BY <1>e, <3>1 DEF TypeOK
      <3>5. results'[s][e] = res /\ \A t \in Scans \ {s} : results'[t] = results[t]
        BY <1>e, <3>1 DEF TypeOK
      <3> QED
        BY <1>e, <3>2, <3>3, <3>4, <3>5 DEF Through
    <2>2. CASE BreakDown(s, e)
      <3>1. results' = results /\ broken' = broken \cup {<<s, e>>}
        BY <2>2 DEF BreakDown, document
      <3>2. \A t \in Scans, x \in Engines :
              <<t, x>> \in broken' <=> <<t, x>> \in broken \/ (t = s /\ x = e)
        BY <3>1
      <3> QED
        BY <1>e, <3>1, <3>2 DEF Through
    <2> QED
      BY <2>1, <2>2
  <1> QED
    BY <1>1, <1>2

(* Which keeps the accounts.                                               *)
LEMMA AccountEngine ==
    ASSUME TypeOK, Control, Account, NEW s \in Scans, NEW e \in running[s],
           Report(s, e) \/ BreakDown(s, e)
    PROVE  Account'
  <1>1. UNCHANGED <<pc, mime>> /\ running' = [running EXCEPT ![s] = @ \ {e}]
    BY EngineEnds
  <1>2. Through(s)' = Through(s) \cup {e} /\ \A t \in Scans \ {s} : Through(t)' = Through(t)
    BY EngineEnds
  <1>3. AccountOf(s)'
    <2>1. AccountOf(s) /\ ControlOf(s)
      BY DEF Account, Control
    <2>2. pc[s] \in {"intel", "files"}
      BY <2>1 DEF ControlOf
    <2> QED
      BY <1>1, <1>2, <2>1, <2>2 DEF AccountOf, TypeOK
  <1>4. ASSUME NEW t \in Scans \ {s} PROVE AccountOf(t)'
    BY <1>1, <1>2 DEF Account, AccountOf, TypeOK
  <1> QED
    BY <1>3, <1>4 DEF Account

-----------------------------------------------------------------------------
After == {"mime", "store", "intel", "redetect", "launch", "files"}

(* Of two scans of one sample that are active together, each has met.       *)
Beside ==
    \A s, t \in Scans :
        s # t /\ sampleOf[s] = sampleOf[t] /\ Active(s) /\ Active(t) => s \in met

(* A scan that nobody ran beside fills the file that the path names.       *)
FillsIt == \A s \in Scans : pc[s] = "fill" => s \in met \/ s \in writer[sampleOf[s]]

(* A file that is not whole is being filled, or its filling has failed.     *)
BeingFilled ==
    \A h \in Samples :
        volume[h] \in {"empty", "partial"} =>
            \/ Botched(h)
            \/ \E t \in Scans : sampleOf[t] = h /\ pc[t] = "fill" /\ t \in writer[h]

(* A scan that is past its copy finds the whole sample in the volume.       *)
Copied == \A s \in Scans :
             pc[s] \in After => \/ s \in met \/ Botched(sampleOf[s])
                                \/ volume[sampleOf[s]] = "whole"

(* What an engine that was not blind has stored.                           *)
FromSample ==
    \A s \in Scans, e \in Engines :
        results[s][e] # Null /\ <<s, e>> \notin blind
            => results[s][e] = Finds[e][sampleOf[s]]

Sharing == Beside /\ FillsIt /\ BeingFilled /\ Copied /\ SeesWholeSample /\ FromSample

(* Nobody is active at first.                                              *)
LEMMA SharingInit == Init => Sharing
  BY DEF Init, Sharing, Beside, FillsIt, BeingFilled, Copied, SeesWholeSample, FromSample,
         Active, After

(* Failures stay.                                                          *)
LEMMA BotchedStays ==
    ASSUME sampleOf' = sampleOf, broken \subseteq broken'
    PROVE  \A h : Botched(h) => Botched(h)'
  BY DEF Botched

(* Only scanSetup makes a scan active, and it marks those that already are. *)
LEMMA BesideKeeps ==
    ASSUME TypeOK, Beside, NEW s \in Scans, Step(s)
    PROVE  Beside' /\ met \subseteq met' /\ sampleOf' = sampleOf
  <1>1. CASE Setup(s)
    <2>1. /\ met' = IF Peers(s) = {} THEN met ELSE met \cup {s} \cup Peers(s)
          /\ UNCHANGED <<sampleOf, round>>
          /\ \E to \in {"stat", "mime", "failed"} : pc' = [pc EXCEPT ![s] = to]
      BY <1>1 DEF Setup, Goto
    <2>2. \A t \in Scans \ {s} : Active(t)' <=> Active(t)
      BY <2>1 DEF Active, TypeOK
    <2>3. ASSUME NEW t \in Scans \ {s}, sampleOf[t] = sampleOf[s], Active(t)
          PROVE  s \in met' /\ t \in met'
      <3>1. t \in Peers(s)
        BY <2>3 DEF Peers
      <3> QED
        BY <2>1, <3>1
    <2>4. met \subseteq met'
      BY <2>1
    <2> QED
      BY <2>1, <2>2, <2>3, <2>4 DEF Beside
  <1>2. ASSUME sampleOf' = sampleOf, met' = met, \A t \in Scans : Active(t)' => Active(t)
        PROVE  Beside' /\ met \subseteq met' /\ sampleOf' = sampleOf
    BY <1>2 DEF Beside
  <1>3. CASE Stat(s) \/ BeginCopy(s) \/ FillCopy(s) \/ EndCopy(s)
    <2>1. /\ UNCHANGED <<sampleOf, met, round>> /\ pc[s] \in {"stat", "write", "fill"}
          /\ pc' = pc \/ \E to \in PCs : pc' = [pc EXCEPT ![s] = to]
      BY <1>3 DEF Stat, BeginCopy, FillCopy, EndCopy, Goto, history, PCs
    <2>2. \A t \in Scans : Active(t)' => Active(t)
      BY <2>1 DEF Active, TypeOK
    <2> QED
      BY <1>2, <2>1, <2>2
  <1>4. CASE DetectMime(s) \/ IntelDone(s) \/ Redetect(s) \/ Launch(s) \/ FilesDone(s)
    <2>1. /\ UNCHANGED <<sampleOf, met, round>>
          /\ pc[s] \in {"mime", "intel", "redetect", "launch", "files"}
          /\ \E to \in PCs : pc' = [pc EXCEPT ![s] = to]
      BY <1>4 DEF DetectMime, Detected, IntelDone, Redetect, Launch, FilesDone, Goto, history, PCs
    <2>2. \A t \in Scans : Active(t)' => Active(t)
      BY <2>1 DEF Active, TypeOK
    <2> QED
      BY <1>2, <2>1, <2>2
  <1>5. CASE Store(s)
    <2>1. /\ UNCHANGED <<sampleOf, met>> /\ pc[s] = "store"
          /\ \E to \in {"setup", "failed"} : pc' = [pc EXCEPT ![s] = to]
          /\ \A t \in Scans \ {s} : round'[t] = round[t]
      BY <1>5 DEF Store, Goto, history, TypeOK
    <2>2. \A t \in Scans : Active(t)' => Active(t)
      BY <2>1 DEF Active, TypeOK
    <2> QED
      BY <1>2, <2>1, <2>2
  <1>6. ASSUME NEW e \in running[s], Report(s, e) \/ BreakDown(s, e)
        PROVE  Beside' /\ met \subseteq met' /\ sampleOf' = sampleOf
    <2>1. UNCHANGED <<sampleOf, met, round, pc>>
      BY <1>6 DEF Report, BreakDown
    <2>2. \A t \in Scans : Active(t)' => Active(t)
      BY <2>1 DEF Active
    <2> QED
      BY <1>2, <2>1, <2>2
  <1> QED
    BY <1>1, <1>3, <1>4, <1>5, <1>6 DEF Step

(* The four steps of CopyToVolume.                                         *)
LEMMA CopyKeeps ==
    ASSUME TypeOK, Sharing, NEW s \in Scans,
           Stat(s) \/ BeginCopy(s) \/ FillCopy(s) \/ EndCopy(s)
    PROVE  FillsIt' /\ BeingFilled' /\ Copied'
  <1> DEFINE h == sampleOf[s]
  <1>h. h \in Samples
    BY DEF TypeOK
  <1>a. Active(s) /\ \A t \in Scans : pc[t] \in After \cup {"fill"} => Active(t)
    BY DEF Active, After, Stat, BeginCopy, FillCopy, EndCopy, Goto
  <1>b. \A t \in Scans \ {s} :
           pc[t] \in After \cup {"fill"} /\ sampleOf[t] = h => t \in met /\ s \in met
    BY <1>a DEF Sharing, Beside
  <1>1. CASE Stat(s)
    <2>1. /\ UNCHANGED <<volume, writer, sampleOf, broken, met>> /\ pc[s] = "stat"
          /\ \/ pc' = [pc EXCEPT ![s] = "mime"] /\ volume[h] \in {"partial", "whole"}
             \/ pc' = [pc EXCEPT ![s] = "write"]
      BY <1>1 DEF Stat, Goto, history
    <2>2. volume[h] = "partial" => Botched(h) \/ s \in met
      BY <1>b, <1>h, <2>1 DEF Sharing, BeingFilled
    <2>3. \A x : Botched(x)' <=> Botched(x)
      BY <2>1 DEF Botched
    <2>4. FillsIt' /\ BeingFilled'
      BY <2>1, <2>3 DEF Sharing, FillsIt, BeingFilled, TypeOK
    <2>5. Copied'
      BY <2>1, <2>2, <2>3 DEF Sharing, Copied, TypeOK, After
    <2> QED
      BY <2>4, <2>5
  <1>2. CASE BeginCopy(s)
    <2>1. /\ pc[s] = "write" /\ pc' = [pc EXCEPT ![s] = "fill"]
          /\ volume' = [volume EXCEPT ![h] = "empty"] /\ writer' = [writer EXCEPT ![h] = {s}]
          /\ UNCHANGED <<sampleOf, broken, met>>
      BY <1>2 DEF BeginCopy, Goto, history
    <2>2. \A x : Botched(x)' <=> Botched(x)
      BY <2>1 DEF Botched
    <2>3. FillsIt'
      BY <1>b, <1>h, <2>1 DEF Sharing, FillsIt, TypeOK
    <2>4. BeingFilled'
      <3>1. pc'[s] = "fill" /\ s \in writer'[h] /\ sampleOf'[s] = h
        BY <1>h, <2>1 DEF TypeOK
      <3>2. ASSUME NEW x \in Samples \ {h}, NEW t \in Scans, sampleOf[t] = x, pc[t] = "fill",
                   t \in writer[x]
            PROVE  sampleOf'[t] = x /\ pc'[t] = "fill" /\ t \in writer'[x]
        BY <2>1, <3>2 DEF TypeOK
      <3>3. \A x \in Samples \ {h} : volume'[x] = volume[x]
        BY <2>1 DEF TypeOK
      <3> QED
        BY <2>2, <3>1, <3>2, <3>3 DEF Sharing, BeingFilled
    <2>5. Copied'
      BY <1>b, <1>h, <2>1, <2>2 DEF Sharing, Copied, TypeOK, After
    <2> QED
      BY <2>3, <2>4, <2>5
  <1>3. CASE FillCopy(s)
    <2>1. /\ pc[s] = "fill" /\ s \in writer[h] /\ volume[h] = "empty"
          /\ volume' = [volume EXCEPT ![h] = "partial"]
          /\ UNCHANGED <<pc, writer, sampleOf, broken, met>>
      BY <1>3 DEF FillCopy, history
    <2>2. \A x : Botched(x)' <=> Botched(x)
      BY <2>1 DEF Botched
    <2>3. FillsIt' /\ BeingFilled'
      BY <1>h, <2>1, <2>2 DEF Sharing, FillsIt, BeingFilled, TypeOK
    <2>4. Copied'
      BY <1>h, <2>1, <2>2 DEF Sharing, Copied, TypeOK
    <2> QED
      BY <2>3, <2>4
  <1>4. CASE EndCopy(s)
    <2>1. /\ pc[s] = "fill" /\ pc' = [pc EXCEPT ![s] = "mime"]
          /\ UNCHANGED <<writer, sampleOf, met>>
          /\ \/ s \in writer[h] /\ volume' = [volume EXCEPT ![h] = "whole"] /\ UNCHANGED broken
             \/ s \notin writer[h] /\ UNCHANGED <<volume, broken>>
             \/ broken' = broken \cup {<<s, "copy">>} /\ UNCHANGED volume
      BY <1>4 DEF EndCopy, Goto
    <2>2. \A x : Botched(x) => Botched(x)'
      BY <2>1, BotchedStays
    <2>3. FillsIt'
      BY <2>1 DEF Sharing, FillsIt, TypeOK
    <2>4. CASE s \in writer[h] /\ volume' = [volume EXCEPT ![h] = "whole"]
      <3>1. BeingFilled'
        BY <1>h, <2>1, <2>2, <2>4 DEF Sharing, BeingFilled, TypeOK
      <3>2. Copied'
        BY <1>h, <2>1, <2>2, <2>4 DEF Sharing, Copied, TypeOK
      <3> QED
        BY <2>3, <3>1, <3>2
    <2>5. CASE s \notin writer[h] /\ UNCHANGED volume
      <3>1. BeingFilled'
        BY <2>1, <2>2, <2>5 DEF Sharing, BeingFilled, TypeOK
      <3>2. Copied'
        BY <2>1, <2>2, <2>5 DEF Sharing, Copied, FillsIt, TypeOK
      <3> QED
        BY <2>3, <3>1, <3>2
    <2>6. CASE broken' = broken \cup {<<s, "copy">>} /\ UNCHANGED volume
      <3>1. Botched(h)'
        BY <2>1, <2>6 DEF Botched
      <3>2. BeingFilled'
        BY <2>1, <2>2, <2>6, <3>1 DEF Sharing, BeingFilled, TypeOK
      <3>3. Copied'
        BY <2>1, <2>2, <2>6, <3>1 DEF Sharing, Copied, TypeOK
      <3> QED
        BY <2>3, <3>2, <3>3
    <2> QED
      BY <2>1, <2>4, <2>5, <2>6
  <1> QED
    BY <1>1, <1>2, <1>3, <1>4

(* Every other step leaves the volume alone, and moves on to After only     *)
(* from there, or when its helper has failed.                              *)
LEMMA NoCopyKeeps ==
    ASSUME TypeOK, Sharing, NEW s \in Scans,
           UNCHANGED <<volume, writer, sampleOf>>, met \subseteq met', broken \subseteq broken',
           \A t \in Scans : /\ pc'[t] = "fill" <=> pc[t] = "fill"
                            /\ pc'[t] \in After => pc[t] \in After \/ Botched(sampleOf[t])'
    PROVE  FillsIt' /\ BeingFilled' /\ Copied'
  <1>1. \A x : Botched(x) => Botched(x)'
    BY BotchedStays
  <1>2. FillsIt'
    BY DEF Sharing, FillsIt
  <1>3. BeingFilled'
    BY <1>1 DEF Sharing, BeingFilled
  <1>4. Copied'
    BY <1>1 DEF Sharing, Copied
  <1> QED
    BY <1>2, <1>3, <1>4

(* A step that changes neither the results nor who was blind.              *)
LEMMA NoReportKeeps ==
    ASSUME SeesWholeSample, FromSample, UNCHANGED <<results, blind, sampleOf>>,
           met \subseteq met', broken \subseteq broken'
    PROVE  SeesWholeSample' /\ FromSample'
  <1>1. \A x : Botched(x) => Botched(x)'
    BY BotchedStays
  <1> QED
    BY <1>1 DEF SeesWholeSample, FromSample

(* An engine that stores its result: blind only beside another scan of the  *)
(* sample, or after a copy has failed.                                     *)
LEMMA ReportKeeps ==
    ASSUME TypeOK, Control, Sharing, NEW s \in Scans, NEW e \in running[s], Report(s, e)
    PROVE  SeesWholeSample' /\ FromSample'
  <1> DEFINE h == sampleOf[s]
             sees == e \in Intel \/ volume[h] = "whole"
  <1>1. /\ results' = [results EXCEPT ![s][e] = IF sees THEN Finds[e][h] ELSE Blank[e]]
        /\ blind' = IF sees THEN blind ELSE blind \cup {<<s, e>>}
        /\ UNCHANGED <<sampleOf, met, broken>>
    BY DEF Report
  <1>2. e \in Engines /\ pc[s] \in After
    BY DEF TypeOK, Control, ControlOf, After
  <1>3. \A x : Botched(x)' <=> Botched(x)
    BY <1>1 DEF Botched
  <1>4. sees \/ s \in met \/ Botched(h)
    BY <1>2 DEF Sharing, Copied
  <1>5. \A t \in Scans, x \in Engines :
            /\ <<t, x>> \in blind' => <<t, x>> \in blind \/ (t = s /\ x = e /\ ~sees)
            /\ <<t, x>> \in blind => <<t, x>> \in blind'
            /\ ~sees => <<s, e>> \in blind'
    BY <1>1
  <1>6. SeesWholeSample'
    BY <1>1, <1>3, <1>4, <1>5 DEF Sharing, SeesWholeSample
  <1>7. FromSample'
    <2>1. \A t \in Scans, x \in Engines :
              ~(t = s /\ x = e) => results'[t][x] = results[t][x]
      BY <1>1, <1>2 DEF TypeOK
    <2>2. sees => results'[s][e] = Finds[e][h]
      BY <1>1, <1>2 DEF TypeOK
    <2>3. ASSUME NEW t \in Scans, NEW x \in Engines, results'[t][x] # Null,
                 <<t, x>> \notin blind'
          PROVE  results'[t][x] = Finds[x][sampleOf'[t]]
      <3>1. CASE t = s /\ x = e
        BY <1>1, <1>5, <2>2, <2>3, <3>1
      <3>2. CASE ~(t = s /\ x = e)
        BY <1>1, <1>5, <2>1, <2>3, <3>2 DEF Sharing, FromSample
      <3> QED
        BY <3>1, <3>2
    <2> QED
      BY <2>3 DEF FromSample
  <1> QED
    BY <1>6, <1>7

(* What is shared is kept by every step.                                   *)
LEMMA SharingKeeps ==
    ASSUME TypeOK, Control, Sharing, NEW s \in Scans, Step(s)
    PROVE  Sharing'
  <1>b. Beside' /\ met \subseteq met' /\ sampleOf' = sampleOf
    BY BesideKeeps DEF Sharing
  <1>1. CASE Stat(s) \/ BeginCopy(s) \/ FillCopy(s) \/ EndCopy(s)
    <2>1. UNCHANGED <<results, blind>> /\ broken \subseteq broken'
      BY <1>1 DEF Stat, BeginCopy, FillCopy, EndCopy, document, history
    <2> QED
      BY <1>1, <1>b, <2>1, CopyKeeps, NoReportKeeps DEF Sharing
  <1>2. CASE Setup(s)
    <2>1. /\ UNCHANGED <<results, blind, volume, writer>> /\ pc[s] = "setup"
          /\ \/ pc' = [pc EXCEPT ![s] = "stat"] /\ UNCHANGED broken
             \/ pc' = [pc EXCEPT ![s] = "mime"] /\ broken' = broken \cup {<<s, "copy">>}
             \/ pc' = [pc EXCEPT ![s] = "failed"] /\ UNCHANGED broken
      BY <1>2 DEF Setup, Goto, document
    <2>2. broken \subseteq broken'
      BY <2>1
    <2>3. pc'[s] = "mime" => Botched(sampleOf[s])'
      BY <1>b, <2>1 DEF Botched, TypeOK
    <2>4. \A t \in Scans : /\ pc'[t] = "fill" <=> pc[t] = "fill"
                           /\ pc'[t] \in After => pc[t] \in After \/ Botched(sampleOf[t])'
      BY <2>1, <2>3 DEF TypeOK, After
    <2> QED
      BY <1>b, <2>1, <2>2, <2>4, NoCopyKeeps, NoReportKeeps DEF Sharing
  <1>3. CASE DetectMime(s) \/ Redetect(s)
    <2>1. UNCHANGED <<results, blind, volume, writer>> /\ broken \subseteq broken'
      BY <1>3 DEF DetectMime, Redetect, Detected, document, history
    <2>2. /\ pc[s] \in {"mime", "redetect"}
          /\ \E to \in {"store", "intel", "launch", "failed"} : pc' = [pc EXCEPT ![s] = to]
      BY <1>3 DEF DetectMime, Redetect, Goto
    <2>3. \A t \in Scans : /\ pc'[t] = "fill" <=> pc[t] = "fill"
                           /\ pc'[t] \in After => pc[t] \in After
      BY <2>2 DEF TypeOK, After
    <2> QED
      BY <1>b, <2>1, <2>3, NoCopyKeeps, NoReportKeeps DEF Sharing
  <1>4. CASE Store(s) \/ IntelDone(s) \/ Launch(s) \/ FilesDone(s)
    <2>1. UNCHANGED <<results, blind, volume, writer, broken>>
      BY <1>4 DEF Store, IntelDone, Launch, FilesDone, document, history
    <2>2. /\ pc[s] \in {"store", "intel", "launch", "files"}
          /\ \E to \in {"setup", "failed", "redetect", "launch", "files", "returned"} :
                pc' = [pc EXCEPT ![s] = to]
      BY <1>4 DEF Store, IntelDone, Launch, FilesDone, Goto
    <2>3. \A t \in Scans : /\ pc'[t] = "fill" <=> pc[t] = "fill"
                           /\ pc'[t] \in After => pc[t] \in After
      BY <2>2 DEF TypeOK, After
    <2> QED
      BY <1>b, <2>1, <2>3, NoCopyKeeps, NoReportKeeps DEF Sharing
  <1>5. ASSUME NEW e \in running[s], Report(s, e)
        PROVE  Sharing'
    <2>1. UNCHANGED <<volume, writer, broken, pc>>
      BY <1>5 DEF Report
    <2>2. FillsIt' /\ BeingFilled' /\ Copied'
      BY <1>b, <2>1, NoCopyKeeps
    <2> QED
      BY <1>5, <1>b, <2>2, ReportKeeps DEF Sharing
  <1>6. ASSUME NEW e \in running[s], BreakDown(s, e)
        PROVE  Sharing'
    <2>1. UNCHANGED <<volume, writer, results, blind, pc>> /\ broken \subseteq broken'
      BY <1>6 DEF BreakDown, document
    <2> QED
      BY <1>b, <2>1, NoCopyKeeps, NoReportKeeps DEF Sharing
  <1> QED
    BY <1>1, <1>2, <1>3, <1>4, <1>5, <1>6 DEF Step

-----------------------------------------------------------------------------
IInv == TypeOK /\ Control /\ Account /\ Sharing

(* IInv is inductive.                                                      *)
LEMMA LifecycleStep == IInv /\ [Next]_vars => IInv'
  <1> SUFFICES ASSUME IInv, [Next]_vars PROVE IInv'
    OBVIOUS
  <1>1. ASSUME NEW s \in Scans, Step(s)
        PROVE  IInv'
    <2>1. Sharing'
      BY <1>1, SharingKeeps DEF IInv
    <2>2. ASSUME NEW e \in running[s], Report(s, e) \/ BreakDown(s, e)
          PROVE  TypeOK' /\ Control' /\ Account'
      BY <2>2, ControlEngine, AccountEngine DEF IInv
    <2>3. CASE \/ Setup(s) \/ Stat(s) \/ BeginCopy(s) \/ FillCopy(s) \/ EndCopy(s)
               \/ DetectMime(s) \/ Store(s) \/ IntelDone(s) \/ Redetect(s)
               \/ Launch(s) \/ FilesDone(s)
      BY <2>1, <2>3, ControlCopy, ControlRun, AccountKeeps DEF IInv
    <2> QED
      BY <1>1, <2>1, <2>2, <2>3 DEF IInv, Step
  <1>2. CASE UNCHANGED vars
    <2>1. TypeOK' /\ Control' /\ Account'
      BY <1>2 DEF vars, IInv, TypeOK, Control, ControlOf, Account, AccountOf, Through
    <2>2. Sharing'
      BY <1>2 DEF vars, IInv, Sharing, Beside, FillsIt, BeingFilled, Copied, SeesWholeSample,
                  FromSample, Active, Botched
    <2> QED
      BY <2>1, <2>2 DEF IInv
  <1> QED
    BY <1>1, <1>2 DEF Next

(* Every reachable state of every instance satisfies IInv.                 *)
THEOREM LifecycleInvariant == Spec => []IInv
  <1>1. Init => IInv
    BY ControlInit, AccountInit, SharingInit DEF IInv
  <1> QED
    BY <1>1, LifecycleStep, PTL DEF Spec

(* The variables keep their types.                                         *)
THEOREM LifecycleTypeCorrect == Spec => []TypeOK
  <1>1. IInv => TypeOK
    BY DEF IInv
  <1> QED
    BY <1>1, LifecycleInvariant, PTL

(* The two setups of an upload make one document, and engines only write    *)
(* to a document that is there.                                            *)
THEOREM OneDocumentEach == Spec => []OneDocument
  <1>1. IInv => OneDocument
    <2> SUFFICES ASSUME IInv, NEW s \in Scans
                 PROVE  docs[s] <= 1 /\ (running[s] # {} => docs[s] = 1)
      BY DEF OneDocument
    <2>1. ControlOf(s) /\ round[s] \in {1, 2}
      BY DEF IInv, TypeOK, Control
    <2>2. docs[s] \in {0, 1}
      BY <2>1 DEF ControlOf
    <2>3. running[s] # {} => docs[s] = 1
      BY <2>1 DEF ControlOf, Running
    <2> QED
      BY <2>2, <2>3
  <1> QED
    BY <1>1, LifecycleInvariant, PTL

(* However many scans share a sample's file, and wherever docker's copies   *)
(* replace each other, an engine misses the sample only beside another scan *)
(* of it or after a failed copy.                                           *)
THEOREM WholeSampleSeen == Spec => []SeesWholeSample
  <1>1. IInv => SeesWholeSample
    BY DEF IInv, Sharing
  <1> QED
    BY <1>1, LifecycleInvariant, PTL

(* The progress of a scan that has returned is `N of N' but for the engines  *)
(* that broke down, for every set of plugins and mime types.               *)
THEOREM ProgressIsComplete == Spec => []ProgressCompletes
  <1>1. IInv => ProgressCompletes
    <2> SUFFICES ASSUME IInv, NEW s \in Scans, pc[s] = "returned",
                        docMime[s] = mime[s] \/ <<s, "mime">> \notin broken
                 PROVE  Expected(s) = Reported(s) \cup {e \in Engines : <<s, e>> \in broken}
      BY DEF ProgressCompletes
    <2>1. docMime[s] = mime[s] /\ running[s] = {}
      BY DEF IInv, Control, ControlOf, Running
    <2>2. Through(s) = ScanPlugins(mime[s])
      BY <2>1 DEF IInv, Account, AccountOf
    <2> QED
      BY <2>1, <2>2 DEF Through, Expected, Reported, isNullResult
  <1> QED
    BY <1>1, LifecycleInvariant, PTL

(* No bogus `clean', whatever the engines find and whichever of them apply. *)
THEOREM CleanMeansClean == Spec => []NoBogusClean
  <1>1. IInv => NoBogusClean
    <2> SUFFICES ASSUME IInv, NEW s \in Scans, pc[s] = "returned",
                        s \notin met, ~Botched(sampleOf[s]),
                        NEW e \in ScanPlugins(mime[s]),
                        isDetection(e, Finds[e][sampleOf[s]]), <<s, e>> \notin broken
                 PROVE  Verdict(s) = "threat"
      BY DEF NoBogusClean
    <2>1. e \in Engines
      BY PluginsAreEngines DEF IInv, TypeOK, ScanPlugins
    <2>2. running[s] = {}
      BY DEF IInv, Control, ControlOf
    <2>3. results[s][e] # Null
      BY <2>1, <2>2 DEF IInv, Account, AccountOf, Through
    <2>4. results[s][e] = Finds[e][sampleOf[s]]
      BY <2>1, <2>3 DEF IInv, Sharing, SeesWholeSample, FromSample
    <2>5. e \in detections(s)
      BY <2>1, <2>3, <2>4 DEF detections, Reported, isNullResult
    <2> QED
      BY <2>5 DEF Verdict
  <1> QED
    BY <1>1, LifecycleInvariant, PTL

-----------------------------------------------------------------------------
(* What the slots of a document hold is an outcome of their engine.        *)
Genuine == \A s \in Scans, e \in Engines : results[s][e] \in {Null} \cup Outcomes(e)

(* An outcome is a result.                                                 *)
LEMMA OutcomesAreResults == \A e \in Engines : Outcomes(e) \subseteq Results
  BY ResultsAssumption DEF Outcomes

(* A slot is null until its engine reports, and keeps what it reported.    *)
LEMMA SlotsAreGenuine == Spec => []Genuine
  <1>1. Init => Genuine
    BY DEF Init, Genuine
  <1>2. IInv /\ Genuine /\ [Next]_vars => Genuine'
    <2> SUFFICES ASSUME IInv, Genuine, [Next]_vars PROVE Genuine'
      OBVIOUS
    <2>1. ASSUME UNCHANGED results PROVE Genuine'
      BY <2>1 DEF Genuine
    <2>2. ASSUME NEW s \in Scans, NEW e \in running[s], Report(s, e) PROVE Genuine'
      <3>1. e \in Engines /\ sampleOf[s] \in Samples
        BY DEF IInv, TypeOK
      <3>2. PICK res \in Outcomes(e) : results' = [results EXCEPT ![s][e] = res]
        BY <2>2, <3>1 DEF Report, Outcomes
      <3>3. ASSUME NEW t \in Scans, NEW d \in Engines
            PROVE  results'[t][d] \in {Null} \cup Outcomes(d)
        <4>1. results'[t][d] = IF t = s /\ d = e THEN res ELSE results[t][d]
          BY <3>1, <3>2 DEF IInv, TypeOK
        <4> QED
          BY <3>2, <4>1 DEF Genuine
      <3> QED
        BY <3>3 DEF Genuine
    <2>3. ASSUME NEW s \in Scans, NEW e \in running[s], BreakDown(s, e) PROVE Genuine'
      BY <2>1, <2>3 DEF BreakDown, document
    <2>4. ASSUME NEW s \in Scans,
                 \/ Setup(s) \/ Stat(s) \/ BeginCopy(s) \/ FillCopy(s) \/ EndCopy(s)
          PROVE  Genuine'
      BY <2>1, <2>4 DEF Setup, Stat, BeginCopy, FillCopy, EndCopy, document
    <2>5. ASSUME NEW s \in Scans,
                 \/ DetectMime(s) \/ Store(s) \/ IntelDone(s) \/ Redetect(s)
                 \/ Launch(s) \/ FilesDone(s)
          PROVE  Genuine'
      BY <2>1, <2>5 DEF DetectMime, Store, IntelDone, Redetect, Detected, Launch, FilesDone,
                        document
    <2>6. CASE UNCHANGED vars
      BY <2>1, <2>6 DEF vars
    <2> QED
      BY <2>2, <2>3, <2>4, <2>5, <2>6 DEF Next, Step
  <1> QED
    BY <1>1, <1>2, LifecycleInvariant, PTL DEF Spec

(* One slot, as the server and the page read it.                           *)
LEMMA SlotsAgree ==
    ASSUME IInv, Genuine, NEW s \in Scans, NEW e \in Engines
    PROVE  /\ e \in detections(s) => Card(e, results[s][e]) = "detection"
           /\ Card(e, results[s][e]) = "detection" => e \in detections(s) \/ e \in Ambiguous
  <1>1. results[s][e] = Null \/ (results[s][e] \in Outcomes(e) /\ results[s][e] \in Results)
    BY OutcomesAreResults DEF Genuine
  <1>2. CASE results[s][e] = Null
    <2>1. Card(e, results[s][e]) = "not run" /\ e \notin detections(s)
      BY <1>2 DEF Card, isNullResult, isDetectionJS, detections, Reported
    <2> QED
      BY <2>1
  <1>3. CASE results[s][e] \in Outcomes(e) /\ results[s][e] \in Results
    <2>1. ~isNullResult(results[s][e])
      BY <1>3, ResultsAreNotNull
    <2>2. e \in detections(s) <=> isDetection(e, results[s][e])
      BY <2>1 DEF detections, Reported
    <2>3. Card(e, results[s][e]) = "detection" <=> isDetectionJS(e, results[s][e])
      <3> DEFINE res == results[s][e]
      <3> HIDE DEF res
      <3>1. ~isNullResult(res)
        BY <2>1 DEF res
      <3>2. CASE isDetectionJS(e, res)
        <4>1. Card(e, res) = "detection"
          BY <3>1, <3>2 DEF Card
        <4> QED
          BY <3>2, <4>1 DEF res
      <3>3. CASE ~isDetectionJS(e, res)
        <4>1. Card(e, res) = IF res.status \in {"skipped", "error"} THEN res.status ELSE "clean"
          BY <3>1, <3>3 DEF Card
        <4>2. Card(e, res) # "detection"
          BY <4>1
        <4> QED
          BY <3>3, <4>2 DEF res
      <3> QED
        BY <3>2, <3>3
    <2>4. CASE e \notin Special
      BY <1>3, <2>2, <2>3, <2>4, RulesAgree
    <2>5. CASE e \in Special
      <3>1. isDetection(e, results[s][e]) <=> SpecialDetection(e, results[s][e])
        BY <2>5 DEF isDetection
      <3>2. isDetectionJS(e, results[s][e])
               <=> Flagged(results[s][e]) \/ SpecialDetection(e, results[s][e])
        BY <2>1, <2>5 DEF isDetectionJS
      <3> QED
        BY <1>3, <2>2, <2>3, <2>5, <3>1, <3>2 DEF Ambiguous
    <2> QED
      BY <2>4, <2>5
  <1> QED
    BY <1>1, <1>2, <1>3

(* Where the two implementations of the rule can part on the detail page:    *)
(* never towards a threat without a card that says why, and towards a card   *)
(* under `No threat detected' only with one of the three special engines,  *)
(* when it stores what another engine's detection would look like.         *)
THEOREM PagePartsOnSpecialsOnly ==
    Spec => [](\A s \in Scans :
                  /\ ScanDetail(s).verdict = "threat"
                        => \E e \in Engines : ScanDetail(s).cards[e] = "detection"
                  /\ \A e \in Engines \ Ambiguous :
                        ScanDetail(s).cards[e] = "detection" => ScanDetail(s).verdict = "threat")
  <1>1. IInv /\ Genuine =>
           \A s \in Scans :
              /\ ScanDetail(s).verdict = "threat"
                    => \E e \in Engines : ScanDetail(s).cards[e] = "detection"
              /\ \A e \in Engines \ Ambiguous :
                    ScanDetail(s).cards[e] = "detection" => ScanDetail(s).verdict = "threat"
    <2> SUFFICES ASSUME IInv, Genuine, NEW s \in Scans
                 PROVE  /\ ScanDetail(s).verdict = "threat"
                              => \E e \in Engines : ScanDetail(s).cards[e] = "detection"
                        /\ \A e \in Engines \ Ambiguous :
                              ScanDetail(s).cards[e] = "detection"
                                 => ScanDetail(s).verdict = "threat"
      OBVIOUS
    <2>1. /\ ScanDetail(s).verdict = "threat" <=> detections(s) # {}
          /\ \A e \in Engines : ScanDetail(s).cards[e] = Card(e, results[s][e])
      BY DEF ScanDetail, Verdict
    <2>2. detections(s) \subseteq Engines
      BY DEF detections, Reported
    <2> QED
      BY <2>1, <2>2, SlotsAgree
  <1> QED
    BY <1>1, LifecycleInvariant, SlotsAreGenuine, PTL

(* The banner and the cards agree in every state of every scan, as long as   *)
(* the special engines keep to the fields they are judged by.              *)
THEOREM PageAgreement ==
    ASSUME Ambiguous = {}
    PROVE  Spec => []PageAgrees
  <1>1. IInv /\ Genuine => PageAgrees
    <2> SUFFICES ASSUME IInv, Genuine, NEW s \in Scans
                 PROVE  ScanDetail(s).verdict = "threat"
                           <=> \E e \in Engines : ScanDetail(s).cards[e] = "detection"
      BY DEF PageAgrees
    <2>1. /\ ScanDetail(s).verdict = "threat" <=> detections(s) # {}
          /\ \A e \in Engines : ScanDetail(s).cards[e] = Card(e, results[s][e])
      BY DEF ScanDetail, Verdict
    <2>2. detections(s) \subseteq Engines
      BY DEF detections, Reported
    <2> QED
      BY <2>1, <2>2, SlotsAgree
  <1> QED
    BY <1>1, LifecycleInvariant, SlotsAreGenuine, PTL

-----------------------------------------------------------------------------
Detecting == {"setup", "stat", "write", "fill", "mime", "store"}

(* To the run of s, a step that launches no engine, ends none and leaves the *)
(* phase is none.                                                          *)
LEMMA NothingInTheRun ==
    ASSUME NEW s \in Scans, Through(s)' = Through(s), running'[s] = running[s],
           Phase(s)' = Phase(s)
    PROVE  UNCHANGED Run(s)!run
  BY DEF Run!run

(* The steps of s up to the document, and the detection after it.           *)
LEMMA BeforeMaps ==
    ASSUME TypeOK, Control, Account, NEW s \in Scans,
           \/ Setup(s) \/ Stat(s) \/ BeginCopy(s) \/ FillCopy(s) \/ EndCopy(s)
           \/ DetectMime(s) \/ Store(s)
    PROVE  [Run(s)!Next]_(Run(s)!run)
  <1>c. Through(s)' = Through(s)
    BY NoEngineStep
  <1>p. pc[s] \in Detecting /\ running[s] = {}
    <2>1. pc[s] \in Detecting
      BY DEF Setup, Stat, BeginCopy, FillCopy, EndCopy, DetectMime, Store, Goto, Detecting
    <2> QED
      BY <2>1 DEF Control, ControlOf, Detecting
  <1>1. CASE pc'[s] \in Detecting
    <2>1. running'[s] = {}
      BY <1>1, <1>p DEF Setup, Stat, BeginCopy, FillCopy, EndCopy, DetectMime, Store, Goto,
                        Detecting, TypeOK
    <2>2. Phase(s)' = Phase(s)
      BY <1>1, <1>p DEF Phase, Detecting
    <2> QED
      BY <1>c, <1>p, <2>1, <2>2, NothingInTheRun
  <1>2. CASE pc'[s] \notin Detecting
    <2>1. CASE DetectMime(s)
      <3>1. pc'[s] = "intel" /\ running'[s] = Intel
        BY <1>2, <2>1 DEF DetectMime, Goto, Detecting, TypeOK
      <3>2. Run(s)!StartIntel
        BY <1>c, <1>p, <3>1 DEF Run!StartIntel, Run!Goto, Phase, Detecting
      <3> QED
        BY <3>2 DEF Run!Next
    <2>2. CASE ~DetectMime(s)
      <3>1. pc'[s] = "failed" /\ running' = running
        BY <1>2, <2>2 DEF Setup, Stat, BeginCopy, FillCopy, EndCopy, Store, Goto,
                          Detecting, TypeOK
      <3>2. Run(s)!GiveUp
        BY <1>c, <1>p, <3>1 DEF Run!GiveUp, Run!Goto, Phase, Detecting
      <3> QED
        BY <3>2 DEF Run!Next
    <2> QED
      BY <2>1, <2>2
  <1> QED
    BY <1>1, <1>2

(* The steps of scanRun.                                                   *)
LEMMA RunMaps ==
    ASSUME TypeOK, Control, Account, NEW s \in Scans,
           IntelDone(s) \/ Redetect(s) \/ Launch(s) \/ FilesDone(s)
    PROVE  [Run(s)!Next]_(Run(s)!run)
  <1>c. Through(s)' = Through(s)
    BY NoEngineStep
  <1>a. ControlOf(s) /\ AccountOf(s)
    BY DEF Control, Account
  <1>1. CASE IntelDone(s)
    <2>1. /\ pc[s] = "intel" /\ pc'[s] \in {"redetect", "launch"}
          /\ running[s] = {} /\ running' = running
      BY <1>1 DEF IntelDone, Goto, TypeOK
    <2>2. Run(s)!IntelDone
      BY <1>c, <2>1 DEF Run!IntelDone, Run!Goto, Phase
    <2> QED
      BY <2>2 DEF Run!Next
  <1>2. CASE Redetect(s)
    <2>1. /\ pc[s] = "redetect" /\ pc'[s] \in {"launch", "failed"}
          /\ running' = running
      BY <1>2 DEF Redetect, Goto, TypeOK
    <2>2. CASE pc'[s] = "launch"
      BY <1>c, <2>1, <2>2, NothingInTheRun DEF Phase
    <2>3. CASE pc'[s] = "failed"
      <3>1. Run(s)!GiveUp
        BY <1>c, <2>1, <2>3 DEF Run!GiveUp, Run!Goto, Phase
      <3> QED
        BY <3>1 DEF Run!Next
    <2> QED
      BY <2>1, <2>2, <2>3
  <1>3. CASE Launch(s)
    <2>1. /\ pc[s] = "launch" /\ pc'[s] = "files"
          /\ running'[s] = PluginsForMime(mime[s])
      BY <1>3 DEF Launch, Goto, TypeOK
    <2>2. mime[s] \in Mimes \cup {Undetected}
      BY DEF TypeOK
    <2>3. Through(s) = Intel
      BY <1>a, <2>1 DEF AccountOf
    <2>4. PluginsForMime(mime[s]) \cap Intel = {}
      BY <2>2, PluginsAssumption DEF PluginsForMime
    <2>5. Run(s)!StartEngines(PluginsForMime(mime[s]))
      BY <1>c, <2>1, <2>3, <2>4 DEF Run!StartEngines, Run!Goto, Phase
    <2> QED
      BY <2>2, <2>5 DEF Run!Next
  <1>4. CASE FilesDone(s)
    <2>1. /\ pc[s] = "files" /\ pc'[s] = "returned"
          /\ running[s] = {} /\ running' = running
      BY <1>4 DEF FilesDone, Goto, TypeOK
    <2>2. Run(s)!Return
      BY <1>c, <2>1 DEF Run!Return, Run!Goto, Phase
    <2> QED
      BY <2>2 DEF Run!Next
  <1> QED
    BY <1>1, <1>2, <1>3, <1>4

(* The end of an engine, whether it reports or breaks down.                *)
LEMMA EngineMaps ==
    ASSUME TypeOK, NEW s \in Scans, NEW e \in running[s],
           Report(s, e) \/ BreakDown(s, e)
    PROVE  Run(s)!Next
  <1>1. /\ Phase(s)' = Phase(s)
        /\ running'[s] = running[s] \ {e}
        /\ Through(s)' = Through(s) \cup {e}
    BY EngineEnds DEF Phase, TypeOK
  <1>2. Run(s)!End(e)
    BY <1>1 DEF Run!End
  <1> QED
    BY <1>2 DEF Run!Next

(* What any step of s is in the runs of the other scans: nothing.           *)
LEMMA OthersUntouched ==
    ASSUME TypeOK, NEW s \in Scans, Step(s), NEW t \in Scans, t # s
    PROVE  UNCHANGED Run(t)!run
  <1>1. CASE \E e \in running[s] : Report(s, e) \/ BreakDown(s, e)
    <2>1. PICK e \in running[s] : Report(s, e) \/ BreakDown(s, e)
      BY <1>1
    <2>2. Through(t)' = Through(t) /\ running'[t] = running[t] /\ pc' = pc
      BY <2>1, EngineEnds DEF TypeOK
    <2>3. Phase(t)' = Phase(t)
      BY <2>2 DEF Phase
    <2> QED
      BY <2>2, <2>3, NothingInTheRun
  <1>2. CASE \/ Setup(s) \/ Stat(s) \/ BeginCopy(s) \/ FillCopy(s) \/ EndCopy(s)
             \/ DetectMime(s) \/ Store(s) \/ IntelDone(s) \/ Redetect(s)
             \/ Launch(s) \/ FilesDone(s)
    <2>1. Through(t)' = Through(t)
      BY <1>2, NoEngineStep
    <2>2. pc'[t] = pc[t] /\ running'[t] = running[t]
      BY <1>2 DEF Setup, Stat, BeginCopy, FillCopy, EndCopy, DetectMime, Store, IntelDone,
                  Redetect, Launch, FilesDone, Goto, TypeOK
    <2>3. Phase(t)' = Phase(t)
      BY <2>2 DEF Phase
    <2> QED
      BY <2>1, <2>2, <2>3, NothingInTheRun
  <1> QED
    BY <1>1, <1>2 DEF Step

(* Every step is in the run of every scan a step of TwoPhaseRun or none.    *)
LEMMA LifecycleMaps == IInv /\ [Next]_vars => RunsNext
  <1> SUFFICES ASSUME IInv, [Next]_vars, NEW t \in Scans
               PROVE  [Run(t)!Next]_(Run(t)!run)
    BY DEF RunsNext
  <1> USE DEF IInv
  <1>1. ASSUME NEW s \in Scans, Step(s)
        PROVE  [Run(t)!Next]_(Run(t)!run)
    <2>1. CASE t # s
      BY <1>1, <2>1, OthersUntouched
    <2>2. CASE t = s
      <3>1. CASE \/ Setup(s) \/ Stat(s) \/ BeginCopy(s) \/ FillCopy(s) \/ EndCopy(s)
                 \/ DetectMime(s) \/ Store(s)
        BY <2>2, <3>1, BeforeMaps
      <3>2. CASE IntelDone(s) \/ Redetect(s) \/ Launch(s) \/ FilesDone(s)
        BY <2>2, <3>2, RunMaps
      <3>3. CASE \E e \in running[s] : Report(s, e) \/ BreakDown(s, e)
        BY <2>2, <3>3, EngineMaps
      <3> QED
        BY <1>1, <3>1, <3>2, <3>3 DEF Step
    <2> QED
      BY <2>1, <2>2
  <1>2. CASE UNCHANGED vars
    <2>1. Through(t)' = Through(t) /\ running'[t] = running[t] /\ Phase(t)' = Phase(t)
      BY <1>2 DEF vars, Through, Phase
    <2> QED
      BY <2>1, NothingInTheRun
  <1> QED
    BY <1>1, <1>2 DEF Next

(* However many scans go on at once, and whatever fails, each scan starts    *)
(* its intel engines, awaits them all, starts those of one mime type,        *)
(* awaits them and returns, or gives up between two phases.                *)
THEOREM LifecycleImplements == Spec => ImplementsTwoPhaseRun
  <1>1. Init => RunsInit
    BY DEF Init, RunsInit, Run!Init, Phase, Through
  <1> QED
    BY <1>1, LifecycleInvariant, LifecycleMaps, PTL DEF Spec, ImplementsTwoPhaseRun

(* So the run of any one scan, by itself, is one of TwoPhaseRun.            *)
COROLLARY EveryRunImplements ==
    ASSUME NEW s \in Scans PROVE Spec => Run(s)!Spec
  <1>1. Init => Run(s)!Init
    BY DEF Init, Run!Init, Phase, Through
  <1>2. IInv /\ [Next]_vars => [Run(s)!Next]_(Run(s)!run)
    BY LifecycleMaps DEF RunsNext
  <1> QED
    BY <1>1, <1>2, LifecycleInvariant, PTL DEF Spec, Run!Spec
=============================================================================
