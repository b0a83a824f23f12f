---------------------------- MODULE ScanLifecycle ----------------------------
(***************************************************************************)
(* A scan of the REST API from APIScanInit to the last engine's result:     *)
(* scanSetup, scanStore, scanRun, APIScanInit and APIScanRun               *)
(* (src/commands/scan.go), CopyToVolume (src/malice/docker/client/          *)
(* container/copy.go), GetMimeType (src/malice/persist/file.go), the choice *)
(* of engines (src/plugins/list.go) and what summarizeScan                 *)
(* (src/api/server.go) reads off the scan document.                        *)
(*                                                                         *)
(* Covered: the setup that runs twice for one upload; the sample's file in  *)
(* the malice volume, named by its SHA256 and shared by all scans of the    *)
(* same sample, with the stat and the copy as separate steps; the errors   *)
(* of the copy, which are only logged; the best-effort detection of the    *)
(* mime type, once for the document and once for the choice of engines.    *)
(*                                                                         *)
(* Abstracted: an engine either reports or does not (EngineFanout has its   *)
(* goroutine and its container); Detection has what its result means.      *)
(* External: docker's extraction of an archive, which replaces the file at *)
(* the path by a new one and then fills it; and Elasticsearch.             *)
(***************************************************************************)
EXTENDS Naturals, FiniteSets, Detection

CONSTANTS Scans,        \* the uploads that are scanned
          Samples,      \* the SHA256 sums
          Uploaded,     \* the assignments of a sample to each upload
          Mimes,        \* the mime types
          MimeOf,       \* MimeOf[h]: the mime type of the sample h
          Intel,        \* the enabled plugins of category intel
          Wildcard,     \* the enabled plugins with a `*' in their mime
          Listed,       \* Listed[m]: the enabled plugins that list m exactly
          Finds,        \* Finds[e][h]: what e stores when it reads all of h
          Blank,        \* Blank[e]: what e stores when it finds nothing
          Faults,       \* the calls that may fail
          MaxFaults     \* a bound: how many parts of scans fail
Undetected == ""

ASSUME SamplesAssumption == /\ Uploaded \subseteq [Scans -> Samples]
                            /\ Undetected \notin Mimes
                            /\ MimeOf \in [Samples -> Mimes]
Engines == Intel \cup Wildcard \cup UNION {Listed[m] : m \in Mimes}

ASSUME PluginsAssumption == /\ IsFiniteSet(Engines)
                            /\ {"copy", "mime"} \cap Engines = {}
                            /\ \A m \in Mimes : Listed[m] \cap Intel = {}
                            /\ Wildcard \cap Intel = {}
ASSUME ResultsAssumption == /\ Blank \in [Engines -> Results]
                            /\ Finds \in [Engines -> [Samples -> Results]]
ASSUME FaultsAssumption ==
    Faults \subseteq {"setup", "helper", "stat", "copy", "mime", "store", "engine"}
ASSUME BoundAssumption == MaxFaults \in Nat

VARIABLES
    sampleOf,   \* sampleOf[s]: what upload s contains
    pc,         \* pc[s]: where the setup and the run of s are
    round,      \* round[s]: 1 in APIScanInit, 2 in APIScanRun
    volume,     \* volume[h]: the file of h in the malice volume
    writer,     \* writer[h]: the scans whose copy the path of h names
    mime,       \* mime[s]: file.MimeType in the current scanCtx
    docs,       \* docs[s]: the number of scan documents stored for s
    docMime,    \* docMime[s]: file.mime_type in the document
    running,    \* running[s]: the engines at work on s
    results,    \* results[s][e]: the slot of engine e in the document of s
    blind,      \* history: the (scan, engine) pairs that met no whole sample
    broken,     \* history: the (scan, part) pairs that failed
    met         \* history: the scans beside which one of the same sample ran

vars == <<sampleOf, pc, round, volume, writer, mime, docs, docMime, running,
          results, blind, broken, met>>
document == <<docs, docMime, results>>
history  == <<sampleOf, blind, broken, met>>

-----------------------------------------------------------------------------
PCs   == {"setup", "stat", "write", "fill", "mime", "store", "intel", "redetect",
          "launch", "files", "returned", "failed"}
Files == {"absent", "empty", "partial", "whole"}

(* GetPluginsForMime and ScanPlugins (list.go:91-123): an undetected mime   *)
(* type matches the wildcard plugins only.                                 *)
PluginsForMime(m) == Wildcard \cup IF m = Undetected THEN {} ELSE Listed[m]
ScanPlugins(m)    == PluginsForMime(m) \cup Intel

(* summarizeScan: the slots that are filled, the engines that count as the  *)
(* denominator of progress, the detections and the verdict.                *)
Reported(s)   == {e \in Engines : ~isNullResult(results[s][e])}
Expected(s)   == ScanPlugins(docMime[s])
detections(s) == {e \in Reported(s) : isDetection(e, results[s][e])}
Verdict(s)    == IF detections(s) # {} THEN "threat" ELSE "clean"

(* The detail page of a scan whose document is there: the server's verdict *)
(* in the banner, the page's own reading of each engine in the cards.      *)
ScanDetail(s) == [verdict |-> Verdict(s),
                  cards   |-> [e \in Engines |-> Card(e, results[s][e])]]

Init == /\ sampleOf \in Uploaded
        /\ pc = [s \in Scans |-> "setup"]
        /\ round = [s \in Scans |-> 1]
        /\ volume = [h \in Samples |-> "absent"]
        /\ writer = [h \in Samples |-> {}]
        /\ mime = [s \in Scans |-> Undetected]
        /\ docs = [s \in Scans |-> 0]
        /\ docMime = [s \in Scans |-> Undetected]
        /\ running = [s \in Scans |-> {}]
        /\ results = [s \in Scans |-> [e \in Engines |-> Null]]
        /\ blind = {}
        /\ broken = {}
        /\ met = {}

Fails(call) == call \in Faults /\ Cardinality(broken) < MaxFaults

Goto(s, from, to) == /\ pc[s] = from
                     /\ pc' = [pc EXCEPT ![s] = to]

-----------------------------------------------------------------------------
Active(s) == /\ pc[s] \notin {"returned", "failed"}
             /\ pc[s] = "setup" => round[s] = 2
Peers(s)  == {t \in Scans \ {s} : sampleOf[t] = sampleOf[s] /\ Active(t)}

(* scanSetup up to the copy: the checks of the path, the database, the      *)
(* plugin images and the hashes end it with an error, or                   *)
(* CopyToVolume starts its helper container, whose failure is only logged. *)
Setup(s) == /\ \/ Goto(s, "setup", "stat") /\ UNCHANGED broken
               \/ /\ Goto(s, "setup", "mime") /\ Fails("helper")
                  /\ broken' = broken \cup {<<s, "copy">>}
               \/ Goto(s, "setup", "failed") /\ Fails("setup") /\ UNCHANGED broken
            /\ met' = IF Peers(s) = {} THEN met ELSE met \cup {s} \cup Peers(s)
            /\ UNCHANGED <<sampleOf, round, volume, writer, mime, document, running, blind>>

(* Mutant of the test whether the sample is there: always.                 *)
StatFindsIt(s)  == /\ Goto(s, "stat", "mime")
                   /\ UNCHANGED <<round, volume, writer, mime, document, running, history>>

(* A file of Size > 0 counts as the sample; a stat that fails does not.    *)
Stat(s) == LET h == sampleOf[s]
               there == volume[h] \in {"partial", "whole"}
           IN /\ \/ Goto(s, "stat", "mime") /\ there
                 \/ Goto(s, "stat", "write") /\ (~there \/ Fails("stat"))
              /\ UNCHANGED <<round, volume, writer, mime, document, running, history>>

(* CopyToContainer replaces what the path names ...                        *)
BeginCopy(s) == LET h == sampleOf[s]
                IN /\ Goto(s, "write", "fill")
                   /\ volume' = [volume EXCEPT ![h] = "empty"]
                   /\ writer' = [writer EXCEPT ![h] = {s}]
                   /\ UNCHANGED <<round, mime, document, running, history>>

(* ... and fills it, part by part; an error is only logged.                *)
FillCopy(s) == LET h == sampleOf[s]
               IN /\ pc[s] = "fill"
                  /\ volume[h] = "empty"
                  /\ s \in writer[h]
                  /\ volume' = [volume EXCEPT ![h] = "partial"]
                  /\ UNCHANGED <<pc, round, writer, mime, document, running, history>>

EndCopy(s) == LET h == sampleOf[s]
              IN /\ Goto(s, "fill", "mime")
                 /\ \/ /\ s \in writer[h]
                       /\ volume' = [volume EXCEPT ![h] = "whole"]
                       /\ UNCHANGED broken
                    \/ s \notin writer[h] /\ UNCHANGED <<volume, broken>>
                    \/ /\ Fails("copy")
                       /\ broken' = broken \cup {<<s, "copy">>}
                       /\ UNCHANGED volume
                 /\ UNCHANGED <<sampleOf, round, writer, mime, document, running, blind, met>>

(* GetMimeType as a relation: on the whole sample it returns its type or    *)
(* fails; on anything else it may return what it likes.  The helper is      *)
(* removed by docker as soon as it exits, perhaps before its output is read.*)
Detect(s) == {m \in Mimes \cup {Undetected} :
                 \/ m = Undetected /\ Fails("mime")
                 \/ volume[sampleOf[s]] = "whole" => m = MimeOf[sampleOf[s]]}

Detected(s) == /\ mime' \in {[mime EXCEPT ![s] = m] : m \in Detect(s)}
               /\ broken' = IF mime'[s] = MimeOf[sampleOf[s]] THEN broken
                            ELSE broken \cup {<<s, "mime">>}
               /\ UNCHANGED <<sampleOf, round, volume, writer, document, blind, met>>

(* Mutant: the run stores a document of its own.                            *)
StoreInBoth(s) ==
    /\ Goto(s, "mime", "store")
    /\ Detected(s)
    /\ running' = [running EXCEPT ![s] = IF round[s] = 1 THEN {} ELSE Intel]

(* Round 1 goes on to scanStore, round 2 to scanRun.                        *)
DetectMime(s) ==
    /\ Goto(s, "mime", IF round[s] = 1 THEN "store" ELSE "intel")
    /\ Detected(s)
    /\ running' = [running EXCEPT ![s] = IF round[s] = 1 THEN {} ELSE Intel]

(* Mutants of scanStore: the mime type left out of the document; a failure *)
(* that starts over.                                                       *)
StoreNoMime(s) == /\ Goto(s, "store", "setup")
                  /\ docs' = [docs EXCEPT ![s] = @ + 1]
                  /\ round' = [round EXCEPT ![s] = 2]
                  /\ UNCHANGED <<docMime, volume, writer, mime, running, results, history>>
StoreRetries(s) == \/ /\ Goto(s, "store", "setup")
                      /\ docs' = [docs EXCEPT ![s] = @ + 1]
                      /\ docMime' = [docMime EXCEPT ![s] = mime[s]]
                      /\ round' = [round EXCEPT ![s] = 2]
                      /\ UNCHANGED <<volume, writer, mime, running, results, history>>
                   \/ /\ Goto(s, "store", "setup")
                      /\ UNCHANGED <<round, volume, writer, mime, document, running, history>>

(* scanStore: one document, its slots null.  APIScanInit returns the id;    *)
(* APIScanRun starts over with scanSetup.                                  *)
Store(s) == /\ \/ /\ Goto(s, "store", "setup")
                  /\ docs' = [docs EXCEPT ![s] = @ + 1]
                  /\ docMime' = [docMime EXCEPT ![s] = mime[s]]
                  /\ round' = [round EXCEPT ![s] = 2]
               \/ /\ Goto(s, "store", "failed")
                  /\ Fails("store")
                  /\ UNCHANGED <<docs, docMime, round>>
            /\ UNCHANGED <<volume, writer, mime, running, results, history>>

(* Mutant: the intel engines are not waited for.                           *)
IntelNotAwaited(s) ==
    /\ Goto(s, "intel", IF mime[s] = Undetected THEN "redetect" ELSE "launch")
    /\ UNCHANGED <<round, volume, writer, mime, document, running, history>>

(* scanRun: the intel engines, a second detection if the mime type is empty *)
(* (its error ends the scan), the engines for that type.                   *)
IntelDone(s) == /\ Goto(s, "intel", IF mime[s] = Undetected THEN "redetect" ELSE "launch")
                /\ running[s] = {}
                /\ UNCHANGED <<round, volume, writer, mime, document, running, history>>

Redetect(s) == \/ /\ Goto(s, "redetect", "launch")
                  /\ Detected(s)
                  /\ UNCHANGED running
               \/ /\ Goto(s, "redetect", "failed")
                  /\ Fails("mime")
                  /\ UNCHANGED <<round, volume, writer, mime, document, running, history>>

(* Mutant: only the engines that take every file are started.              *)
LaunchWildcard(s) == /\ Goto(s, "launch", "files")
                     /\ running' = [running EXCEPT ![s] = Wildcard]
                     /\ UNCHANGED <<round, volume, writer, mime, document, history>>

Launch(s) == /\ Goto(s, "launch", "files")
             /\ running' = [running EXCEPT ![s] = PluginsForMime(mime[s])]
             /\ UNCHANGED <<round, volume, writer, mime, document, history>>

FilesDone(s) == /\ Goto(s, "files", "returned")
                /\ running[s] = {}
                /\ UNCHANGED <<round, volume, writer, mime, document, running, history>>

(* An engine reads the sample (an intel engine only its hash) and fills its *)
(* slot in the document; on less than the whole sample it finds nothing.   *)
Report(s, e) ==
    LET h == sampleOf[s]
        sees == e \in Intel \/ volume[h] = "whole"
    IN /\ e \in running[s]
       /\ running' = [running EXCEPT ![s] = @ \ {e}]
       /\ results' = [results EXCEPT ![s][e] = IF sees THEN Finds[e][h] ELSE Blank[e]]
       /\ blind' = IF sees THEN blind ELSE blind \cup {<<s, e>>}
       /\ UNCHANGED <<sampleOf, pc, round, volume, writer, mime, docs, docMime, broken, met>>

BreakDown(s, e) ==
    /\ e \in running[s]
    /\ Fails("engine")
    /\ running' = [running EXCEPT ![s] = @ \ {e}]
    /\ broken' = broken \cup {<<s, e>>}
    /\ UNCHANGED <<sampleOf, pc, round, volume, writer, mime, document, blind, met>>

Step(s) == \/ Setup(s) \/ Stat(s) \/ BeginCopy(s) \/ FillCopy(s) \/ EndCopy(s)
           \/ DetectMime(s) \/ Store(s) \/ IntelDone(s) \/ Redetect(s)
           \/ Launch(s) \/ FilesDone(s)
           \/ \E e \in running[s] : Report(s, e) \/ BreakDown(s, e)

Next == \E s \in Scans : Step(s)

Spec == Init /\ [][Next]_vars

(* Every call returns and every engine ends (EngineFanout and              *)
(* UploadAdmission say what happens when they do not).                     *)
FairSpec == Spec /\ \A s \in Scans : WF_vars(Step(s))

-----------------------------------------------------------------------------
(* The types of the variables.                                             *)
TypeOK == /\ sampleOf \in [Scans -> Samples]
          /\ pc \in [Scans -> PCs]
          /\ round \in [Scans -> {1, 2}]
          /\ volume \in [Samples -> Files]
          /\ writer \in [Samples -> SUBSET Scans]
          /\ mime \in [Scans -> Mimes \cup {Undetected}]
          /\ docs \in [Scans -> Nat]
          /\ docMime \in [Scans -> Mimes \cup {Undetected}]
          /\ running \in [Scans -> SUBSET Engines]
          /\ results \in [Scans -> [Engines -> Results \cup {Null}]]
          /\ blind \subseteq Scans \X Engines
          /\ broken \subseteq Scans \X (Engines \cup {"copy", "mime"})
          /\ met \subseteq Scans

(* The engines that have reported or broken down.                          *)
Through(s) == {e \in Engines : results[s][e] # Null \/ <<s, e>> \in broken}

(* The run of a scan, of which there is no more here than what TwoPhaseRun   *)
(* says: no engine at work before the second setup, nor at the detection of *)
(* the mime type in between; every engine once.                            *)
Phase(s) == IF pc[s] \in {"redetect", "launch"} THEN "between"
            ELSE IF pc[s] = "files" THEN "engines"
            ELSE IF pc[s] \in {"intel", "returned", "failed"} THEN pc[s] ELSE "before"
Run(s)   == INSTANCE TwoPhaseRun
                WITH MimeSets <- {PluginsForMime(m) : m \in Mimes \cup {Undetected}},
                     phase <- Phase(s), working <- running[s], through <- Through(s)

(* Every scan's run is one of TwoPhaseRun: Run(s)!Spec for every s, with the *)
(* quantifier inside the box, where TLC can check it.                      *)
RunsInit == \A s \in Scans : Run(s)!Init
RunsNext == \A s \in Scans : [Run(s)!Next]_(Run(s)!run)

ImplementsTwoPhaseRun == RunsInit /\ [][RunsNext]_vars

(* One upload makes one scan document at most, although the setup runs      *)
(* twice, and no engine is started without one to write to.                *)
OneDocument ==
    \A s \in Scans : /\ docs[s] <= 1
                     /\ running[s] # {} => docs[s] = 1

(* Some scan of the same sample could not copy it; the rest takes what is  *)
(* there for the sample.                                                   *)
Botched(h) == \E s \in Scans : sampleOf[s] = h /\ <<s, "copy">> \in broken

(* Every engine that reads the sample finds all of it in the volume, unless *)
(* a copy of it has failed or a scan of the same sample ran at the same    *)
(* time; a scan that comes after another one finds the file and leaves it. *)
SeesWholeSample ==
    \A s \in Scans, e \in Engines :
        <<s, e>> \in blind => s \in met \/ Botched(sampleOf[s])

(* What the unique names of the helpers are for: a second scan of the same  *)
(* sample keeps no engine from seeing it (copy.go:22-25).                  *)
SecondScanSeesIt ==
    \A s \in Scans, e \in Engines : <<s, e>> \in blind => Botched(sampleOf[s])

(* `This is exactly the set of engines scanRun fans out to [...] so its     *)
(* length is the correct denominator' (list.go:98-101): the progress       *)
(* reaches `N of N' when the scan returns, and only the engines that broke *)
(* down are missing, unless a later detection of the mime type failed and  *)
(* told another one than the first.                                        *)
ProgressCompletes ==
    \A s \in Scans :
        pc[s] = "returned" /\ (docMime[s] = mime[s] \/ <<s, "mime">> \notin broken)
        => Expected(s) = Reported(s) \cup {e \in Engines : <<s, e>> \in broken}

(* No bogus `clean': a scan that has returned shows a threat whenever an    *)
(* engine that applies to the mime type and did not break down detects the *)
(* sample, unless no whole copy of it was to be had.                       *)
NoBogusClean ==
    \A s \in Scans :
        /\ pc[s] = "returned"
        /\ s \notin met /\ ~Botched(sampleOf[s])
        /\ \E e \in ScanPlugins(mime[s]) : /\ isDetection(e, Finds[e][sampleOf[s]])
                                           /\ <<s, e>> \notin broken
        => Verdict(s) = "threat"

(* What an engine can have stored, and the special engines with a result     *)
(* that the server judges by their own field but the page by the others.   *)
Outcomes(e) == {Blank[e]} \cup {Finds[e][h] : h \in Samples}
Ambiguous   == {e \in Engines \cap Special :
                   \E res \in Outcomes(e) : Flagged(res) /\ ~SpecialDetection(e, res)}

(* The banner of the detail page says `Threat detected' exactly when one of *)
(* the cards under it says `Detection', in every state of the scan.        *)
PageAgrees ==
    \A s \in Scans : LET page == ScanDetail(s)
                     IN (page.verdict = "threat") <=> \E e \in Engines : page.cards[e] = "detection"

(* Every scan comes to an end.                                             *)
ScanEnds == \A s \in Scans : <>(pc[s] \in {"returned", "failed"})
=============================================================================
