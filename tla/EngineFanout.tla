---------------------------- MODULE EngineFanout ----------------------------
(***************************************************************************)
(* One scan's fan-out: scanRun (src/commands/scan.go), RunIntelPlugins and  *)
(* StartPlugin (src/plugins/plugins.go), and container.Start, LogContainer, *)
(* checkContainerRequirements (src/malice/docker/client/container/).        *)
(*                                                                         *)
(* Covered: the two phases and their WaitGroups; each engine's goroutine    *)
(* call by call, with every docker call that may fail and what the code     *)
(* does then (most errors are only logged); the panic of `defer             *)
(* logs.Close()' on the nil reader of a failed call, in a goroutine that    *)
(* nothing recovers; the engine containers, which outlive the server.      *)
(*                                                                         *)
(* Abstracted: what an engine finds (only whether it has reported), the     *)
(* environment and command line it is given, and the creation of the       *)
(* docker network and volume, whose errors are only logged.  External: the  *)
(* docker daemon, the engine containers, and whoever removes images.       *)
(***************************************************************************)
EXTENDS Naturals, FiniteSets

CONSTANTS Intel,        \* the enabled intel engines
          MimeSets,     \* the engine sets GetPluginsForMime can return
          Faults,       \* the docker calls that may fail (engine: a break-down)
          Hung          \* engines that never exit

Files   == UNION MimeSets
Engines == Intel \cup Files
Calls   == {"ping", "pull", "name", "create", "start", "logs", "stream",
            "inspect", "remove", "engine"}

(* An intel engine's mime is `hash', which no file has (list.go:101-103).  *)
ASSUME EnginesAssumption == /\ IsFiniteSet(Engines)
                            /\ Intel \cap Files = {}
ASSUME FaultsAssumption == Faults \subseteq Calls
ASSUME HungAssumption == Hung \subseteq Engines

VARIABLES
    alive,      \* the malice process
    main,       \* where scanSetup and scanRun are
    fan,        \* the engines of the second phase
    wg,         \* the WaitGroup of the current phase
    pc,         \* pc[e]: where the goroutine of e is in StartPlugin
    contID,     \* contID[e]: container.Start holds an ID for e
    contJSON,   \* contJSON[e]: StartPlugin holds an ID for e
    cont,       \* cont[e]: the container of e
    images,     \* the engines whose image is installed
    reported,   \* the engines whose result is in the scan document
    faulty      \* history: the engines for which a call has failed

server == <<alive, main, fan, wg>>
vars == <<alive, main, fan, wg, pc, contID, contJSON, cont, images, reported, faulty>>

-----------------------------------------------------------------------------
Mains    == {"setup", "intel", "mime", "engines", "returned", "failed"}
PCs      == {"idle", "ping", "require", "create", "start", "logs", "tail",
             "inspect", "remove", "done"}
Contents == {"none", "created", "running", "exited"}

Init == /\ alive = TRUE
        /\ main = "setup"
        /\ fan = {}
        /\ wg = 0
        /\ pc = [e \in Engines |-> "idle"]
        /\ contID = [e \in Engines |-> FALSE]
        /\ contJSON = [e \in Engines |-> FALSE]
        /\ cont = [e \in Engines |-> "none"]
        /\ images \in {Engines} \cup {Engines \ {e} : e \in Engines}
        /\ reported = {}
        /\ faulty = {}

Goto(e, from, to) == /\ alive
                     /\ pc[e] = from
                     /\ pc' = [pc EXCEPT ![e] = to]

(* The docker call named call fails for e.                                 *)
Fails(e, call) == /\ call \in Faults
                  /\ faulty' = faulty \cup {e}

(* An unrecovered panic in a goroutine ends the whole process.             *)
Panic(e, from) == /\ alive
                  /\ pc[e] = from
                  /\ alive' = FALSE
                  /\ UNCHANGED <<main, fan, wg, pc, contID, contJSON, cont,
                                 images, reported, faulty>>

-----------------------------------------------------------------------------
(* Slips that the properties below must notice; each takes the place of    *)
(* the definition it is named after and is no part of Next.                *)

(* wg.Add(1) before the loop instead of the number of engines.             *)
LaunchAddOne(S) == /\ wg' = 1
                   /\ pc' = [e \in Engines |-> IF e \in S THEN "ping" ELSE pc[e]]

(* No wg.Wait().                                                           *)
WaitNot(from, to) == /\ alive
                     /\ main = from
                     /\ main' = to
                     /\ UNCHANGED <<alive, fan, wg, pc, contID, contJSON, cont, images,
                                    reported, faulty>>

(* Remove not deferred at all; Done not deferred, so skipped after an error. *)
RemoveNever(e) == /\ Goto(e, "remove", "done")
                  /\ wg' = wg - 1
                  /\ UNCHANGED <<alive, main, fan, contID, contJSON, cont, images,
                                 reported, faulty>>

RemoveThenDone(e) == /\ Goto(e, "remove", "done")
                     /\ IF contJSON[e]
                          THEN cont' = [cont EXCEPT ![e] = "none"] /\ wg' = wg - 1
                          ELSE UNCHANGED <<cont, wg>>
                     /\ UNCHANGED <<alive, main, fan, contID, contJSON, images,
                                    reported, faulty>>

-----------------------------------------------------------------------------
(* scanSetup: InstalledPluginsCheck looks for the image of every enabled   *)
(* plugin, and the API path gives up when one is missing.  Then            *)
(* RunIntelPlugins: wg.Add(len(intelPlugins)) and one goroutine for each.  *)
Launch(S) == /\ wg' = Cardinality(S)
             /\ pc' = [e \in Engines |-> IF e \in S THEN "ping" ELSE pc[e]]

StartIntel == /\ alive
              /\ main = "setup"
              /\ Engines \subseteq images
              /\ main' = "intel"
              /\ Launch(Intel)
              /\ UNCHANGED <<alive, fan, contID, contJSON, cont, images, reported, faulty>>

NotInstalled == /\ alive
                /\ main = "setup"
                /\ ~(Engines \subseteq images)
                /\ main' = "failed"
                /\ UNCHANGED <<alive, fan, wg, pc, contID, contJSON, cont, images,
                               reported, faulty>>

(* wg.Wait() of the phase `from'.                                          *)
Wait(from, to) == /\ alive
                  /\ main = from
                  /\ wg = 0
                  /\ main' = to
                  /\ UNCHANGED <<alive, fan, wg, pc, contID, contJSON, cont, images,
                                 reported, faulty>>

(* The mime type is known, or detected again; its engines are launched.    *)
StartEngines(S) == /\ alive
                   /\ main = "mime"
                   /\ main' = "engines"
                   /\ fan' = S
                   /\ Launch(S)
                   /\ UNCHANGED <<alive, contID, contJSON, cont, images, reported, faulty>>

(* It was empty and the second detection failed: scanRun returns the error. *)
NoMime == /\ alive
          /\ main = "mime"
          /\ main' = "failed"
          /\ UNCHANGED <<alive, fan, wg, pc, contID, contJSON, cont, images,
                         reported, faulty>>

-----------------------------------------------------------------------------
(* StartPlugin in the goroutine of e.  docker.Ping(): without a daemon     *)
(* container.Start returns an error and an empty InspectResponse.          *)
Ping(e) == /\ \/ Goto(e, "ping", "require") /\ UNCHANGED faulty
              \/ Goto(e, "ping", "remove") /\ Fails(e, "ping")
           /\ UNCHANGED <<server, contID, contJSON, cont, images, reported>>

(* checkContainerRequirements: a container of that name makes Start return  *)
(* an error; a missing image is pulled ...                                 *)
Require(e) == /\ \/ Goto(e, "require", "create") /\ e \in images /\ UNCHANGED images
                 \/ Goto(e, "require", "create") /\ e \notin images
                      /\ images' = images \cup {e}
                 \/ Goto(e, "require", "remove") /\ "name" \in Faults
                      /\ UNCHANGED images
              /\ faulty' = IF pc'[e] = "remove" THEN faulty \cup {e} ELSE faulty
              /\ UNCHANGED <<server, contID, contJSON, cont, reported>>

(* ... and image.Pull defers responseBody.Close() before it looks at the   *)
(* error: the body of a failed pull is nil.                                *)
PullPanics(e) == /\ e \notin images
                 /\ "pull" \in Faults
                 /\ Panic(e, "require")

(* ContainerCreate: an error is logged, and Start goes on with ID "".      *)
Create(e) == /\ Goto(e, "create", "start")
             /\ \/ /\ contID' = [contID EXCEPT ![e] = TRUE]
                   /\ cont' = [cont EXCEPT ![e] = "created"]
                   /\ UNCHANGED faulty
                \/ Fails(e, "create") /\ UNCHANGED <<contID, cont>>
             /\ UNCHANGED <<server, contJSON, images, reported>>

(* ContainerStart: likewise; without an ID it always fails.                *)
StartContainer(e) ==
    /\ Goto(e, "start", "logs")
    /\ \/ /\ contID[e]
          /\ cont' = [cont EXCEPT ![e] = "running"]
          /\ UNCHANGED faulty
       \/ contID[e] /\ Fails(e, "start") /\ UNCHANGED cont
       \/ ~contID[e] /\ UNCHANGED <<cont, faulty>>
    /\ UNCHANGED <<server, contID, contJSON, images, reported>>

(* LogContainer: the stream of an existing container is opened ...          *)
OpenLogs(e) == /\ Goto(e, "logs", "tail")
               /\ contID[e]
               /\ UNCHANGED <<server, contID, contJSON, cont, images, reported, faulty>>

(* ... or the call fails, as it must without an ID, and Close is deferred   *)
(* on a nil stream.                                                        *)
LogsPanic(e) == /\ ~contID[e] \/ "logs" \in Faults
                /\ Panic(e, "logs")

(* StdCopy follows the stream until the container is not running any more,  *)
(* or until the stream breaks, which is only logged.                       *)
Tail(e) == /\ Goto(e, "tail", "inspect")
           /\ \/ cont[e] # "running" /\ UNCHANGED faulty
              \/ cont[e] = "running" /\ Fails(e, "stream")
           /\ UNCHANGED <<server, contID, contJSON, cont, images, reported>>

(* Inspect: an error gives StartPlugin an InspectResponse without an ID.   *)
Inspect(e) == /\ Goto(e, "inspect", "remove")
              /\ \/ contJSON' = [contJSON EXCEPT ![e] = TRUE] /\ UNCHANGED faulty
                 \/ Fails(e, "inspect") /\ UNCHANGED contJSON
              /\ UNCHANGED <<server, contID, cont, images, reported>>

(* The deferred calls, last in first out: container.Remove by force, whose  *)
(* error is only logged and which does nothing without an ID ...           *)
Remove(e) == /\ Goto(e, "remove", "done")
             /\ \/ /\ contJSON[e]
                   /\ cont' = [cont EXCEPT ![e] = "none"]
                   /\ UNCHANGED faulty
                \/ contJSON[e] /\ Fails(e, "remove") /\ UNCHANGED cont
                \/ ~contJSON[e] /\ UNCHANGED <<cont, faulty>>
             /\ wg' = wg - 1      \* ... then wg.Done()
             /\ UNCHANGED <<alive, main, fan, contID, contJSON, images, reported>>

StartPlugin(e) == \/ Ping(e) \/ Require(e) \/ PullPanics(e) \/ Create(e)
                  \/ StartContainer(e) \/ OpenLogs(e) \/ LogsPanic(e)
                  \/ Tail(e) \/ Inspect(e) \/ Remove(e)

-----------------------------------------------------------------------------
(* External: the engine in its container, which exits after it has written *)
(* its result into the scan document, or breaks down without one; and      *)
(* whoever removes an image after scanSetup has looked for it.             *)
Exit(e) == /\ cont[e] = "running"
           /\ cont' = [cont EXCEPT ![e] = "exited"]
           /\ \/ reported' = reported \cup {e} /\ UNCHANGED faulty
              \/ Fails(e, "engine") /\ UNCHANGED reported
           /\ UNCHANGED <<server, pc, contID, contJSON, images>>

RemoveImage(e) == /\ e \in images
                  /\ pc[e] \in {"idle", "ping", "require"}   \* nobody looks later
                  /\ images' = images \ {e}
                  /\ UNCHANGED <<server, pc, contID, contJSON, cont, reported, faulty>>

ScanRun == \/ StartIntel \/ NotInstalled
           \/ Wait("intel", "mime")
           \/ \E S \in MimeSets : StartEngines(S)
           \/ NoMime
           \/ Wait("engines", "returned")

Next == \/ ScanRun
        \/ \E e \in Engines : \/ StartPlugin(e)
                              \/ Exit(e) \/ RemoveImage(e)

Spec == Init /\ [][Next]_vars

(* The Go scheduler runs every goroutine that can run, and docker calls     *)
(* return; the engines that are not in Hung end (MALICE_TIMEOUT is for them *)
(* to obey: the server itself waits without a deadline).                   *)
FairSpec == /\ Spec
            /\ WF_vars(ScanRun)
            /\ \A e \in Engines : WF_vars(StartPlugin(e))
            /\ \A e \in Engines \ Hung : WF_vars(Exit(e))

-----------------------------------------------------------------------------
(* The engines whose goroutine has been started and has not called Done.   *)
InFlight == {e \in Engines : pc[e] \notin {"idle", "done"}}

(* The types of the variables.                                             *)
TypeOK == /\ alive \in BOOLEAN
          /\ main \in Mains
          /\ fan \subseteq Files
          /\ wg \in Nat
          /\ pc \in [Engines -> PCs]
          /\ contID \in [Engines -> BOOLEAN]
          /\ contJSON \in [Engines -> BOOLEAN]
          /\ cont \in [Engines -> Contents]
          /\ images \subseteq Engines
          /\ reported \subseteq Engines
          /\ faulty \subseteq Engines

(* The WaitGroup counts exactly the goroutines that have not called Done,   *)
(* so that it never goes below zero and Wait ends a phase neither early    *)
(* nor never.                                                              *)
WaitGroupExact == wg = Cardinality(InFlight)

(* No file engine is started before every intel engine is through.         *)
IntelFirst == (\E e \in Files : pc[e] # "idle") => \A i \in Intel : pc[i] = "done"

(* When scanRun has returned, whether well or with an error, none of its    *)
(* goroutines runs, and a container is left only by an engine for which a  *)
(* docker call has failed.                                                 *)
ReturnedClean ==
    main \in {"returned", "failed"}
        => \A e \in Engines : /\ pc[e] \in {"idle", "done"}
                              /\ e \in faulty \/ cont[e] = "none"

(* When the scan has returned, the document holds the result of every       *)
(* engine it was meant for, unless a docker call or the engine itself       *)
(* failed: no engine is skipped, started without being waited for, or      *)
(* removed before it is through.                                           *)
EveryResultIsIn ==
    main = "returned" => \A e \in Intel \cup fan : e \in reported \/ e \in faulty

(* The run of the scan as those see it who wait for it: an engine is at     *)
(* work from the launch of its goroutine to the call of Done.              *)
Phase   == IF main = "setup" THEN "before" ELSE IF main = "mime" THEN "between" ELSE main
Through == {e \in Engines : pc[e] = "done"}
Run     == INSTANCE TwoPhaseRun WITH phase <- Phase, working <- InFlight, through <- Through

(* Whatever docker calls fail, and wherever a panic stops it, the run is     *)
(* that of TwoPhaseRun: every engine once, no phase before the last one is  *)
(* through, and no return before that.                                     *)
ImplementsTwoPhaseRun == Run!Spec

(* A scan whose engines all exit returns, or the process dies.             *)
ScanReturns == main # "setup" ~> main \in {"returned", "failed"} \/ ~alive

(* `it never prompts on stdin and never log.Fatals [...] so a bad input or  *)
(* a missing image can't hang or kill the web server' (scan.go:22-25).     *)
ServerSurvives == alive
=============================================================================
