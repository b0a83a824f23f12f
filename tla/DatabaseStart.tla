---------------------------- MODULE DatabaseStart ----------------------------
(***************************************************************************)
(* The database part of scanSetup (src/commands/scan.go): container.Running *)
(* and Exists (src/malice/docker/client/container/list.go), database.Start  *)
(* (src/malice/database/database.go), and container.Start for the fixed     *)
(* name of the Elasticsearch container, by scans that set up at once.       *)
(*                                                                         *)
(* Covered: each docker call, in order, with its failure; the container     *)
(* that another scan creates in between; the wait for a connection and its  *)
(* timeout; log.Fatal for a machine with too little memory; the --logs     *)
(* flag of the command line, which follows the container's output.          *)
(*                                                                         *)
(* Abstracted: panics (the nil reader of a failed ContainerLogs or pull,    *)
(* the missing bridge network) are failures of the scan, as handleUpload    *)
(* recovers them.  External: docker, and Elasticsearch in its container.    *)
(***************************************************************************)
EXTENDS Naturals, FiniteSets

CONSTANTS Scans,        \* the scans that set up, in the server or outside it
          Follows,      \* those with --logs, each a process of its own
          Faults        \* "list", "ping", "call", "memory": what may fail

ASSUME ScansAssumption == /\ IsFiniteSet(Scans) /\ Scans # {}
                          /\ Follows \subseteq Scans
ASSUME FaultsAssumption == Faults \subseteq {"list", "ping", "call", "memory"}

VARIABLES
    alive,      \* the server process
    pc,         \* pc[s]: where the setup of s is
    contID,     \* the scans whose ContainerCreate returned an ID
    cont,       \* the container of that name
    starved,    \* it ended for lack of memory
    faulty,     \* history: a call has failed
    late        \* history: the scans whose wait for a connection timed out

vars == <<alive, pc, contID, cont, starved, faulty, late>>

-----------------------------------------------------------------------------
PCs    == {"running", "start", "require", "create", "launch", "logs", "inspect",
           "again", "wait", "dump", "init", "failed"}
States == {"absent", "created", "booting", "ready", "exited"}

(* No database yet, or one that an earlier run has left stopped or running. *)
Init == /\ alive = TRUE
        /\ pc = [s \in Scans |-> "running"]
        /\ contID = {}
        /\ cont \in {"absent", "exited", "ready"}
        /\ starved = FALSE
        /\ faulty = FALSE
        /\ late = {}

Goto(s, from, to) == /\ alive \/ s \in Follows
                     /\ pc[s] = from
                     /\ pc' = [pc EXCEPT ![s] = to]

Fails(fault) == fault \in Faults /\ faulty' = TRUE

Fail(s, from, fault) == /\ Fails(fault)
                        /\ Goto(s, from, "failed")
                        /\ UNCHANGED <<alive, contID, cont, starved, late>>

(* parseContainers: List asks for all containers whatever its argument, so  *)
(* Exists and Running both find a stopped one; a failed list finds nothing, *)
(* and both callers drop the error.                                        *)
Found == cont # "absent"

-----------------------------------------------------------------------------
(* Slips that the properties below must notice; each takes the place of    *)
(* the definition it is named after and is no part of Next.                *)

(* A container under the same name whoever has it already.                 *)
CreateAnyway(s) == /\ Goto(s, "create", "launch")
                   /\ contID' = contID \cup {s}
                   /\ cont' = "created"
                   /\ UNCHANGED <<alive, starved, faulty, late>>

(* Without discovery.type=single-node Elasticsearch ends at once.           *)
LaunchClustered(s) ==
    /\ Goto(s, "launch", "inspect")
    /\ cont' = IF s \in contID THEN "exited" ELSE cont
    /\ UNCHANGED <<alive, contID, starved, faulty, late>>

(* A wait without a timeout.                                               *)
TimeoutNever(s) == /\ Goto(s, "wait", "wait")
                   /\ UNCHANGED <<alive, contID, cont, starved, faulty, late>>

-----------------------------------------------------------------------------
(* scanSetup: `if _, running, _ := container.Running(...); !running'.       *)
Running(s) == /\ \/ Goto(s, "running", "init") /\ Found /\ UNCHANGED faulty
                 \/ Goto(s, "running", "start") /\ ~Found /\ UNCHANGED faulty
                 \/ Goto(s, "running", "start") /\ Found /\ Fails("list")
              /\ UNCHANGED <<alive, contID, cont, starved, late>>

(* database.Start and container.Start: the daemon answers both pings.       *)
Start(s) == \/ /\ Goto(s, "start", "require")
               /\ UNCHANGED <<alive, contID, cont, starved, faulty, late>>
            \/ Fail(s, "start", "ping")

(* checkContainerRequirements: the name is in use.                          *)
Require(s) == /\ \/ Goto(s, "require", "failed") /\ Found /\ UNCHANGED faulty
                 \/ Goto(s, "require", "create") /\ ~Found /\ UNCHANGED faulty
                 \/ Goto(s, "require", "create") /\ Found /\ Fails("list")
              /\ UNCHANGED <<alive, contID, cont, starved, late>>

(* ContainerCreate: docker refuses a name that is in use, which is logged.  *)
Create(s) == /\ Goto(s, "create", "launch")
             /\ \/ /\ cont = "absent"
                   /\ cont' = "created"
                   /\ contID' = contID \cup {s}
                   /\ UNCHANGED faulty
                \/ cont # "absent" /\ UNCHANGED <<cont, contID, faulty>>
                \/ Fails("call") /\ UNCHANGED <<cont, contID>>
             /\ UNCHANGED <<alive, starved, late>>

(* ContainerStart, whose error is logged as well.                           *)
Launch(s) == /\ Goto(s, "launch", IF s \in Follows THEN "logs" ELSE "inspect")
             /\ \/ s \in contID /\ cont = "created" /\ cont' = "booting" /\ UNCHANGED faulty
                \/ s \notin contID /\ UNCHANGED <<cont, faulty>>
                \/ s \in contID /\ Fails("call") /\ UNCHANGED cont
             /\ UNCHANGED <<alive, contID, starved, late>>

(* LogContainer returns when the container does not run any more.           *)
FollowLogs(s) == /\ \/ Goto(s, "logs", "inspect")
                         /\ s \in contID /\ cont \notin {"booting", "ready"}
                    \/ Goto(s, "logs", "failed") /\ s \notin contID
                 /\ UNCHANGED <<alive, contID, cont, starved, faulty, late>>

(* The Inspect of container.Start and the one of database.Start.            *)
Inspect(s) == \/ /\ \/ Goto(s, "inspect", "again") /\ s \in contID
                    \/ Goto(s, "inspect", "failed") /\ s \notin contID
                    \/ Goto(s, "again", "wait")
                 /\ UNCHANGED <<alive, contID, cont, starved, faulty, late>>
              \/ Fail(s, "inspect", "call")
              \/ Fail(s, "again", "call")

(* WaitForConnection: Elasticsearch answers, or the timeout comes first.    *)
Connected(s) == /\ Goto(s, "wait", "init")
                /\ cont = "ready"
                /\ UNCHANGED <<alive, contID, cont, starved, faulty, late>>

Timeout(s) == /\ Goto(s, "wait", "dump")
              /\ cont # "ready"
              /\ late' = late \cup {s}
              /\ UNCHANGED <<alive, contID, cont, starved, faulty>>

(* The container's output is searched for the message of the Java machine: *)
(* log.Fatal, or the error is returned.                                    *)
Dump(s) == /\ Goto(s, "dump", "failed")
           /\ alive' = (alive /\ ~(starved /\ s \notin Follows))
           /\ UNCHANGED <<contID, cont, starved, faulty, late>>

Setup(s) == \/ Running(s) \/ Start(s) \/ Require(s) \/ Create(s) \/ Launch(s)
            \/ FollowLogs(s) \/ Inspect(s) \/ Connected(s) \/ Timeout(s) \/ Dump(s)

(* External: Elasticsearch comes up, or its machine cannot get the memory.  *)
Boot == /\ cont = "booting"
        /\ \/ cont' = "ready" /\ UNCHANGED starved
           \/ "memory" \in Faults /\ cont' = "exited" /\ starved' = TRUE
        /\ UNCHANGED <<alive, pc, contID, faulty, late>>

Next == Boot \/ \E s \in Scans : Setup(s)

Spec == Init /\ [][Next]_vars

(* Docker's calls return and WaitForConnection has a timeout; a container   *)
(* need not come up.                                                       *)
FairSpec == Spec /\ \A s \in Scans : WF_vars(Setup(s))

-----------------------------------------------------------------------------
(* The types of the variables.                                             *)
TypeOK == /\ alive \in BOOLEAN
          /\ pc \in [Scans -> PCs]
          /\ contID \subseteq Scans
          /\ cont \in States
          /\ starved \in BOOLEAN
          /\ faulty \in BOOLEAN
          /\ late \subseteq Scans

(* Of the scans that start the database at once, one creates the container. *)
OneCreator == Cardinality(contID) <= 1

(* When every scan has ended and no call failed and the machine did not     *)
(* lack memory, one of them got past the database; or they all failed, for *)
(* one reason only: Elasticsearch was not up within the 20s (database.go:   *)
(* 72) that the scan which created the container waits.  The container     *)
(* then runs, and lets the next scan in.                                   *)
SomeoneGetsIn ==
    (\A s \in Scans : pc[s] \in {"init", "failed"}) /\ ~faulty /\ ~starved
        => \/ \E s \in Scans : pc[s] = "init"
           \/ contID # {} /\ contID = late /\ cont \in {"booting", "ready"}

(* The setup of a scan without --logs comes to an end.                      *)
SetupEnds == \A s \in Scans \ Follows : <>(pc[s] \in {"init", "failed"} \/ ~alive)

(* `Running returns [...] true if the container name exists and is running, *)
(* otherwise false' (list.go:43-44): a scan that does not start the        *)
(* database has found it running.                                          *)
RunningMeansRunning ==
    [][\A s \in Scans : pc[s] = "running" /\ pc'[s] = "init"
                          => cont \in {"booting", "ready"}]_vars
=============================================================================
