--------------------------- MODULE UploadAdmission ---------------------------
(***************************************************************************)
(* The upload half of the REST API: handleUpload of src/api/server.go and   *)
(* the goroutine it starts.                                                *)
(*                                                                         *)
(* Covered: the admission by a non-blocking send on scanSem, every error   *)
(* path with the order in which it releases the slot and removes the       *)
(* temporary directory, the recovered panic of scanInitFunc, the hand-over *)
(* of the slot to the scan goroutine, the goroutine's deferred clean-up,    *)
(* and the death and restart of the server process.                        *)
(*                                                                         *)
(* Abstracted: a request is one upload; what scanInitFunc and scanRunFunc  *)
(* do is only whether and how they return (EngineFanout models them); the  *)
(* sample is only how far it has been stored.  `scan backend not wired'    *)
(* (195-198) is left out: cmdServe wires both functions before it listens. *)
(***************************************************************************)
EXTENDS Naturals, FiniteSets

CONSTANTS Requests,     \* the uploads the clients send
          Cap,          \* the capacity of the scanSem channel (2 in the code)
          Hung          \* uploads whose docker or Elasticsearch calls hang

ASSUME RequestsAssumption == IsFiniteSet(Requests)
ASSUME CapAssumption == Cap \in Nat \ {0}
ASSUME HungAssumption == Hung \subseteq Requests

VARIABLES
    up,         \* the server process is alive
    scanSem,    \* the number of tokens in the channel
    pc,         \* pc[r]: where the handler of r is
    semHeld,    \* semHeld[r]: the handler's local variable of that name
    scan,       \* scan[r]: where the goroutine that scans r is
    disk,       \* disk[r]: the temporary directory of r and the sample in it
    status      \* status[r]: the answer decided for r (0: none yet)

vars == <<up, scanSem, pc, semHeld, scan, disk, status>>

-----------------------------------------------------------------------------
(* Handler: idle (not sent), then parse .. init in the order of the code;   *)
(* fail and sweep are the two halves of an error path, reply writes the     *)
(* answer; lost is a handler that died with the process.                   *)
Steps      == {"parse", "mkdir", "create", "copy", "init"}
HandlerPCs == Steps \cup {"idle", "fail", "sweep", "reply", "done", "lost"}
ScanPCs    == {"none", "running", "released", "done", "lost"}
DiskStates == {"none", "empty", "partial", "whole"}
Statuses   == {0, 200, 400, 429, 500}

Init == /\ up = TRUE
        /\ scanSem = 0
        /\ pc = [r \in Requests |-> "idle"]
        /\ semHeld = [r \in Requests |-> FALSE]
        /\ scan = [r \in Requests |-> "none"]
        /\ disk = [r \in Requests |-> "none"]
        /\ status = [r \in Requests |-> 0]

Goto(r, from, to) == /\ up
                     /\ pc[r] = from
                     /\ pc' = [pc EXCEPT ![r] = to]

(* One step of the handler that succeeds, and leaves the disk as d.        *)
Advance(r, from, to, d) ==
    /\ Goto(r, from, to)
    /\ disk' = [disk EXCEPT ![r] = d]
    /\ UNCHANGED <<up, scanSem, semHeld, scan, status>>

(* One step that fails: the answer will be code; the disk is left as it is, *)
(* also by an io.Copy that stops half way.                                 *)
Fail(r, from, code) ==
    /\ Goto(r, from, "fail")
    /\ status' = [status EXCEPT ![r] = code]
    /\ UNCHANGED <<up, scanSem, semHeld, scan, disk>>

(* The receive of releaseSlot: it would block on an empty channel.         *)
TakeToken == /\ scanSem > 0
             /\ scanSem' = scanSem - 1

-----------------------------------------------------------------------------
(* Slips in the handler that the properties below must notice; each takes  *)
(* the place of the action it is named after and is no part of Next.       *)

(* `semHeld = false' ahead of the check of scanInitFunc's error: the        *)
(* releaseSlot of the error path then does nothing.                        *)
InitFailsHandedOver(r) == /\ Goto(r, "init", "fail")
                          /\ semHeld' = [semHeld EXCEPT ![r] = FALSE]
                          /\ status' = [status EXCEPT ![r] = 500]
                          /\ UNCHANGED <<up, scanSem, scan, disk>>

(* The hand-over without `semHeld = false'.                                *)
StartScanKeepSlot(r) == /\ Goto(r, "init", "reply")
                        /\ scan' = [scan EXCEPT ![r] = "running"]
                        /\ status' = [status EXCEPT ![r] = 200]
                        /\ UNCHANGED <<up, scanSem, semHeld, disk>>

(* An error path without os.RemoveAll.                                     *)
ReleaseSlotOnly(r) ==
    /\ Goto(r, "fail", "reply")
    /\ IF semHeld[r] THEN TakeToken ELSE UNCHANGED scanSem
    /\ semHeld' = [semHeld EXCEPT ![r] = FALSE]
    /\ UNCHANGED <<up, scan, disk, status>>

(* `defer os.RemoveAll(dir)' in the handler.                               *)
ReplyAndSweep(r) == Advance(r, "reply", "done", "none")

(* The goroutine's clean-up without the removal.                           *)
EndScanNoSweep(r) == /\ up
                     /\ scan[r] = "running"
                     /\ TakeToken
                     /\ scan' = [scan EXCEPT ![r] = "done"]
                     /\ UNCHANGED <<up, pc, semHeld, disk, status>>

-----------------------------------------------------------------------------
(* `select { case scanSem <- struct{}{}: ... default: 429 }'                *)
Admit(r) == /\ Goto(r, "idle", "parse")
            /\ scanSem < Cap
            /\ scanSem' = scanSem + 1
            /\ semHeld' = [semHeld EXCEPT ![r] = TRUE]
            /\ UNCHANGED <<up, scan, disk, status>>

Reject(r) == /\ Goto(r, "idle", "done")
             /\ scanSem = Cap
             /\ status' = [status EXCEPT ![r] = 429]
             /\ UNCHANGED <<up, scanSem, semHeld, scan, disk>>

(* ParseMultipartForm and FormFile.                                        *)
Parse(r)  == Advance(r, "parse", "mkdir", "none")  \/ Fail(r, "parse", 400)
MkDir(r)  == Advance(r, "mkdir", "create", "empty") \/ Fail(r, "mkdir", 500)
Create(r) == Advance(r, "create", "copy", "partial") \/ Fail(r, "create", 500)
Copy(r)   == Advance(r, "copy", "init", "whole")   \/ Fail(r, "copy", 500)

(* scanInitFunc returned a scan id: semHeld is cleared without a release,   *)
(* the goroutine that now owns the slot starts, and the handler goes on to  *)
(* answer while it runs.                                                   *)
StartScan(r) == /\ Goto(r, "init", "reply")
                /\ semHeld' = [semHeld EXCEPT ![r] = FALSE]
                /\ scan' = [scan EXCEPT ![r] = "running"]
                /\ status' = [status EXCEPT ![r] = 200]
                /\ UNCHANGED <<up, scanSem, disk>>

(* scanInitFunc returned an error, or panicked and was recovered.          *)
InitFails(r) == Fail(r, "init", 500)

(* The error path: releaseSlot first ...                                   *)
ReleaseSlot(r) ==
    /\ Goto(r, "fail", IF disk[r] = "none" THEN "reply" ELSE "sweep")
    /\ IF semHeld[r] THEN TakeToken ELSE UNCHANGED scanSem
    /\ semHeld' = [semHeld EXCEPT ![r] = FALSE]
    /\ UNCHANGED <<up, scan, disk, status>>

(* ... then os.RemoveAll(dir), then the answer.                            *)
RemoveDir(r) == Advance(r, "sweep", "reply", "none")

Reply(r) == /\ Goto(r, "reply", "done")
            /\ UNCHANGED <<up, scanSem, semHeld, scan, disk, status>>

-----------------------------------------------------------------------------
(* The goroutine: scanRunFunc returned, with or without an error, or        *)
(* panicked; the deferred function gives the slot back first ...           *)
EndScan(r) == /\ up
              /\ scan[r] = "running"
              /\ TakeToken
              /\ scan' = [scan EXCEPT ![r] = "released"]
              /\ UNCHANGED <<up, pc, semHeld, disk, status>>

(* ... and removes the directory after it.                                 *)
SweepScan(r) == /\ up
                /\ scan[r] = "released"
                /\ scan' = [scan EXCEPT ![r] = "done"]
                /\ disk' = [disk EXCEPT ![r] = "none"]
                /\ UNCHANGED <<up, scanSem, pc, semHeld, status>>

-----------------------------------------------------------------------------
(* The process dies at any moment (os.Exit of handleClientError, a panic    *)
(* in an engine's goroutine, a kill): handlers, goroutines and the channel  *)
(* are gone, the directories stay.  A restarted server starts with an       *)
(* empty channel and never looks for old directories.                      *)
Crash == /\ up
         /\ up' = FALSE
         /\ scanSem' = 0
         /\ semHeld' = [r \in Requests |-> FALSE]
         /\ pc' = [r \in Requests |->
                     IF pc[r] \in {"idle", "done"} THEN pc[r] ELSE "lost"]
         /\ scan' = [r \in Requests |->
                       IF scan[r] \in {"none", "done"} THEN scan[r] ELSE "lost"]
         /\ UNCHANGED <<disk, status>>

Restart == /\ ~up
           /\ up' = TRUE
           /\ UNCHANGED <<scanSem, pc, semHeld, scan, disk, status>>

-----------------------------------------------------------------------------
HandlerStep(r) == \/ Parse(r) \/ MkDir(r) \/ Create(r) \/ Copy(r)
                  \/ ReleaseSlot(r) \/ RemoveDir(r) \/ Reply(r)

InitReturns(r) == StartScan(r) \/ InitFails(r)

Next == \/ \E r \in Requests : \/ Admit(r) \/ Reject(r)
                               \/ HandlerStep(r) \/ InitReturns(r)
                               \/ EndScan(r) \/ SweepScan(r)
        \/ Crash
        \/ Restart

Spec == Init /\ [][Next]_vars

(* The server sets a ReadTimeout, so the handler's own steps end; the calls *)
(* of scanInitFunc and scanRunFunc have no deadline and are only assumed to *)
(* return for the uploads that are not in Hung.  Nobody has to send an      *)
(* upload, and the process need neither die nor be restarted.              *)
Fairness == \A r \in Requests :
              /\ WF_vars(HandlerStep(r))
              /\ WF_vars(SweepScan(r))
              /\ r \notin Hung => WF_vars(InitReturns(r)) /\ WF_vars(EndScan(r))

FairSpec == Spec /\ Fairness

-----------------------------------------------------------------------------
(* The uploads that own a slot: through the handler, then the goroutine.   *)
Owners == {r \in Requests : semHeld[r] \/ scan[r] = "running"}

(* The types of the variables.                                             *)
TypeOK == /\ up \in BOOLEAN
          /\ scanSem \in 0 .. Cap
          /\ pc \in [Requests -> HandlerPCs]
          /\ semHeld \in [Requests -> BOOLEAN]
          /\ scan \in [Requests -> ScanPCs]
          /\ disk \in [Requests -> DiskStates]
          /\ status \in [Requests -> Statuses]

(* Every token in scanSem belongs to one upload and every owner has one:    *)
(* no path through the errors, the panics, the hand-over and the deaths     *)
(* leaks a slot or releases one twice.                                     *)
SlotAccounting == scanSem = Cardinality(Owners)

(* The bound the comment over the select claims: uploads being received    *)
(* and scans being run number at most Cap together.                        *)
ConcurrencyBound ==
    Cardinality({r \in Requests : pc[r] \in Steps \/ scan[r] = "running"}) <= Cap

(* A running scan finds its sample on disk, completely written: no handler *)
(* removes the directory under the goroutine it has started.               *)
ScanHasItsSample == \A r \in Requests : scan[r] = "running" => disk[r] = "whole"

(* A client is told 200 exactly for the uploads a scan was started for:     *)
(* no upload that was refused or failed is scanned behind its back.        *)
AcceptedIffScanned == \A r \in Requests : status[r] = 200 <=> scan[r] # "none"

(* When the handler and the goroutine of an upload have both ended, its     *)
(* slot is back and its directory is gone.                                 *)
NothingLeftBehind ==
    \A r \in Requests :
        pc[r] = "done" /\ scan[r] \in {"none", "done"}
            => r \notin Owners /\ disk[r] = "none"

(* 429 is answered only while Cap uploads really own a slot.               *)
RejectOnlyWhenFull ==
    [][\A r \in Requests :
         status[r] # 429 /\ status'[r] = 429 => Cardinality(Owners) = Cap]_vars

(* The detailed specification implements the abstract pool of slots.       *)
Pool == INSTANCE SlotPool WITH Clients <- Requests, holders <- Owners
ImplementsSlotPool == Pool!Spec

(* Of an upload whose calls return, everything comes back: its slot, and    *)
(* its directory unless the process dies first (nothing looks for old       *)
(* directories after a restart).                                           *)
EverythingComesBack ==
    \A r \in Requests \ Hung :
        (r \in Owners \/ disk[r] # "none")
            ~> (r \notin Owners /\ (disk[r] = "none" \/ "lost" \in {pc[r], scan[r]}))
=============================================================================
