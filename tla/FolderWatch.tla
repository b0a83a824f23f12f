----------------------------- MODULE FolderWatch -----------------------------
(***************************************************************************)
(* `malice watch FOLDER': NewWatcher (src/commands/watch.go) hands the file *)
(* of every Create event to cmdScan (src/commands/scan.go), one after the   *)
(* other, while other programs go on writing to the folder, and while other *)
(* commands fetch the images its scans need (PluginImages).  File.Init      *)
(* (src/malice/persist/file.go) hashes what it reads, and CopyToVolume      *)
(* (src/malice/docker/client/container/copy.go) reads the file once more.   *)
(*                                                                         *)
(* What a file contains is nothing, a part or the whole of one sample; its  *)
(* hash is what it contained.  Abstracted: the engines of a scan            *)
(* (EngineFanout), of which all that counts is what is in the volume.       *)
(* External: the programs that write, the kernel's queue of events.         *)
(***************************************************************************)
EXTENDS PluginImages

NoFile == ""

CONSTANTS Files,        \* the names in the folder
          watcher,      \* the process that watches
          QueueCap      \* how many events the kernel keeps

ASSUME NamesAssumption   == NoFile \notin Files
ASSUME WatcherAssumption == watcher \in Actors
ASSUME QueueAssumption   == QueueCap \in Nat \ {0}

VARIABLES
    content,    \* content[f]: what the file contains
    events,     \* the Create events that wait
    file,       \* the scan at hand: its file,
    stage,      \* where it is, and
    sum,        \* the hash File.Init computed
    volume,     \* volume[h]: what the malice volume holds under the hash h
    moved,      \* history: the files that were moved in and not touched since
    seen,       \* history, seen[f]: what engines met when they scanned f
    missed      \* history: the files with a lost event or a scan that failed

folder == <<content, moved>>
scan   == <<file, stage, sum, volume>>
past   == <<seen, missed>>
vars   == <<images, folder, events, scan, past>>

-----------------------------------------------------------------------------
Contents == {"none", "empty", "part", "whole"}
Stages   == {"wait", "setup", "hash", "copy", "store"}

Init == /\ InitImages
        /\ content = [f \in Files |-> "none"]
        /\ events = <<>>
        /\ file = NoFile
        /\ stage = "wait"
        /\ sum = "none"
        /\ volume = [h \in Contents |-> "none"]
        /\ moved = {}
        /\ seen = [f \in Files |-> {}]
        /\ missed = {}

Dead == at[watcher] = "dead"

-----------------------------------------------------------------------------
(* Files are created empty and filled, moved in as a whole, written anew or *)
(* removed.  Only a new name is an event, and what the queue has no room     *)
(* for is lost; the error that tells of it is logged.                      *)
Write(f, c) == /\ Happens
               /\ content' = [content EXCEPT ![f] = c]
               /\ UNCHANGED <<docker, scan>>

NewName(f) == /\ seen' = [seen EXCEPT ![f] = {}]
              /\ IF Len(events) < QueueCap
                   THEN events' = Append(events, f) /\ missed' = missed \ {f}
                   ELSE events' = events /\ missed' = missed \cup {f}

Create(f) == /\ content[f] = "none"
             /\ Write(f, "empty") /\ NewName(f)
             /\ UNCHANGED moved
MoveIn(f) == /\ Write(f, "whole") /\ NewName(f)
             /\ moved' = moved \cup {f}
Fill(f)   == /\ content[f] \in {"empty", "part"}
             /\ Write(f, "whole") \/ (content[f] = "empty" /\ Write(f, "part"))
             /\ UNCHANGED <<moved, events, past>>
Rewrite(f) == /\ content[f] = "whole"
              /\ Write(f, "empty") \/ Write(f, "part")
              /\ moved' = moved \ {f}
              /\ UNCHANGED <<events, past>>
Delete(f) == /\ content[f] # "none"
             /\ Write(f, "none")
             /\ moved' = moved \ {f}
             /\ UNCHANGED <<events, past>>

-----------------------------------------------------------------------------
At(from, to) == /\ ~Dead
                /\ stage = from
                /\ stage' = to
Ends(from)   == At(from, "wait") /\ file' = NoFile /\ sum' = "none"
Fails(from)  == Ends(from) /\ missed' = missed \cup {file}

(* The next event: a scan starts, or the process ends because the file has  *)
(* gone (log.Fatal, as the scan is interactive).                           *)
Event == /\ events # <<>>
         /\ events' = Tail(events)
         /\ \/ /\ content[Head(events)] # "none"
               /\ At("wait", "setup")
               /\ file' = Head(events)
               /\ Goto(watcher, "idle", "connect")
            \/ /\ content[Head(events)] = "none"
               /\ At("wait", "wait")
               /\ file' = file
               /\ Goto(watcher, "idle", "dead")
         /\ cmd' = [cmd EXCEPT ![watcher] = "scan"]
         /\ UNCHANGED <<image, job, happened, had, misled, folder, sum, volume, past>>

(* The setup's steps are those of PluginImages.                            *)
SetUp == /\ at[watcher] = "ready" /\ At("setup", "hash") /\ UNCHANGED missed
         /\ UNCHANGED <<images, folder, events, file, sum, volume, seen>>
NotSetUp == /\ at[watcher] = "idle" /\ Fails("setup")
            /\ UNCHANGED <<images, folder, events, volume, seen>>

(* File.Init reads the file; it cannot when it has gone.                   *)
Hash == \/ /\ At("hash", "copy")
           /\ content[file] # "none"
           /\ sum' = content[file]
           /\ UNCHANGED <<images, folder, events, file, volume, past>>
        \/ /\ Fails("hash")
           /\ content[file] = "none"
           /\ at' = [at EXCEPT ![watcher] = "idle"]
           /\ UNCHANGED <<image, cmd, job, happened, had, misled, folder, events, volume, seen>>

(* Mutant: the stat of the sample succeeds, so it counts as there.         *)
CopyUnlessThere ==
    LET there == volume[sum] # "none"
    IN /\ UNCHANGED <<image, cmd, job, had, misled, folder, events, file, sum, seen>>
       /\ At("copy", "store")
       /\ \/ there /\ UNCHANGED <<at, happened, volume, missed>>
          \/ /\ ~there /\ content[file] # "none"
             /\ volume' = [volume EXCEPT ![sum] = content[file]]
             /\ UNCHANGED <<at, happened, missed>>
          \/ /\ ~there /\ content[file] = "none"
             /\ at' = [at EXCEPT ![watcher] = "dead"]
             /\ UNCHANGED <<happened, volume, missed>>
          \/ /\ Fault("copy") /\ missed' = missed \cup {file}
             /\ UNCHANGED <<at, volume>>

(* CopyToVolume: a file of Size > 0 in the volume counts as the sample;      *)
(* otherwise what the file contains by now is copied under the hash of       *)
(* before.  A file that has gone leaves no archive to close, and the        *)
(* process panics; every other error of the copy is only logged.           *)
CopyToVolume ==
    LET there == volume[sum] \in {"part", "whole"}
    IN /\ UNCHANGED <<image, cmd, job, had, misled, folder, events, file, sum, seen>>
       /\ At("copy", "store")
       /\ \/ there /\ UNCHANGED <<at, happened, volume, missed>>
          \/ /\ ~there /\ content[file] # "none"
             /\ volume' = [volume EXCEPT ![sum] = content[file]]
             /\ UNCHANGED <<at, happened, missed>>
          \/ /\ ~there /\ content[file] = "none"
             /\ at' = [at EXCEPT ![watcher] = "dead"]
             /\ UNCHANGED <<happened, volume, missed>>
          \/ /\ Fault("copy") /\ missed' = missed \cup {file}
             /\ UNCHANGED <<at, volume>>

(* scanStore, the second try at the mime type, and the engines, which read   *)
(* the volume; an error of the first two ends the scan, and is logged.     *)
Run == /\ at' = [at EXCEPT ![watcher] = "idle"]
       /\ \/ /\ Ends("store")
             /\ seen' = [seen EXCEPT ![file] = @ \cup {volume[sum]}]
             /\ UNCHANGED <<happened, missed>>
          \/ /\ Fault("store") \/ Fault("mime")
             /\ Fails("store")
             /\ UNCHANGED seen
       /\ UNCHANGED <<image, cmd, job, had, misled, folder, events, volume>>

-----------------------------------------------------------------------------
Scanning == Event \/ SetUp \/ NotSetUp \/ Hash \/ CopyToVolume \/ Run
            \/ (Step(watcher) /\ UNCHANGED <<folder, events, scan, past>>)

Elsewhere == \/ Answer(watcher)
           \/ \E a \in Actors \ {watcher} : Step(a) \/ Answer(a) \/ \E c \in Commands : Command(a, c)
           \/ \E i \in Images : BuildLocally(i) \/ RemoveImage(i)

Next == \/ Scanning
        \/ Elsewhere /\ UNCHANGED <<folder, events, scan, past>>
        \/ \E f \in Files : Create(f) \/ MoveIn(f) \/ Fill(f) \/ Rewrite(f) \/ Delete(f)

Spec == Init /\ [][Next]_vars

(* One goroutine takes the events and every call it makes returns, but the  *)
(* user need not answer, and the others need not go on.                    *)
FairSpec == Spec /\ WF_vars(Scanning)

-----------------------------------------------------------------------------
(* The types of the variables, and which stages of a scan go with which     *)
(* places of the watching process.                                         *)
TypeOK == /\ ImagesTypeOK
          /\ stage = "wait" => at[watcher] \in {"idle", "dead"}
          /\ stage \in {"hash", "copy", "store"} => at[watcher] \in {"ready", "dead"}
          /\ content \in [Files -> Contents]
          /\ Len(events) <= QueueCap /\ \A k \in DOMAIN events : events[k] \in Files
          /\ file \in Files \cup {NoFile}
          /\ stage \in Stages
          /\ sum \in Contents
          /\ volume \in [Contents -> Contents]
          /\ moved \subseteq Files
          /\ seen \in [Files -> SUBSET Contents]
          /\ missed \subseteq Files

(* The volume holds a part of the sample under the hash of all of it: a file *)
(* was written anew between File.Init and CopyToVolume.  (A file of Size 0  *)
(* is copied again by the next scan.)                                      *)
Spoiled == volume["whole"] = "part"

(* A file that was moved in and not touched since waits for its turn, or its *)
(* scan is at a point from which it will see all of it.                     *)
OnItsWay(f) == \/ \E k \in DOMAIN events : events[k] = f
               \/ /\ file = f
                  /\ stage \in {"copy", "store"} => sum = "whole"
                  /\ stage = "store" => volume["whole"] = "whole"

(* No such file is forgotten, whatever comes and goes in the folder while   *)
(* others are scanned: it is on its way or was scanned as a whole, unless   *)
(* its event was lost, its scan failed, the process died, or the volume has *)
(* something else in its place.                                            *)
NotForgotten == \A f \in moved : \/ OnItsWay(f) \/ "whole" \in seen[f]
                                 \/ f \in missed \/ Dead \/ Spoiled

(* A file that is moved in as a whole and then left alone is scanned as a   *)
(* whole, however long the scans before it take: unless the process has     *)
(* died over another file, waits for its user to answer, the scan failed,  *)
(* the event was lost, or the volume has something else in its place.      *)
MovedInIsScanned ==
    \A f \in Files :
        f \in moved ~> \/ f \notin moved \/ "whole" \in seen[f]
                       \/ f \in missed \/ Dead \/ at[watcher] = "prompt" \/ Spoiled
=============================================================================
