------------------------- MODULE FolderWatch_proofs -------------------------
(***************************************************************************)
(* Machine-checked proofs for all processes, commands, images, files and    *)
(* faults: that no update that looks before it fetches replaces an image    *)
(* people had built before it began (KeepsLocal of PluginImages), in the    *)
(* composition with the watched folder; that the variables keep their types *)
(* and the scan at hand is where its process is (TypeOK); and that no file  *)
(* that was moved in and left alone is forgotten (NotForgotten), the part   *)
(* of MovedInIsScanned that needs no fairness.                             *)
(***************************************************************************)
EXTENDS FolderWatch, SequenceTheorems, TLAPS

-----------------------------------------------------------------------------
Typed == /\ image \in [Images -> Origins]
         /\ at \in [Actors -> Places]
         /\ job = [a \in Actors |-> job[a]]
         /\ had \in [Actors -> SUBSET Images]

(* What an update found built here and nobody removed since is still there. *)
StillThere == \A a \in Actors : \A i \in had[a] : image[i] # "none"

(* What an update that has looked goes on to fetch was not there.           *)
Looked == \A a \in Actors :
             at[a] = "fetch" /\ a \notin misled
                => ~Head(job[a]).check \/ Head(job[a]).image \notin had[a]

IInv == Typed /\ StillThere /\ Looked

-----------------------------------------------------------------------------
(* At first nobody has updated anything.                                   *)
LEMMA ImagesInit == Init => IInv
  BY DEF Init, InitImages, IInv, Typed, StillThere, Looked, Origins, Places, Images

(* What a step must not do: KeepsLocal as an action.                       *)
Kept ==
    \A i \in Images, a \in Actors :
       /\ image[i] = "local" /\ image'[i] \notin {"local", "none"}
       /\ at[a] = "fetch" /\ at'[a] # "fetch"
       => ~Head(job[a]).check \/ i \notin had[a] \/ a \in misled

(* A process moves on, other than to a fetch, and nothing else changes.    *)
LEMMA MovesKeep ==
    ASSUME IInv, NEW a \in Actors, NEW to \in Places \ {"fetch"},
           at' = [at EXCEPT ![a] = to], UNCHANGED <<image, job, had, misled>>
    PROVE  IInv' /\ Kept
  <1>1. Typed'
    BY DEF IInv, Typed
  <1>2. StillThere' /\ Looked'
    BY DEF IInv, Typed, StillThere, Looked
  <1>3. Kept
    BY DEF Kept
  <1> QED
    BY <1>1, <1>2, <1>3 DEF IInv

(* An update begins, and what is built here is what it found.              *)
LEMMA BeginsKeeps ==
    ASSUME IInv, NEW a \in Actors, NEW to \in Places \ {"fetch"}, NEW jobs,
           at' = [at EXCEPT ![a] = to], Begins(a, jobs), UNCHANGED <<image, misled>>
    PROVE  IInv' /\ Kept
  <1>1. /\ job' = [job EXCEPT ![a] = jobs]
        /\ \E found \in {{}, Here} : had' = [had EXCEPT ![a] = found]
    BY DEF Begins
  <1>2. Here \subseteq Images /\ \A i \in Here : image[i] # "none"
    BY DEF Here
  <1>3. Typed'
    BY <1>1, <1>2, SMTT(30) DEF IInv, Typed
  <1>4. StillThere'
    BY <1>1, <1>2 DEF IInv, Typed, StillThere
  <1>5. Looked'
    BY <1>1 DEF IInv, Typed, Looked
  <1>6. Kept
    BY DEF Kept
  <1> QED
    BY <1>3, <1>4, <1>5, <1>6 DEF IInv

(* The look before a fetch: what matches no image is not there.             *)
LEMMA LookKeeps ==
    ASSUME IInv, NEW a \in Actors, Look(a)
    PROVE  IInv' /\ Kept
  <1>1. UNCHANGED <<image, cmd, had>>
    BY DEF Look
  <1>2. Kept
    BY <1>1 DEF Kept
  <1>3. CASE /\ at[a] = "update" /\ job' = [job EXCEPT ![a] = Tail(@)]
             /\ UNCHANGED <<at, misled>>
    <2>1. Typed' /\ StillThere'
      BY <1>1, <1>3 DEF IInv, Typed, StillThere
    <2>2. Looked'
      BY <1>1, <1>3 DEF IInv, Typed, Looked
    <2> QED
      BY <1>2, <2>1, <2>2 DEF IInv
  <1>4. CASE /\ Head(job[a]).check => ~Exists(Head(job[a]).image)
             /\ Goto(a, "update", "fetch") /\ UNCHANGED <<job, misled>>
    <2>1. Typed' /\ StillThere'
      BY <1>1, <1>4 DEF IInv, Typed, StillThere, Goto, Places
    <2>2. ASSUME NEW i \in Images, ~Exists(i) PROVE i \notin had[a]
      BY <2>2, ImagesAssumption DEF Exists, IInv, StillThere
    <2>3. Head(job[a]).check => Head(job[a]).image \notin had[a]
      BY <1>4, <2>2 DEF IInv, Typed
    <2>4. Looked'
      BY <1>1, <1>4, <2>3 DEF IInv, Typed, Looked, Goto
    <2> QED
      BY <1>2, <2>1, <2>4 DEF IInv
  <1>5. CASE /\ Goto(a, "update", "fetch") /\ misled' = misled \cup {a}
             /\ UNCHANGED job
    <2>1. Typed' /\ StillThere'
      BY <1>1, <1>5 DEF IInv, Typed, StillThere, Goto, Places
    <2>2. Looked'
      BY <1>1, <1>5 DEF IInv, Typed, Looked, Goto
    <2> QED
      BY <1>2, <2>1, <2>2 DEF IInv
  <1> QED
    BY <1>3, <1>4, <1>5 DEF Look

(* An update or its process ends, and forgets what it found.               *)
LEMMA ForgetsKeeps ==
    ASSUME IInv, NEW a \in Actors, NEW to \in Places \ {"fetch"},
           at' = [at EXCEPT ![a] = to], Forgets(a), UNCHANGED image
    PROVE  IInv' /\ Kept
  <1>1. /\ job' = [job EXCEPT ![a] = <<>>] /\ had' = [had EXCEPT ![a] = {}]
        /\ misled' = misled \ {a}
    BY DEF Forgets
  <1>2. Typed' /\ StillThere'
    BY <1>1 DEF IInv, Typed, StillThere
  <1>3. Looked'
    BY <1>1 DEF IInv, Typed, Looked
  <1>4. Kept
    BY DEF Kept
  <1> QED
    BY <1>2, <1>3, <1>4 DEF IInv

(* The fetch itself: what it replaces is the image at the head of the job.  *)
LEMMA FetchesKeep ==
    ASSUME IInv, NEW a \in Actors, NEW origin, Fetches(a, origin),
           \/ origin \in Origins \ {"none"}
           \/ origin = image[Head(job[a]).image]
    PROVE  IInv' /\ Kept
  <1> DEFINE fetched == Head(job[a]).image
  <1>1. /\ Goto(a, "fetch", "update") /\ fetched \in Images
        /\ image' = [image EXCEPT ![fetched] = origin]
        /\ job' = [job EXCEPT ![a] = Tail(@)]
        /\ UNCHANGED <<had, misled>>
    BY DEF Fetches
  <1>2. origin \in Origins
    BY <1>1 DEF IInv, Typed
  <1>3. Typed'
    BY <1>1, <1>2 DEF IInv, Typed, Goto, Places
  <1>4. StillThere'
    BY <1>1 DEF IInv, Typed, StillThere
  <1>5. Looked'
    BY <1>1 DEF IInv, Typed, Looked, Goto
  <1>6. Kept
    <2> SUFFICES ASSUME NEW i \in Images, NEW b \in Actors,
                        image[i] = "local", image'[i] \notin {"local", "none"},
                        at[b] = "fetch", at'[b] # "fetch"
                 PROVE  ~Head(job[b]).check \/ i \notin had[b] \/ b \in misled
      BY DEF Kept
    <2>1. a = b
      BY <1>1 DEF Goto, IInv, Typed
    <2>2. i = fetched
      BY <1>1 DEF IInv, Typed
    <2> QED
      BY <2>1, <2>2 DEF IInv, Looked
  <1> QED
    BY <1>3, <1>4, <1>5, <1>6 DEF IInv

(* The steps of PluginImages.                                              *)
LEMMA StepKeeps ==
    ASSUME IInv, NEW a \in Actors, Step(a) \/ Answer(a)
    PROVE  IInv' /\ Kept
  <1>p. {"update", "installed", "dead", "idle", "done", "ready", "prompt"}
            \subseteq Places \ {"fetch"}
    BY DEF Places
  <1>1. CASE Connect(a)
    <2>1. \E to \in {"update", "installed", "dead", "idle", "done"} :
              at' = [at EXCEPT ![a] = to]
      BY <1>1 DEF Connect, Goto, Over
    <2> QED
      BY <1>1, <1>p, <2>1, MovesKeep DEF Connect
  <1>2. CASE InstalledPluginsCheck(a)
    <2>1. \E to \in {"ready", "prompt"} : at' = [at EXCEPT ![a] = to]
      BY <1>2 DEF InstalledPluginsCheck, Goto
    <2> QED
      BY <1>2, <1>p, <2>1, MovesKeep DEF InstalledPluginsCheck
  <1>3. CASE Look(a)
    BY <1>3, LookKeeps
  <1>4. CASE Pull(a) \/ Build(a)
    <2>1. ASSUME Panics(a) PROVE IInv' /\ Kept
      BY <1>p, <2>1, ForgetsKeeps DEF Panics, Goto
    <2>2. CASE Pull(a)
      BY <2>1, <2>2, FetchesKeep DEF Pull, Origins
    <2>3. CASE Build(a)
      BY <2>1, <2>3, FetchesKeep DEF Build, Origins
    <2> QED
      BY <1>4, <2>2, <2>3
  <1>5. CASE Updated(a)
    <2>1. \E to \in {"ready", "done"} : at' = [at EXCEPT ![a] = to]
      BY <1>5 DEF Updated, Goto
    <2> QED
      BY <1>5, <1>p, <2>1, ForgetsKeeps DEF Updated
  <1>6. CASE LookUp(a)
    <2>1. at' = [at EXCEPT ![a] = "done"]
      BY <1>6 DEF LookUp, Goto
    <2> QED
      BY <1>6, <1>p, <2>1, MovesKeep DEF LookUp
  <1>7. CASE Yes(a)
    <2>1. at' = [at EXCEPT ![a] = "update"]
      BY <1>7 DEF Yes, Goto
    <2> QED
      BY <1>7, <1>p, <2>1, BeginsKeeps DEF Yes
  <1>8. CASE No(a)
    <2>1. \E to \in {"ready", "dead"} : at' = [at EXCEPT ![a] = to]
      BY <1>8 DEF No, Goto
    <2> QED
      BY <1>8, <1>p, <2>1, MovesKeep DEF No
  <1> QED
    BY <1>1, <1>2, <1>3, <1>4, <1>5, <1>6, <1>7, <1>8 DEF Step, Answer

(* Commands that begin, and people who build and remove images.            *)
LEMMA OthersKeep ==
    ASSUME IInv,
           \/ \E a \in Actors, c \in Commands : Command(a, c)
           \/ \E i \in Images : BuildLocally(i) \/ RemoveImage(i)
    PROVE  IInv' /\ Kept
  <1>1. ASSUME NEW a \in Actors, NEW c \in Commands, Command(a, c)
        PROVE  IInv' /\ Kept
    <2>1. \E to \in {"update", "connect"} : at' = [at EXCEPT ![a] = to]
      BY <1>1 DEF Command, Goto
    <2>2. {"update", "connect"} \subseteq Places \ {"fetch"}
      BY DEF Places
    <2> QED
      BY <1>1, <2>1, <2>2, BeginsKeeps DEF Command
  <1>2. ASSUME NEW i \in Images, BuildLocally(i)
        PROVE  IInv' /\ Kept
    <2>1. image' = [image EXCEPT ![i] = "local"] /\ UNCHANGED <<at, job, had, misled>>
      BY <1>2 DEF BuildLocally
    <2>2. Typed' /\ StillThere' /\ Looked'
      BY <2>1 DEF IInv, Typed, StillThere, Looked, Origins
    <2> QED
      BY <2>1, <2>2 DEF IInv, Kept
  <1>3. ASSUME NEW i \in Images, RemoveImage(i)
        PROVE  IInv' /\ Kept
    <2>1. /\ image' = [image EXCEPT ![i] = "none"]
          /\ had' = [a \in Actors |-> had[a] \ {i}]
          /\ UNCHANGED <<at, job, misled>>
      BY <1>3 DEF RemoveImage
    <2>2. Typed' /\ StillThere' /\ Looked'
      BY <2>1 DEF IInv, Typed, StillThere, Looked, Origins
    <2> QED
      BY <2>1, <2>2 DEF IInv, Kept
  <1> QED
    BY <1>1, <1>2, <1>3

(* The watching process's own steps, which touch no image.                 *)
LEMMA WatcherKeeps ==
    ASSUME IInv, Event \/ SetUp \/ NotSetUp \/ Hash \/ CopyToVolume \/ Run
    PROVE  IInv' /\ Kept
  <1>1. UNCHANGED <<image, job, had, misled>>
    BY DEF Event, SetUp, NotSetUp, Hash, CopyToVolume, Run, images, docker
  <1>2. at' = at \/ \E to \in {"connect", "dead", "idle"} : at' = [at EXCEPT ![watcher] = to]
    BY DEF Event, SetUp, NotSetUp, Hash, CopyToVolume, Run, images, docker, Goto
  <1>3. CASE at' = at
    <2>1. Typed' /\ StillThere' /\ Looked'
      BY <1>1, <1>3 DEF IInv, Typed, StillThere, Looked
    <2> QED
      BY <1>3, <2>1 DEF IInv, Kept
  <1>4. CASE \E to \in {"connect", "dead", "idle"} : at' = [at EXCEPT ![watcher] = to]
    <2>1. {"connect", "dead", "idle"} \subseteq Places \ {"fetch"}
      BY DEF Places
    <2> QED
      BY <1>1, <1>4, <2>1, MovesKeep, WatcherAssumption
  <1> QED
    BY <1>2, <1>3, <1>4

(* Every step of the composition keeps IInv and what was built here.        *)
LEMMA ImagesStep == IInv /\ [Next]_vars => IInv' /\ [Kept]_images
  <1> SUFFICES ASSUME IInv, [Next]_vars PROVE IInv' /\ [Kept]_images
    OBVIOUS
  <1>1. CASE Scanning
    BY <1>1, WatcherKeeps, StepKeeps, WatcherAssumption DEF Scanning
  <1>2. CASE Elsewhere
    BY <1>2, StepKeeps, OthersKeep, WatcherAssumption DEF Elsewhere
  <1>3. CASE \/ UNCHANGED vars
             \/ \E f \in Files : Create(f) \/ MoveIn(f) \/ Fill(f) \/ Rewrite(f) \/ Delete(f)
    <2>1. UNCHANGED docker
      BY <1>3 DEF vars, images, Create, MoveIn, Fill, Rewrite, Delete, Write
    <2>2. Typed' /\ StillThere' /\ Looked'
      BY <2>1 DEF docker, IInv, Typed, StillThere, Looked
    <2>3. Kept
      BY <2>1 DEF docker, Kept
    <2> QED
      BY <2>2, <2>3 DEF IInv
  <1> QED
    BY <1>1, <1>2, <1>3 DEF Next

(* `Re-pulling installed images would clobber locally rebuilt ones' is what  *)
(* InstalledPluginsCheck and UpdateEnabledPlugins avoid, whatever images    *)
(* come and go between a look and a fetch, and whichever other processes    *)
(* fetch at the same time.                                                 *)
THEOREM LocalImagesKept == Spec => KeepsLocal
  <1>1. [Kept]_images => [\A i \in Images, a \in Actors :
          /\ image[i] = "local" /\ image'[i] \notin {"local", "none"}
          /\ at[a] = "fetch" /\ at'[a] # "fetch"
          => ~Head(job[a]).check \/ i \notin had[a] \/ a \in misled]_images
    BY DEF Kept
  <1> QED
    BY <1>1, ImagesInit, ImagesStep, PTL DEF Spec, KeepsLocal
-----------------------------------------------------------------------------
(* The types of PluginImages, with what an update still looks at as a       *)
(* sequence.                                                               *)
ImagesTyped == ImagesTypeOK /\ job \in [Actors -> Seq(Jobs)]

(* Where the scan at hand is, and where the process that watches: it runs   *)
(* no other command than scans.                                            *)
Staged == /\ stage = "wait" => at[watcher] \in {"idle", "dead"}
          /\ stage \in {"hash", "copy", "store"} => at[watcher] \in {"ready", "dead"}
          /\ IF stage = "wait" THEN file = NoFile ELSE file \in Files
          /\ cmd[watcher] \in {"none", "scan"}

FolderTyped == /\ content \in [Files -> Contents]
               /\ events \in Seq(Files) /\ Len(events) <= QueueCap
               /\ file \in Files \cup {NoFile}
               /\ stage \in Stages
               /\ sum \in Contents
               /\ volume \in [Contents -> Contents]
               /\ moved \subseteq Files
               /\ seen \in [Files -> SUBSET Contents]
               /\ missed \subseteq Files

TInv == ImagesTyped /\ FolderTyped /\ Staged

(* What has happened is counted up to the bound.                           *)
LEMMA CountIsTyped ==
    ASSUME happened \in 0 .. MaxEvents, happened' = happened \/ Happens
    PROVE  happened' \in 0 .. MaxEvents
  BY FaultsAssumption DEF Happens

(* What an update goes through.                                            *)
LEMMA UpdatesAreJobs ==
    /\ UpdateEnabledPlugins \in Seq(Jobs)
    /\ UpdateAllPlugins \in Seq(Jobs)
    /\ \A c \in Commands : JobOf(c) \in Seq(Jobs)
  <1>1. {Helpers, Plugins, Others} \subseteq Seq(Images)
    BY ImagesAssumption
  <1>2. ASSUME NEW s \in Seq(Images), NEW b \in BOOLEAN
        PROVE  /\ [k \in 1 .. Len(s) |-> [image |-> s[k], check |-> b, build |-> FALSE]]
                     \in Seq(Jobs)
               /\ [k \in 1 .. Len(s) |-> [image |-> s[k], check |-> b,
                                          build |-> s[k] \in Built]] \in Seq(Jobs)
    <2>1. Len(s) \in Nat /\ \A k \in 1 .. Len(s) : s[k] \in Images
      BY LenProperties, ElementOfSeq
    <2>2. \A k \in 1 .. Len(s), d \in BOOLEAN :
             [image |-> s[k], check |-> b, build |-> d] \in Jobs
      BY <2>1 DEF Jobs
    <2>3. \A k \in 1 .. Len(s) : (s[k] \in Built) \in BOOLEAN
      OBVIOUS
    <2>4. ASSUME NEW g \in [1 .. Len(s) -> Jobs] PROVE g \in Seq(Jobs)
      BY <2>1, SeqDef
    <2> QED
      BY <2>2, <2>3, <2>4
  <1>3. Plugins \o Others \in Seq(Images)
    BY <1>1, ConcatProperties
  <1>4. \A b \in BOOLEAN : Helping(b) \in Seq(Jobs) /\ Plugging(Plugins, b) \in Seq(Jobs)
                             /\ Plugging(Listed, b) \in Seq(Jobs)
    BY <1>1, <1>2, <1>3 DEF Helping, Plugging, Listed
  <1>5. UpdateEnabledPlugins \in Seq(Jobs) /\ UpdateAllPlugins \in Seq(Jobs)
    BY <1>4, ConcatProperties DEF UpdateEnabledPlugins, UpdateAllPlugins
  <1>6. ASSUME NEW c \in Commands PROVE JobOf(c) \in Seq(Jobs)
    <2>1. c.image \in Images \cup {NoPlugin}
      BY CommandsAssumption
    <2>2. \A b, d \in BOOLEAN : [image |-> c.image, check |-> b, build |-> d] \in Jobs
      BY <2>1 DEF Jobs
    <2>3. \A j \in Jobs : <<j>> \in Seq(Jobs)
      OBVIOUS
    <2>4. c.do \in {"lookup", "updateAll", "update", "rebuild", "start"}
      BY CommandsAssumption
    <2>5. <<>> \in Seq(Jobs)
      OBVIOUS
    <2> QED
      BY <1>5, <2>2, <2>3, <2>4, <2>5 DEF JobOf
  <1> QED
    BY <1>5, <1>6

(* A sequence of jobs has nothing but jobs in it.                           *)
LEMMA JobsTyped == \A s \in Seq(Jobs) : \A k \in DOMAIN s : s[k] \in Jobs
  BY ElementOfSeq, LenProperties

(* The first states.                                                       *)
LEMMA TypesInit == Init => TInv
  <1> SUFFICES ASSUME Init PROVE TInv
    OBVIOUS
  <1>1. ImagesTyped
    BY FaultsAssumption DEF Init, InitImages, ImagesTyped, ImagesTypeOK, Origins, Places
  <1>2. FolderTyped
    BY QueueAssumption DEF Init, FolderTyped, Contents, Stages
  <1>3. Staged
    BY WatcherAssumption DEF Init, InitImages, Staged
  <1> QED
    BY <1>1, <1>2, <1>3 DEF TInv

(* A process has moved on without a command of its own, and the scan at     *)
(* hand, if it is the watching one's, is where it was.                      *)
LEMMA MoveStaged ==
    ASSUME TInv, NEW a \in Actors, NEW to \in Places,
           at' = [at EXCEPT ![a] = to], UNCHANGED <<cmd, stage, file>>,
           \/ a # watcher
           \/ at[a] \notin {"idle", "dead"} /\ (at[a] = "ready" => cmd[a] = "lookup")
           \/ to = at[a]
    PROVE  Staged'
  <1>1. at \in [Actors -> Places] /\ watcher \in Actors
    BY WatcherAssumption DEF TInv, ImagesTyped, ImagesTypeOK
  <1>2. CASE to = at[a] \/ a # watcher
    BY <1>1, <1>2 DEF TInv, Staged
  <1>3. CASE a = watcher /\ at[a] \notin {"idle", "dead"} /\ (at[a] = "ready" => cmd[a] = "lookup")
    BY <1>1, <1>3 DEF TInv, Staged
  <1> QED
    BY <1>2, <1>3

(* The steps of one process of PluginImages.                               *)
LEMMA StepIsTyped ==
    ASSUME TInv, NEW a \in Actors, Step(a) \/ Answer(a),
           UNCHANGED <<folder, events, scan, past>>
    PROVE  TInv'
  <1> DEFINE Typed_ == /\ image' \in [Images -> Origins]
                       /\ job' \in [Actors -> Seq(Jobs)]
                       /\ happened' \in 0 .. MaxEvents
                       /\ had' \in [Actors -> SUBSET Images]
                       /\ misled' \subseteq Actors
             Moved_ == \E to \in Places :
                          /\ at' = [at EXCEPT ![a] = to] /\ cmd' = cmd
                          /\ \/ at[a] \notin {"idle", "dead"}
                                  /\ (at[a] = "ready" => cmd[a] = "lookup")
                             \/ to = at[a]
  <1> USE CountIsTyped
  <1>1. /\ image \in [Images -> Origins] /\ job \in [Actors -> Seq(Jobs)]
        /\ happened \in 0 .. MaxEvents /\ had \in [Actors -> SUBSET Images]
        /\ misled \subseteq Actors /\ at \in [Actors -> Places]
    BY DEF TInv, ImagesTyped, ImagesTypeOK
  <1>2. ASSUME NEW i \in Images, image' = [image EXCEPT ![i] = image[i]] \/
                  \E o \in {"registry", "repository", "directory"} :
                      image' = [image EXCEPT ![i] = o]
        PROVE  image' \in [Images -> Origins]
    BY <1>1, <1>2 DEF Origins
  <1>3. job[a] # <<>> => Tail(job[a]) \in Seq(Jobs)
    BY <1>1
  <1>4. ASSUME NEW jobs \in Seq(Jobs), Begins(a, jobs)
        PROVE  job' \in [Actors -> Seq(Jobs)] /\ had' \in [Actors -> SUBSET Images]
    <2>1. (IF jobs = <<>> THEN {} ELSE Here) \in SUBSET Images
      BY DEF Here
    <2> QED
      BY <1>1, <1>4, <2>1 DEF Begins
  <1>5. ASSUME Forgets(a)
        PROVE  /\ job' \in [Actors -> Seq(Jobs)] /\ had' \in [Actors -> SUBSET Images]
               /\ misled' \subseteq Actors
    <2>1. <<>> \in Seq(Jobs)
      OBVIOUS
    <2> QED
      BY <1>1, <1>5, <2>1 DEF Forgets
  <1>m. ASSUME NEW from \in Places \ {"idle", "dead"}, NEW to \in Places, Goto(a, from, to),
               from = "ready" => cmd[a] = "lookup", cmd' = cmd
        PROVE  Moved_
    BY <1>m DEF Goto
  <1>p. {"connect", "installed", "update", "fetch", "prompt", "ready", "done"}
            \subseteq Places \ {"idle", "dead"}
        /\ {"idle", "dead"} \subseteq Places
    BY DEF Places
  <1> HIDE DEF Moved_
  <1>6. ASSUME Connect(a) PROVE Typed_ /\ Moved_
    <2>1. happened' = happened \/ Happens
      BY <1>6 DEF Connect, Fault
    <2>2. Typed_
      BY <1>1, <1>6, <2>1 DEF Connect
    <2>3. \E to \in {"update", "installed", "dead", "idle", "done"} : Goto(a, "connect", to)
      BY <1>6 DEF Connect, Over
    <2>4. Moved_
      BY <1>m, <1>p, <1>6, <2>3 DEF Connect
    <2> QED
      BY <2>2, <2>4
  <1>7. ASSUME InstalledPluginsCheck(a) PROVE Typed_ /\ Moved_
    <2>1. happened' = happened \/ Happens
      BY <1>7 DEF InstalledPluginsCheck, Fault
    <2>2. Typed_
      BY <1>1, <1>7, <2>1 DEF InstalledPluginsCheck
    <2>3. \E to \in {"ready", "prompt"} : Goto(a, "installed", to)
      BY <1>7 DEF InstalledPluginsCheck
    <2>4. Moved_
      BY <1>m, <1>p, <1>7, <2>3 DEF InstalledPluginsCheck
    <2> QED
      BY <2>2, <2>4
  <1>8. ASSUME Look(a) PROVE Typed_ /\ Moved_
    <2>1. happened' = happened \/ Happens
      BY <1>8 DEF Look, Fault
    <2>2. /\ UNCHANGED <<image, cmd, had>>
          /\ job' = job \/ job' = [job EXCEPT ![a] = Tail(job[a])]
          /\ misled' = misled \/ misled' = misled \cup {a}
          /\ Goto(a, "update", "update") \/ Goto(a, "update", "fetch")
      BY <1>1, <1>8 DEF Look, Goto
    <2>3. Typed_
      BY <1>1, <1>3, <1>8, <2>1, <2>2 DEF Look
    <2>4. Moved_
      BY <1>m, <1>p, <2>2
    <2> QED
      BY <2>3, <2>4
  <1>9. ASSUME Pull(a) \/ Build(a) PROVE Typed_ /\ Moved_
    <2>1. happened' = happened \/ Happens
      BY <1>9 DEF Pull, Build, Fault
    <2>2. \/ Panics(a)
          \/ /\ \E o \in {"registry", "repository", "directory"} : Fetches(a, o)
          \/ Fetches(a, image[Head(job[a]).image])
      BY <1>9 DEF Pull, Build
    <2>3. job[a] # <<>> /\ cmd' = cmd
      BY <1>9 DEF Pull, Build
    <2>4. ASSUME Panics(a) PROVE Typed_ /\ Moved_
      <3>1. Typed_
        BY <1>1, <1>5, <2>1, <2>4 DEF Panics
      <3>2. Moved_
        BY <1>m, <1>p, <2>3, <2>4 DEF Panics
      <3> QED
        BY <3>1, <3>2
    <2>5. ASSUME NEW o, Fetches(a, o),
                 o \in {"registry", "repository", "directory"} \/ o = image[Head(job[a]).image]
          PROVE  Typed_ /\ Moved_
      <3>1. Typed_
        BY <1>1, <1>2, <1>3, <2>1, <2>3, <2>5 DEF Fetches
      <3>2. Moved_
        BY <1>m, <1>p, <2>3, <2>5 DEF Fetches
      <3> QED
        BY <3>1, <3>2
    <2> QED
      BY <2>2, <2>4, <2>5
  <1>10. ASSUME Updated(a) PROVE Typed_ /\ Moved_
    <2>1. Typed_
      BY <1>1, <1>5, <1>10 DEF Updated
    <2>2. \E to \in {"ready", "done"} : Goto(a, "update", to)
      BY <1>10 DEF Updated
    <2>3. Moved_
      BY <1>m, <1>p, <1>10, <2>2 DEF Updated
    <2> QED
      BY <2>1, <2>3
  <1>11. ASSUME LookUp(a) PROVE Typed_ /\ Moved_
    <2>1. happened' = happened \/ Happens
      BY <1>11 DEF LookUp, Fault
    <2>2. Typed_
      BY <1>1, <1>11, <2>1 DEF LookUp
    <2>3. Moved_
      BY <1>m, <1>p, <1>11 DEF LookUp
    <2> QED
      BY <2>2, <2>3
  <1>12. ASSUME Answer(a) PROVE Typed_ /\ Moved_
    <2>1. CASE Yes(a)
      <3>1. Typed_
        BY <1>1, <1>4, <2>1, UpdatesAreJobs DEF Yes
      <3>2. Moved_
        BY <1>m, <1>p, <2>1 DEF Yes
      <3> QED
        BY <3>1, <3>2
    <2>2. CASE No(a)
      <3>1. Typed_
        BY <1>1, <2>2 DEF No
      <3>2. Moved_
        BY <1>m, <1>p, <2>2 DEF No
      <3> QED
        BY <3>1, <3>2
    <2> QED
      BY <1>12, <2>1, <2>2 DEF Answer
  <1>13. Typed_ /\ Moved_
    BY <1>6, <1>7, <1>8, <1>9, <1>10, <1>11, <1>12 DEF Step
  <1> HIDE DEF Typed_
  <1>14. ImagesTyped'
    <2>1. at' \in [Actors -> Places] /\ cmd' = cmd
      BY <1>1, <1>13 DEF Moved_
    <2> QED
      BY <1>13, <2>1, JobsTyped DEF Typed_, TInv, ImagesTyped, ImagesTypeOK
  <1>15. FolderTyped'
    BY DEF TInv, FolderTyped, folder, scan, past
  <1>16. Staged'
    BY <1>13, MoveStaged DEF scan, Moved_
  <1> QED
    BY <1>14, <1>15, <1>16 DEF TInv

(* Other processes begin a command, and people build and remove images.     *)
LEMMA ElsewhereIsTyped ==
    ASSUME TInv, UNCHANGED <<folder, events, scan, past>>,
           \/ \E a \in Actors \ {watcher} : \E c \in Commands : Command(a, c)
           \/ \E i \in Images : BuildLocally(i) \/ RemoveImage(i)
    PROVE  TInv'
  <1> USE CountIsTyped
  <1>1. /\ image \in [Images -> Origins] /\ job \in [Actors -> Seq(Jobs)]
        /\ cmd \in [Actors -> {"none", "scan"} \cup {c.do : c \in Commands}]
        /\ happened \in 0 .. MaxEvents /\ had \in [Actors -> SUBSET Images]
        /\ misled \subseteq Actors /\ at \in [Actors -> Places] /\ watcher \in Actors
    BY WatcherAssumption DEF TInv, ImagesTyped, ImagesTypeOK
  <1>2. FolderTyped'
    BY DEF TInv, FolderTyped, folder, scan, past
  <1>3. ASSUME NEW a \in Actors \ {watcher}, NEW c \in Commands, Command(a, c)
        PROVE  TInv'
    <2>1. happened' \in 0 .. MaxEvents /\ UNCHANGED <<image, misled>>
      BY <1>1, <1>3 DEF Command
    <2>2. job' \in [Actors -> Seq(Jobs)] /\ had' \in [Actors -> SUBSET Images]
      <3>1. (IF JobOf(c) = <<>> THEN {} ELSE Here) \in SUBSET Images
        BY DEF Here
      <3>2. JobOf(c) \in Seq(Jobs)
        BY UpdatesAreJobs
      <3> QED
        BY <1>1, <1>3, <3>1, <3>2 DEF Command, Begins
    <2>3. /\ cmd' \in [Actors -> {"none", "scan"} \cup {d.do : d \in Commands}]
          /\ cmd'[watcher] = cmd[watcher]
      BY <1>1, <1>3 DEF Command
    <2>4. at' \in [Actors -> Places] /\ at'[watcher] = at[watcher]
      BY <1>1, <1>3 DEF Command, Goto, Places
    <2>5. ImagesTyped'
      BY <1>1, <2>1, <2>2, <2>3, <2>4, JobsTyped DEF ImagesTyped, ImagesTypeOK
    <2>6. Staged'
      BY <2>3, <2>4 DEF TInv, Staged, scan
    <2> QED
      BY <1>2, <2>5, <2>6 DEF TInv
  <1>4. ASSUME NEW i \in Images, BuildLocally(i) \/ RemoveImage(i)
        PROVE  TInv'
    <2>1. /\ happened' \in 0 .. MaxEvents /\ UNCHANGED <<cmd, at, job, misled>>
          /\ \E o \in Origins : image' = [image EXCEPT ![i] = o]
          /\ had' = had \/ had' = [a \in Actors |-> had[a] \ {i}]
      BY <1>1, <1>4 DEF BuildLocally, RemoveImage, Origins
    <2>2. image' \in [Images -> Origins] /\ had' \in [Actors -> SUBSET Images]
      BY <1>1, <2>1
    <2>3. ImagesTyped'
      BY <2>1, <2>2 DEF TInv, ImagesTyped, ImagesTypeOK
    <2>4. Staged'
      BY <2>1 DEF TInv, Staged, scan
    <2> QED
      BY <1>2, <2>3, <2>4 DEF TInv
  <1> QED
    BY <1>3, <1>4

(* What other programs do to the folder.                                   *)
LEMMA FolderIsTyped ==
    ASSUME TInv, NEW f \in Files,
           Create(f) \/ MoveIn(f) \/ Fill(f) \/ Rewrite(f) \/ Delete(f)
    PROVE  TInv'
  <1>1. /\ \E c \in Contents : Write(f, c)
        /\ NewName(f) \/ UNCHANGED <<events, past>>
        /\ moved' = moved \/ moved' = moved \cup {f} \/ moved' = moved \ {f}
    BY DEF Create, MoveIn, Fill, Rewrite, Delete, Contents
  <1>2. PICK c \in Contents : Write(f, c)
    BY <1>1
  <1>3. /\ content' = [content EXCEPT ![f] = c] /\ UNCHANGED <<docker, scan>>
        /\ happened' \in 0 .. MaxEvents
    BY <1>2, CountIsTyped DEF Write, TInv, ImagesTyped, ImagesTypeOK
  <1>4. ImagesTyped'
    BY <1>3 DEF TInv, ImagesTyped, ImagesTypeOK, docker
  <1>5. events' \in Seq(Files) /\ Len(events') <= QueueCap
    <2>1. events \in Seq(Files) /\ Len(events) \in Nat /\ Len(events) <= QueueCap
      BY LenProperties DEF TInv, FolderTyped
    <2>2. Append(events, f) \in Seq(Files) /\ Len(Append(events, f)) = Len(events) + 1
      BY <2>1, AppendProperties
    <2> QED
      BY <1>1, <2>1, <2>2, QueueAssumption DEF NewName
  <1>6. seen' \in [Files -> SUBSET Contents] /\ missed' \subseteq Files
    BY <1>1 DEF NewName, past, TInv, FolderTyped
  <1>7. FolderTyped'
    BY <1>1, <1>3, <1>5, <1>6 DEF TInv, FolderTyped, scan
  <1>8. Staged'
    BY <1>3 DEF TInv, Staged, scan, docker
  <1> QED
    BY <1>4, <1>7, <1>8 DEF TInv

(* The steps of the scan at hand.                                          *)
LEMMA ScanIsTyped ==
    ASSUME TInv, Event \/ SetUp \/ NotSetUp \/ Hash \/ CopyToVolume \/ Run
    PROVE  TInv'
  <1> USE CountIsTyped
  <1>1. /\ at \in [Actors -> Places] /\ happened \in 0 .. MaxEvents /\ watcher \in Actors
        /\ cmd \in [Actors -> {"none", "scan"} \cup {c.do : c \in Commands}]
    BY WatcherAssumption DEF TInv, ImagesTyped, ImagesTypeOK
  <1>2. UNCHANGED <<image, job, had, misled, folder>>
    BY DEF Event, SetUp, NotSetUp, Hash, CopyToVolume, Run, images, docker
  <1>3. at' = at \/ \E to \in {"connect", "dead", "idle"} : at' = [at EXCEPT ![watcher] = to]
    BY DEF Event, SetUp, NotSetUp, Hash, CopyToVolume, Run, images, docker, Goto
  <1>4. cmd' = cmd \/ cmd' = [cmd EXCEPT ![watcher] = "scan"]
    BY DEF Event, SetUp, NotSetUp, Hash, CopyToVolume, Run, images, docker
  <1>5. happened' = happened \/ Happens
    BY DEF Event, SetUp, NotSetUp, Hash, CopyToVolume, Run, images, Fault
  <1>6. ImagesTyped'
    <2>1. at' \in [Actors -> Places]
      BY <1>1, <1>3 DEF Places
    <2>2. cmd' \in [Actors -> {"none", "scan"} \cup {c.do : c \in Commands}]
      BY <1>1, <1>4
    <2> QED
      BY <1>1, <1>2, <1>5, <2>1, <2>2 DEF TInv, ImagesTyped, ImagesTypeOK
  <1>7. FolderTyped'
    <2>1. events' \in Seq(Files) /\ Len(events') <= QueueCap
      <3>1. events \in Seq(Files) /\ Len(events) \in Nat /\ Len(events) <= QueueCap
        BY LenProperties DEF TInv, FolderTyped
      <3>2. events' = events \/ (events # <<>> /\ events' = Tail(events))
        BY DEF Event, SetUp, NotSetUp, Hash, CopyToVolume, Run
      <3>3. events # <<>> => Tail(events) \in Seq(Files) /\ Len(Tail(events)) = Len(events) - 1
        BY <3>1, HeadTailProperties
      <3> QED
        BY <3>1, <3>2, <3>3, QueueAssumption
    <2>2. file' \in Files \cup {NoFile}
      <3>1. events # <<>> => Head(events) \in Files
        BY HeadTailProperties DEF TInv, FolderTyped
      <3> QED
        BY <3>1 DEF TInv, FolderTyped, Event, SetUp, NotSetUp, Hash, CopyToVolume, Run, Fails, Ends
    <2>3. stage' \in Stages
      BY DEF Event, SetUp, NotSetUp, Hash, CopyToVolume, Run, Fails, Ends, At, Stages
    <2>4. ~(stage = "wait") => file \in Files
      BY DEF TInv, Staged
    <2>5. sum' \in Contents
      BY <2>4 DEF TInv, FolderTyped, Event, SetUp, NotSetUp, Hash, CopyToVolume, Run, Fails,
                  Ends, At, Contents
    <2>6. volume' \in [Contents -> Contents]
      BY <2>4 DEF TInv, FolderTyped, Event, SetUp, NotSetUp, Hash, CopyToVolume, Run, At
    <2>7. missed' \subseteq Files
      BY <2>4 DEF TInv, FolderTyped, Event, SetUp, NotSetUp, Hash, CopyToVolume, Run, Fails,
                  Ends, At, past
    <2>8. seen' \in [Files -> SUBSET Contents]
      <3>1. volume[sum] \in Contents
        BY DEF TInv, FolderTyped
      <3>2. seen' = seen \/ seen' = [seen EXCEPT ![file] = @ \cup {volume[sum]}]
        BY DEF Event, SetUp, NotSetUp, Hash, CopyToVolume, Run, past
      <3> QED
        BY <3>1, <3>2 DEF TInv, FolderTyped
    <2> QED
      BY <1>2, <2>1, <2>2, <2>3, <2>5, <2>6, <2>7, <2>8 DEF TInv, FolderTyped, folder
  <1>8. Staged'
    <2>1. CASE Event
      <3>1. events # <<>> => Head(events) \in Files
        BY HeadTailProperties DEF TInv, FolderTyped
      <3>2. cmd'[watcher] = "scan" /\ at'[watcher] \in {"connect", "dead"}
        BY <1>1, <2>1 DEF Event, Goto
      <3> QED
        BY <1>1, <2>1, <3>1, <3>2 DEF TInv, Staged, Event, At, Goto
    <2>2. CASE SetUp
      BY <2>2 DEF TInv, Staged, SetUp, At, images, docker
    <2>3. CASE NotSetUp
      BY <2>3 DEF TInv, Staged, NotSetUp, Fails, Ends, At, images, docker
    <2>4. CASE Hash
      BY <1>1, <2>4 DEF TInv, Staged, Hash, Fails, Ends, At, images, docker
    <2>5. CASE CopyToVolume
      BY <1>1, <2>5 DEF TInv, Staged, CopyToVolume, At
    <2>6. CASE Run
      BY <1>1, <2>6 DEF TInv, Staged, Run, Fails, Ends, At
    <2> QED
      BY <2>1, <2>2, <2>3, <2>4, <2>5, <2>6
  <1> QED
    BY <1>6, <1>7, <1>8 DEF TInv

(* Every step keeps the types.                                             *)
LEMMA TypesNext == TInv /\ [Next]_vars => TInv'
  <1> SUFFICES ASSUME TInv, [Next]_vars PROVE TInv'
    OBVIOUS
  <1>1. CASE Scanning
    BY <1>1, ScanIsTyped, StepIsTyped, WatcherAssumption DEF Scanning
  <1>2. CASE Elsewhere /\ UNCHANGED <<folder, events, scan, past>>
    BY <1>2, StepIsTyped, ElsewhereIsTyped, WatcherAssumption DEF Elsewhere
  <1>3. CASE \E f \in Files : Create(f) \/ MoveIn(f) \/ Fill(f) \/ Rewrite(f) \/ Delete(f)
    BY <1>3, FolderIsTyped
  <1>4. CASE UNCHANGED vars
    BY <1>4 DEF vars, images, docker, folder, scan, past, TInv, ImagesTyped, ImagesTypeOK,
                FolderTyped, Staged
  <1> QED
    BY <1>1, <1>2, <1>3, <1>4 DEF Next

(* Every variable keeps to its type, whichever processes and programs are   *)
(* at work, and the scan at hand is at a stage that goes with where its     *)
(* process is.                                                             *)
THEOREM WatchTypeCorrect == Spec => []TypeOK
  <1>1. TInv => TypeOK
    <2> SUFFICES ASSUME TInv PROVE TypeOK
      OBVIOUS
    <2>1. \A k \in DOMAIN events : events[k] \in Files
      BY ElementOfSeq, LenProperties DEF TInv, FolderTyped
    <2> QED
      BY <2>1 DEF TInv, ImagesTyped, FolderTyped, Staged, TypeOK
  <1> QED
    BY <1>1, TypesInit, TypesNext, PTL DEF Spec

-----------------------------------------------------------------------------
(* What was moved in and not touched since is the whole sample.            *)
MovedIsWhole == \A f \in moved : content[f] = "whole"

FInv == TInv /\ MovedIsWhole /\ NotForgotten

(* What becomes of one file at a step: a file that is not forgotten is not   *)
(* forgotten by a step that takes nothing from it.                         *)
Remembered(f) == \/ OnItsWay(f) \/ "whole" \in seen[f]
                 \/ f \in missed \/ Dead \/ Spoiled

(* Nothing waits at first.                                                 *)
LEMMA NothingMovedYet == Init => FInv
  BY TypesInit DEF Init, FInv, MovedIsWhole, NotForgotten

(* A process that is dead stays so.                                        *)
LEMMA DeadStaysDead == TInv /\ [Next]_vars /\ Dead => Dead'
  <1> SUFFICES ASSUME TInv, [Next]_vars, Dead PROVE Dead'
    OBVIOUS
  <1>1. at \in [Actors -> Places] /\ watcher \in Actors
    BY WatcherAssumption DEF TInv, ImagesTyped, ImagesTypeOK
  <1>2. ASSUME NEW a \in Actors, Step(a) \/ Answer(a) PROVE Dead'
    <2>1. at' = at \/ \E from \in Places \ {"dead"}, to \in Places : Goto(a, from, to)
      <3>1. CASE Connect(a)
        BY <3>1 DEF Connect, Over, Places
      <3>2. CASE InstalledPluginsCheck(a) \/ Look(a)
        BY <3>2 DEF InstalledPluginsCheck, Look, Places
      <3>3. CASE Pull(a) \/ Build(a)
        BY <3>3 DEF Pull, Build, Fetches, Panics, Places
      <3>4. CASE Updated(a) \/ LookUp(a)
        BY <3>4 DEF Updated, LookUp, Places
      <3>5. CASE Answer(a)
        BY <3>5 DEF Answer, Yes, No, Places
      <3> QED
        BY <1>2, <3>1, <3>2, <3>3, <3>4, <3>5 DEF Step
    <2> QED
      BY <1>1, <2>1 DEF Dead, Goto
  <1>3. CASE Scanning
    <2>1. Event \/ SetUp \/ NotSetUp \/ Hash \/ CopyToVolume \/ Run => FALSE
      BY DEF Event, SetUp, NotSetUp, Hash, CopyToVolume, Run, Fails, Ends, At
    <2> QED
      BY <1>1, <1>2, <1>3, <2>1 DEF Scanning
  <1>4. CASE Elsewhere
    <2>1. ASSUME NEW a \in Actors \ {watcher}, NEW c \in Commands, Command(a, c) PROVE Dead'
      BY <1>1, <2>1 DEF Command, Goto, Dead
    <2>2. ASSUME NEW i \in Images, BuildLocally(i) \/ RemoveImage(i) PROVE Dead'
      BY <2>2 DEF BuildLocally, RemoveImage, Dead
    <2> QED
      BY <1>1, <1>2, <1>4, <2>1, <2>2 DEF Elsewhere
  <1>5. CASE \/ UNCHANGED vars
             \/ \E f \in Files : Create(f) \/ MoveIn(f) \/ Fill(f) \/ Rewrite(f) \/ Delete(f)
    BY <1>5 DEF vars, images, docker, Create, MoveIn, Fill, Rewrite, Delete, Write, Dead
  <1> QED
    BY <1>3, <1>4, <1>5 DEF Next

(* The folder's own steps: a new name waits or is counted as missed, and    *)
(* what is touched is no longer one that was left alone.                   *)
LEMMA FolderRemembers ==
    ASSUME FInv, NEW f \in Files,
           Create(f) \/ MoveIn(f) \/ Fill(f) \/ Rewrite(f) \/ Delete(f)
    PROVE  MovedIsWhole' /\ NotForgotten'
  <1>1. /\ content \in [Files -> Contents] /\ events \in Seq(Files) /\ moved \subseteq Files
        /\ seen \in [Files -> SUBSET Contents] /\ missed \subseteq Files
        /\ NoFile \notin Files /\ QueueCap \in Nat
    BY NamesAssumption, QueueAssumption DEF FInv, TInv, FolderTyped
  <1>2. UNCHANGED <<at, file, stage, sum, volume>>
    BY DEF Create, MoveIn, Fill, Rewrite, Delete, Write, docker, scan
  <1>3. MovedIsWhole'
    BY <1>1 DEF FInv, MovedIsWhole, Create, MoveIn, Fill, Rewrite, Delete, Write
  <1>4. ASSUME NEW g \in moved', g \in moved, Remembered(g), UNCHANGED <<events, past>>
        PROVE  Remembered(g)'
    BY <1>2, <1>4 DEF Remembered, OnItsWay, Dead, Spoiled, past
  <1>5. ASSUME NEW g \in moved', g \in moved, g # f, Remembered(g), NewName(f)
        PROVE  Remembered(g)'
    <2>1. seen'[g] = seen[g] /\ (g \in missed => g \in missed')
      BY <1>1, <1>5 DEF NewName
    <2>2. ASSUME NEW k \in DOMAIN events, events[k] = g
          PROVE  k \in DOMAIN events' /\ events'[k] = g
      <3>1. events' = events \/ events' = Append(events, f)
        BY <1>5 DEF NewName
      <3> QED
        BY <1>1, <2>2, <3>1, AppendProperties, LenProperties
    <2> QED
      BY <1>2, <1>5, <2>1, <2>2 DEF Remembered, OnItsWay, Dead, Spoiled
  <1>6. ASSUME NewName(f) PROVE Remembered(f)'
    <2>1. CASE f \in missed'
      BY <2>1 DEF Remembered
    <2>2. CASE events' = Append(events, f)
      <3>1. Len(events) + 1 \in DOMAIN events' /\ events'[Len(events) + 1] = f
        BY <1>1, <2>2, AppendProperties, LenProperties
      <3> QED
        BY <3>1 DEF Remembered, OnItsWay
    <2> QED
      BY <1>6, <2>1, <2>2 DEF NewName
  <1>7. \A g \in moved : Remembered(g)
    BY DEF FInv, NotForgotten, Remembered
  <1>8. \A g \in moved' : Remembered(g)'
    <2>1. CASE Create(f)
      <3>1. f \notin moved /\ moved' = moved /\ NewName(f)
        BY <2>1 DEF Create, FInv, MovedIsWhole
      <3> QED
        BY <1>5, <1>7, <3>1
    <2>2. CASE MoveIn(f)
      <3>1. moved' = moved \cup {f} /\ NewName(f)
        BY <2>2 DEF MoveIn
      <3> QED
        BY <1>5, <1>6, <1>7, <3>1
    <2>3. CASE Fill(f) \/ Rewrite(f) \/ Delete(f)
      <3>1. moved' \subseteq moved /\ UNCHANGED <<events, past>>
        BY <2>3 DEF Fill, Rewrite, Delete
      <3> QED
        BY <1>4, <1>7, <3>1
    <2> QED
      BY <2>1, <2>2, <2>3
  <1> QED
    BY <1>3, <1>8 DEF NotForgotten, Remembered

(* The scan at hand: its file goes on to be hashed, copied and run as the    *)
(* whole it is, or the scan fails and is counted; the others wait on.      *)
LEMMA ScanRemembers ==
    ASSUME FInv, Event \/ SetUp \/ NotSetUp \/ Hash \/ CopyToVolume \/ Run
    PROVE  MovedIsWhole' /\ NotForgotten'
  <1>1. /\ content \in [Files -> Contents] /\ events \in Seq(Files) /\ moved \subseteq Files
        /\ seen \in [Files -> SUBSET Contents] /\ missed \subseteq Files
        /\ volume \in [Contents -> Contents] /\ sum \in Contents
        /\ NoFile \notin Files /\ at \in [Actors -> Places] /\ watcher \in Actors
        /\ stage = "wait" => file = NoFile
    BY NamesAssumption, WatcherAssumption
       DEF FInv, TInv, FolderTyped, Staged, ImagesTyped, ImagesTypeOK
  <1>2. ~Dead /\ UNCHANGED folder
    BY DEF Event, SetUp, NotSetUp, Hash, CopyToVolume, Run, Fails, Ends, At
  <1>3. MovedIsWhole'
    BY <1>2 DEF FInv, MovedIsWhole, folder
  <1>4. SUFFICES ASSUME NEW g \in moved PROVE Remembered(g)'
    BY <1>2, <1>3 DEF NotForgotten, Remembered, folder
  <1>5. Remembered(g) /\ content[g] = "whole" /\ g \in Files
    BY <1>1 DEF FInv, NotForgotten, Remembered, MovedIsWhole
  <1> HIDE DEF FInv
  <1> QED
    <2>1. CASE Event
      <3>1. UNCHANGED <<sum, volume, past>> /\ events # <<>> /\ events' = Tail(events)
        BY <2>1 DEF Event
      <3>2. stage = "wait" /\ file # g
        BY <1>1, <1>5, <2>1 DEF Event, At
      <3>3. CASE ~\E k \in DOMAIN events : events[k] = g
        BY <1>2, <1>5, <3>1, <3>2, <3>3 DEF Remembered, OnItsWay, Spoiled, past
      <3>4. CASE g = Head(events)
        <4>1. stage' = "setup" /\ file' = g
          BY <1>5, <2>1, <3>4 DEF Event, At
        <4> QED
          BY <4>1 DEF Remembered, OnItsWay
      <3>5. ASSUME NEW k \in DOMAIN events, events[k] = g, g # Head(events)
            PROVE  Remembered(g)'
        <4>1. k \in 1 .. Len(events) /\ Len(events) \in Nat /\ k # 1
          BY <1>1, <3>1, <3>5, LenProperties, HeadTailProperties
        <4>2. k - 1 \in DOMAIN events' /\ events'[k - 1] = g
          BY <1>1, <3>1, <3>5, <4>1, HeadTailProperties, LenProperties
        <4> QED
          BY <4>2 DEF Remembered, OnItsWay
      <3> QED
        BY <3>3, <3>4, <3>5
    <2>2. CASE SetUp
      BY <1>1, <1>2, <1>5, <2>2 DEF SetUp, At, Remembered, OnItsWay, Spoiled, Dead
    <2>3. CASE NotSetUp
      BY <1>1, <1>2, <1>5, <2>3 DEF NotSetUp, Fails, Ends, At, Remembered, OnItsWay, Spoiled
    <2>4. CASE Hash
      BY <1>1, <1>2, <1>5, <2>4 DEF Hash, Fails, Ends, At, Remembered, OnItsWay, Spoiled, past
    <2>5. CASE CopyToVolume
      <3>1. At("copy", "store") /\ UNCHANGED <<events, file, sum, seen>>
        BY <2>5 DEF CopyToVolume
      <3>2. missed \subseteq missed' /\ (Spoiled => Spoiled')
        BY <1>1, <2>5 DEF CopyToVolume, Spoiled, Contents
      <3>3. CASE ~(OnItsWay(g) /\ file = g)
        BY <1>2, <1>5, <3>1, <3>2, <3>3 DEF Remembered, OnItsWay
      <3>4. CASE OnItsWay(g) /\ file = g /\ ~\E k \in DOMAIN events : events[k] = g
        <4>1. sum = "whole"
          BY <3>1, <3>4 DEF OnItsWay, At
        <4>2. \/ volume'["whole"] = "whole" \/ Spoiled' \/ Dead' \/ g \in missed'
          BY <1>1, <1>5, <2>5, <3>4, <4>1 DEF CopyToVolume, Spoiled, Dead, Contents
        <4> QED
          BY <3>1, <3>4, <4>1, <4>2 DEF Remembered, OnItsWay
      <3>5. CASE \E k \in DOMAIN events : events[k] = g
        BY <3>1, <3>5 DEF Remembered, OnItsWay
      <3> QED
        BY <3>3, <3>4, <3>5
    <2>6. CASE Run
      <3>1. At("store", "wait") /\ UNCHANGED <<events, volume>>
        BY <2>6 DEF Run, Fails, Ends
      <3>2. missed \subseteq missed' /\ seen[g] \subseteq seen'[g]
        BY <1>1, <1>5, <2>6 DEF Run, Fails, Ends
      <3>3. CASE file = g
        <4>1. "whole" \in seen'[g] \/ g \in missed' \/ sum # "whole" \/ volume["whole"] # "whole"
          BY <1>1, <1>5, <2>6, <3>3 DEF Run, Fails, Ends
        <4> QED
          BY <1>2, <1>5, <3>1, <3>2, <3>3, <4>1 DEF Remembered, OnItsWay, Spoiled, At
      <3>4. CASE file # g
        BY <1>2, <1>5, <3>1, <3>2, <3>4 DEF Remembered, OnItsWay, Spoiled
      <3> QED
        BY <3>3, <3>4
    <2> QED
      BY <2>1, <2>2, <2>3, <2>4, <2>5, <2>6

(* Every step keeps FInv.                                                  *)
LEMMA StepRemembers == FInv /\ [Next]_vars => FInv'
  <1> SUFFICES ASSUME FInv, [Next]_vars PROVE FInv'
    OBVIOUS
  <1>1. TInv'
    BY TypesNext DEF FInv
  <1>2. CASE UNCHANGED <<folder, events, scan, past>>
    <2>1. Dead => Dead'
      BY DeadStaysDead DEF FInv
    <2> QED
      BY <1>1, <1>2, <2>1 DEF FInv, MovedIsWhole, NotForgotten, OnItsWay, Spoiled,
                              folder, scan, past
  <1>3. CASE Event \/ SetUp \/ NotSetUp \/ Hash \/ CopyToVolume \/ Run
    BY <1>1, <1>3, ScanRemembers DEF FInv
  <1>4. CASE \E f \in Files : Create(f) \/ MoveIn(f) \/ Fill(f) \/ Rewrite(f) \/ Delete(f)
    BY <1>1, <1>4, FolderRemembers DEF FInv
  <1> QED
    BY <1>2, <1>3, <1>4 DEF Next, Scanning, vars

(* A file that is moved in and left alone is never dropped without a trace:  *)
(* however the scans, the queue and the writers of other files interleave,  *)
(* it waits, is being scanned at a point from which all of it will be seen, *)
(* was seen as a whole, or one of the four things that may come between is  *)
(* on record.  With a fair watcher this is why it is scanned.              *)
THEOREM NothingForgotten == Spec => []NotForgotten
  <1>1. FInv => NotForgotten
    BY DEF FInv
  <1> QED
    BY <1>1, NothingMovedYet, StepRemembers, PTL DEF Spec
=============================================================================
