---------------------------- MODULE PluginImages ----------------------------
(***************************************************************************)
(* The images of the docker host and the commands that fetch them:          *)
(* InstalledPluginsCheck, UpdateEnabledPlugins, UpdateAllPlugins and the    *)
(* two updates of one plugin (src/plugins/plugins.go), Exists, Pull and     *)
(* Build (src/malice/docker/client/image/image.go), cmdUpdatePlugin         *)
(* (src/commands/plugin.go), cmdLookUp (src/commands/lookup.go), the start  *)
(* of an interactive scan (src/commands/scan.go) and the check before a     *)
(* container is created (src/malice/docker/client/container/utils.go).      *)
(*                                                                         *)
(* Every look at the list of images and every fetch is a step of its own;   *)
(* people build and remove images in between.  An image stands for the      *)
(* plugin, of the same name in plugins.toml.  Left to other modules: the    *)
(* database (DatabaseStart) and what a container does (EngineFanout).       *)
(* External: the docker host, its registry, the user at the prompt.         *)
(***************************************************************************)
EXTENDS Naturals, Sequences

CONSTANTS Actors,       \* the processes
          Commands,     \* the commands they run: records of `do' and `image'
          Plugins,      \* the images of the enabled plugins, in their order
          Others,       \* those of the plugins that are not enabled
          Helpers,      \* busybox and the image of the database
          Built,        \* the plugins with `build = true'
          Matches,      \* Matches[i]: the images whose tag the name i matches
          FirstImages,  \* which images are there at first, all of them built here
          Faults,       \* the calls that may fail
          MaxEvents     \* a bound: how many of them do, and how often anybody
                        \* else begins a command or removes something

NoPlugin == ""
Listed   == Plugins \o Others
Images   == {(Helpers \o Listed)[k] : k \in 1 .. Len(Helpers \o Listed)}

ASSUME ImagesAssumption == /\ NoPlugin \notin Images
                           /\ {Helpers, Plugins, Others} \subseteq Seq(Images)
                           /\ Built \subseteq Images
                           /\ Matches \in [Images -> SUBSET Images]
                           /\ \A i \in Images : i \in Matches[i]
ASSUME CommandsAssumption ==
    Commands \subseteq [do : {"lookup", "updateAll", "update", "rebuild", "start"},
                        image : Images \cup {NoPlugin}]
ASSUME FaultsAssumption ==
    /\ Faults \subseteq {"docker", "database", "list", "pull", "stream", "clone", "build",
                         "store", "mime", "copy"}
    /\ MaxEvents \in Nat

VARIABLES
    image,      \* image[i]: what the tag of i names on the docker host
    cmd,        \* cmd[a]: the command a runs
    at,         \* at[a]: where it is
    job,        \* job[a]: the images an update has still to look at
    happened,   \* how often something came in between
    had,        \* history, had[a]: images built here, there since a's update began
    misled      \* history: the processes whose list of images failed

docker == <<image, cmd, at, job, had, misled>>
images == <<docker, happened>>

-----------------------------------------------------------------------------
Origins == {"none", "registry", "repository", "directory", "local"}
Places  == {"idle", "connect", "installed", "prompt", "update", "fetch", "ready", "done", "dead"}
Jobs    == [image : Images \cup {NoPlugin}, check : BOOLEAN, build : BOOLEAN]

(* What an update goes through: the helpers are pulled, a plugin is pulled  *)
(* or built from its repository, with or without a look at the list first. *)
Helping(check) ==
    [k \in 1 .. Len(Helpers) |-> [image |-> Helpers[k], check |-> check, build |-> FALSE]]
Plugging(ps, check) ==
    [k \in 1 .. Len(ps) |-> [image |-> ps[k], check |-> check, build |-> ps[k] \in Built]]
UpdateEnabledPlugins == Helping(TRUE) \o Plugging(Plugins, TRUE)
UpdateAllPlugins     == Helping(FALSE) \o Plugging(Listed, FALSE)

Exists(i) == \E j \in Matches[i] : image[j] # "none"
Here      == {i \in Images : image[i] = "local"}

InitImages == /\ image \in [Images -> {"none", "local"}] /\ Here \in FirstImages
              /\ cmd = [a \in Actors |-> "none"]
              /\ at = [a \in Actors |-> "idle"]
              /\ job = [a \in Actors |-> <<>>]
              /\ happened = 0
              /\ had = [a \in Actors |-> {}]
              /\ misled = {}

Happens     == happened < MaxEvents /\ happened' = happened + 1
Fault(call) == call \in Faults /\ Happens

Goto(a, from, to) == /\ at[a] = from
                     /\ at' = [at EXCEPT ![a] = to]
Begins(a, jobs) == /\ job' = [job EXCEPT ![a] = jobs]
                   /\ had' = [had EXCEPT ![a] = IF jobs = <<>> THEN {} ELSE Here]

(* A command ends with its process, but a scan of the watched folder.       *)
Over(a) == IF cmd[a] = "scan" THEN "idle" ELSE "done"
Forgets(a) == /\ job' = [job EXCEPT ![a] = <<>>]
              /\ had' = [had EXCEPT ![a] = {}]
              /\ misled' = misled \ {a}

-----------------------------------------------------------------------------
(* A command begins.  `plugin update' looks for the docker client first, as *)
(* a scan and a lookup do; a container that is about to be created has one. *)
JobOf(c) ==
    CASE c.do = "updateAll" -> UpdateEnabledPlugins
      [] c.do = "update"    -> <<[image |-> c.image, check |-> FALSE, build |-> FALSE]>>
      [] c.do = "rebuild"   -> <<[image |-> c.image, check |-> FALSE, build |-> TRUE]>>
      [] c.do = "start"     -> <<[image |-> c.image, check |-> TRUE, build |-> FALSE]>>
      [] OTHER              -> <<>>

Command(a, c) ==
    /\ Happens
    /\ cmd' = [cmd EXCEPT ![a] = c.do]
    /\ Begins(a, JobOf(c))
    /\ Goto(a, "idle", IF c.do = "start" THEN "update" ELSE "connect")
    /\ UNCHANGED <<image, misled>>

(* NewDockerClient exits when no daemon answers.  Of a scan and of a lookup *)
(* the database is started next; an error of that ends the command.        *)
Connect(a) ==
    /\ \/ Goto(a, "connect", IF job[a] # <<>> THEN "update" ELSE "installed") /\ UNCHANGED happened
       \/ Goto(a, "connect", "dead") /\ Fault("docker")
       \/ Goto(a, "connect", Over(a)) /\ cmd[a] \in {"scan", "lookup"} /\ Fault("database")
    /\ UNCHANGED <<image, cmd, job, had, misled>>

(* InstalledPluginsCheck: the enabled plugins, not the helpers.  A list that *)
(* fails counts as an image that is missing.                               *)
InstalledPluginsCheck(a) ==
    LET installed == \A k \in 1 .. Len(Plugins) : Exists(Plugins[k])
    IN /\ \/ Goto(a, "installed", "ready") /\ installed /\ UNCHANGED happened
          \/ Goto(a, "installed", "prompt") /\ ~installed /\ UNCHANGED happened
          \/ Goto(a, "installed", "prompt") /\ Fault("list")
       /\ UNCHANGED <<image, cmd, job, had, misled>>

(* AskForConfirmation: yes, no, or the end of the input, which is fatal.    *)
Yes(a) == /\ Goto(a, "prompt", "update")
          /\ Begins(a, IF cmd[a] = "lookup" THEN UpdateAllPlugins ELSE UpdateEnabledPlugins)
          /\ UNCHANGED <<image, cmd, happened, misled>>
No(a)  == /\ Goto(a, "prompt", "ready") \/ Goto(a, "prompt", "dead")
          /\ UNCHANGED <<image, cmd, job, happened, had, misled>>

-----------------------------------------------------------------------------
(* The loop of an update.  Mutant: without the check of what is there.     *)
LookBlindly(a) == /\ job[a] # <<>>
                  /\ Goto(a, "update", "fetch")
                  /\ UNCHANGED <<image, cmd, job, happened, had, misled>>

Look(a) ==
    /\ job[a] # <<>>
    /\ LET i == Head(job[a]).image
           check == Head(job[a]).check
       IN \/ /\ check /\ Exists(i)
             /\ at[a] = "update"
             /\ job' = [job EXCEPT ![a] = Tail(@)]
             /\ UNCHANGED <<at, happened, misled>>
          \/ /\ check => ~Exists(i)
             /\ Goto(a, "update", "fetch")
             /\ UNCHANGED <<job, happened, misled>>
          \/ /\ check /\ Fault("list")
             /\ Goto(a, "update", "fetch")
             /\ misled' = misled \cup {a}
             /\ UNCHANGED job
    /\ UNCHANGED <<image, cmd, had>>

(* Pull and Build end with the image, with an error inside the stream that  *)
(* nobody looks at, or with a call that fails: then the body to close is    *)
(* nil, and the process panics.  A repository that cannot be cloned leaves  *)
(* the context at the working directory: its Dockerfile is built and tagged *)
(* in the plugin's name, or there is none to build.                        *)
Fetches(a, origin) ==
    LET i == Head(job[a]).image
    IN /\ Goto(a, "fetch", "update")
       /\ i \in Images
       /\ image' = [image EXCEPT ![i] = origin]
       /\ job' = [job EXCEPT ![a] = Tail(@)]
       /\ UNCHANGED <<had, misled>>

Panics(a) == Goto(a, "fetch", "dead") /\ Forgets(a) /\ UNCHANGED image

Pull(a) == /\ job[a] # <<>> /\ ~Head(job[a]).build
           /\ \/ Fetches(a, "registry") /\ UNCHANGED happened
              \/ Fetches(a, image[Head(job[a]).image]) /\ Fault("stream")
              \/ Panics(a) /\ Fault("pull")
              \/ Panics(a) /\ Head(job[a]).image = NoPlugin /\ UNCHANGED happened
           /\ UNCHANGED <<cmd>>

Build(a) == /\ job[a] # <<>> /\ Head(job[a]).build
            /\ \/ Fetches(a, "repository") /\ UNCHANGED happened
               \/ Fetches(a, "directory") /\ Fault("clone")
               \/ Fetches(a, image[Head(job[a]).image]) /\ Fault("stream")
               \/ Panics(a) /\ (Fault("clone") \/ Fault("build"))
               \/ Panics(a) /\ Head(job[a]).image = NoPlugin /\ UNCHANGED happened
            /\ UNCHANGED <<cmd>>

Updated(a) == /\ job[a] = <<>>
              /\ Goto(a, "update", IF cmd[a] \in {"scan", "lookup"} THEN "ready" ELSE "done")
              /\ Forgets(a)
              /\ UNCHANGED <<image, cmd, happened>>

(* The rest of a lookup: StoreHash, whose error ends it, and the intel       *)
(* engines.                                                                *)
LookUp(a) == /\ cmd[a] = "lookup"
             /\ Goto(a, "ready", "done")
             /\ happened' = happened \/ Fault("store")
             /\ UNCHANGED <<image, cmd, job, had, misled>>

-----------------------------------------------------------------------------
(* People build an image, `directory' and `local' alike, or remove one.    *)
BuildLocally(i) == /\ Happens
                   /\ image' = [image EXCEPT ![i] = "local"]
                   /\ UNCHANGED <<cmd, at, job, had, misled>>
RemoveImage(i)  == /\ image[i] # "none"
                   /\ Happens
                   /\ image' = [image EXCEPT ![i] = "none"]
                   /\ had' = [a \in Actors |-> had[a] \ {i}]
                   /\ UNCHANGED <<cmd, at, job, misled>>

Step(a) == \/ Connect(a) \/ InstalledPluginsCheck(a) \/ Look(a) \/ Pull(a) \/ Build(a)
           \/ Updated(a) \/ LookUp(a)
Answer(a) == Yes(a) \/ No(a)

-----------------------------------------------------------------------------
(* The types of the variables.                                             *)
ImagesTypeOK == /\ image \in [Images -> Origins]
                /\ cmd \in [Actors -> {"none", "scan"} \cup {c.do : c \in Commands}]
                /\ at \in [Actors -> Places]
                /\ \A a \in Actors : \A k \in DOMAIN job[a] : job[a][k] \in Jobs
                /\ happened \in 0 .. MaxEvents
                /\ had \in [Actors -> SUBSET Images]
                /\ misled \subseteq Actors

(* `Re-pulling installed images would clobber locally rebuilt ones with      *)
(* whatever is on the remote registry' (plugins.go:245-247): what people     *)
(* had built and left there before an update began is what the tag names     *)
(* until they remove it, unless an update that does not look (`plugin       *)
(* update NAME', the one of a lookup) or one whose list failed replaces it. *)
KeepsLocal ==
    [][\A i \in Images, a \in Actors :
          /\ image[i] = "local" /\ image'[i] \notin {"local", "none"}
          /\ at[a] = "fetch" /\ at'[a] # "fetch"
          => ~Head(job[a]).check \/ i \notin had[a] \/ a \in misled]_images
=============================================================================
