---------------------------- MODULE SecretsStore ----------------------------
(***************************************************************************)
(* The engine credentials: the file-backed store of src/secrets/secrets.go, *)
(* the POST branch of handleSettings (src/api/server.go), which writes it,  *)
(* and getPluginEnv (src/plugins/plugins.go), which hands its values to the *)
(* engine containers.                                                      *)
(*                                                                         *)
(* Covered: every Set under the lock with each step of persistLocked and    *)
(* its failure, the loop over the payload in the random order of a Go map  *)
(* and its early returns, the two Gets of getPluginEnv, the death of the   *)
(* process between any two steps, and Init before and after it, which may   *)
(* fail after any number of lines and leaves what it has read in memory.   *)
(*                                                                         *)
(* Abstracted: a value is a member of a small set; an absent key and a key  *)
(* stored as `KEY=' are both the value "", which Get treats alike.  A read  *)
(* that fails within a line is taken to fail before it.                    *)
(***************************************************************************)
EXTENDS Integers, FiniteSets

CONSTANTS Posts,        \* the POST /api/settings requests
          Readers,      \* the engines that getPluginEnv serves
          Env,          \* Env[r]: the credential in the plugin's Env list
          Keys,         \* the names that occur in payloads and in the file
          settingsKeys, \* the allowlist
          Values,       \* the non-empty values that occur
          Rejected,     \* the values Set refuses: too long, control characters
          Trim,         \* what strings.TrimSpace of Init makes of a value
          Payloads,     \* the decoded bodies: functions from keys to values
          Environ,      \* the process environment
          Files,        \* the secrets file at the first start
          Prefixes,     \* the keys on its first lines, for each number of lines
          Faults,       \* the steps that may fail
          NoPost        \* the lock is free

ASSUME KeysAssumption == /\ Keys # {}
                         /\ settingsKeys \subseteq Keys
                         /\ Env \in [Readers -> Keys]
ASSUME ValuesAssumption ==
    /\ "" \notin Values
    /\ Rejected \subseteq Values
    /\ Trim \in [Values \cup {""} -> Values \cup {""}]
    /\ Trim[""] = ""
    /\ \A v \in Values : Trim[Trim[v]] = Trim[v]
ASSUME TablesAssumption ==
    /\ Environ \in [Keys -> Values \cup {""}]
    /\ Files \subseteq [Keys -> Values \cup {""}]
    /\ Payloads \subseteq UNION {[S -> Values \cup {""}] : S \in SUBSET Keys}
ASSUME PrefixesAssumption == Prefixes \subseteq SUBSET Keys
ASSUME NoPostAssumption == NoPost \notin Posts
ASSUME FaultsAssumption == Faults \subseteq {"load", "create", "write", "rename"}

VARIABLES
    up,         \* the server process is alive
    vals,       \* the in-memory map
    file,       \* the contents of the secrets file
    tmps,       \* the posts whose temporary file exists
    mu,         \* the post that holds the write lock, or NoPost
    pc,         \* pc[p]: where the handler of p is
    todo,       \* todo[p]: what is left of its payload
    cur,        \* cur[p]: the key it is setting
    answer,     \* answer[p]: 0, or the status answered
    rpc,        \* rpc[r]: where the reader r is
    handed,     \* handed[r]: the value it hands to the engine
    prev,       \* history: vals when the lock was taken, while it is held
    acked,      \* history: the value of each key when a Set of it last returned
                \*   nil, at first what the file says
    failed,     \* history: failed[k]: the values that Sets of k which returned
                \*   an error, or a start that did not read its line, have left
                \*   since then in memory, or through it in the file
    unsaved,    \* history: the keys of those Sets and starts since the last
                \*   time that the file was written or read
    cleared     \* history: cleared[r]: its credential was cleared since it asked

vars == <<up, vals, file, tmps, mu, pc, todo, cur, answer, rpc, handed,
          prev, acked, failed, unsaved, cleared>>
told    == <<acked, failed, unsaved>>
readers == <<rpc, handed, cleared>>

-----------------------------------------------------------------------------
PCs     == {"idle", "apply", "create", "write", "rename", "done", "lost"}
RPCs    == {"idle", "use", "handed", "done", "lost"}
Answers == {0, 200, 400, 401}
Tables  == [Keys -> Values \cup {""}]
Bodies  == UNION {[S -> Values \cup {""}] : S \in SUBSET Keys}
Empty   == [k \in Keys |-> ""]

(* Init: each line it reads is trimmed, which is where a value can change.  *)
Load(table, read) == [k \in Keys |-> IF k \in read THEN Trim[table[k]] ELSE ""]

(* The keys whose lines are read: all of them, or some of the first.       *)
Reads == IF "load" \in Faults THEN Prefixes \cup {Keys} ELSE {Keys}

(* Get: the stored value, or else the environment.                         *)
Get(k) == IF vals[k] # "" THEN vals[k] ELSE Environ[k]

Init == /\ up = TRUE
        /\ file \in Files
        /\ \E read \in Reads :
              /\ vals = Load(file, read)
              /\ failed = [k \in Keys |-> IF k \in read THEN {} ELSE {""}]
              /\ unsaved = Keys \ read
        /\ tmps = {}
        /\ mu = NoPost
        /\ pc = [p \in Posts |-> "idle"]
        /\ todo = [p \in Posts |-> [k \in {} |-> ""]]
        /\ cur = [p \in Posts |-> CHOOSE k \in Keys : TRUE]
        /\ answer = [p \in Posts |-> 0]
        /\ rpc = [r \in Readers |-> "idle"]
        /\ handed = [r \in Readers |-> ""]
        /\ prev = Empty
        /\ acked = file
        /\ cleared = [r \in Readers |-> FALSE]

Goto(p, from, to) == /\ up
                     /\ pc[p] = from
                     /\ pc' = [pc EXCEPT ![p] = to]

Reply(p, code) == answer' = [answer EXCEPT ![p] = code]

Unlock == mu' = NoPost /\ prev' = Empty

(* Set returns nil: what its caller is told is about its own key, although  *)
(* the file has been written with every value of the map.                  *)
Acknowledge(p) ==
    /\ acked' = [acked EXCEPT ![cur[p]] = vals[cur[p]]]
    /\ failed' = [failed EXCEPT ![cur[p]] = {}]
    /\ unsaved' = {}

(* Set returns an error, and leaves its value in the map.                  *)
Disown(p) ==
    /\ failed' = [failed EXCEPT ![cur[p]] = @ \cup {vals[cur[p]]}]
    /\ unsaved' = unsaved \cup {cur[p]}
    /\ UNCHANGED acked

(* A Get of the engine r: under the read lock, so not while a Set is at work. *)
ReaderStep(r, from) == up /\ mu = NoPost /\ rpc[r] = from

(* A failed persistLocked that does not unlock: a slip, no part of Next.    *)
PersistKeepsLock(p, from, fault, left) ==
    /\ Goto(p, from, "done")
    /\ fault \in Faults
    /\ tmps' = left
    /\ Reply(p, 400)
    /\ Disown(p)
    /\ UNCHANGED <<up, vals, file, mu, todo, cur, readers, prev>>

(* persistLocked fails in the step from: Set unlocks and returns the error, *)
(* the handler answers 400, and the map keeps the value.                   *)
PersistFails(p, from, fault, left) ==
    /\ Goto(p, from, "done")
    /\ fault \in Faults
    /\ tmps' = left
    /\ Unlock
    /\ Reply(p, 400)
    /\ Disown(p)
    /\ UNCHANGED <<up, vals, file, todo, cur, readers>>

-----------------------------------------------------------------------------
(* Slips that the properties below must notice; each takes the place of    *)
(* the definition it is named after and is no part of Next.                *)

(* The lock released before the file is renamed.                           *)
UnlockEarly(p) ==
    /\ Goto(p, "write", "rename")
    /\ Unlock
    /\ UNCHANGED <<up, vals, file, tmps, todo, cur, answer, readers, told>>

(* The second Get not guarded by the first.                                *)
AskNothing(r) == /\ ReaderStep(r, "idle")
                 /\ rpc' = [rpc EXCEPT ![r] = "use"]
                 /\ cleared' = [cleared EXCEPT ![r] = FALSE]
                 /\ UNCHANGED <<up, vals, file, tmps, mu, pc, todo, cur, answer, handed,
                                prev, told>>

(* The file written with the one key that was set.                         *)
RenameOneKey(p) ==
    /\ Goto(p, "rename", "apply")
    /\ file' = [Empty EXCEPT ![cur[p]] = vals[cur[p]]]
    /\ tmps' = tmps \ {p}
    /\ Unlock
    /\ Acknowledge(p)
    /\ UNCHANGED <<up, vals, todo, cur, answer, readers>>

(* The secrets file itself opened for writing, instead of a temporary one. *)
CreateTruncates(p) ==
    /\ Goto(p, "create", "write")
    /\ file' = Empty
    /\ tmps' = tmps \cup {p}
    /\ UNCHANGED <<up, vals, mu, todo, cur, answer, readers, prev, told>>

(* A fresh map with the one key that is set.                               *)
SetReplacesMap(p, k) ==
    /\ Goto(p, "apply", "create")
    /\ k \in settingsKeys /\ mu = NoPost
    /\ mu' = p
    /\ vals' = [j \in {k} |-> todo[p][k]]
    /\ UNCHANGED <<up, file, tmps, todo, cur, answer, readers, prev, told>>

-----------------------------------------------------------------------------
(* handleSettings: the admin token, then the JSON body.                    *)
Refuse(p) == /\ Goto(p, "idle", "done")
             /\ Reply(p, 401) \/ Reply(p, 400)
             /\ UNCHANGED <<up, vals, file, tmps, mu, todo, cur, readers, prev, told>>

Accept(p, payload) ==
    /\ Goto(p, "idle", "apply")
    /\ todo' = [todo EXCEPT ![p] = payload]
    /\ UNCHANGED <<up, vals, file, tmps, mu, cur, answer, readers, prev, told>>

(* The loop meets a key that is not on the list, or a value that Set        *)
(* refuses: 400, and the keys it has met before stay set.                  *)
Stop(p, k) == /\ Goto(p, "apply", "done")
              /\ k \notin settingsKeys \/ todo[p][k] \in Rejected
              /\ Reply(p, 400)
              /\ UNCHANGED <<up, vals, file, tmps, mu, todo, cur, readers, prev, told>>

(* Set: the lock is taken and the map is changed.                          *)
SetInMemory(p, k) ==
    /\ Goto(p, "apply", "create")
    /\ k \in settingsKeys /\ todo[p][k] \notin Rejected
    /\ mu = NoPost
    /\ mu' = p
    /\ vals' = [vals EXCEPT ![k] = todo[p][k]]
    /\ prev' = vals
    /\ cur' = [cur EXCEPT ![p] = k]
    /\ todo' = [todo EXCEPT ![p] = [j \in DOMAIN todo[p] \ {k} |-> todo[p][j]]]
    /\ cleared' = [r \in Readers |-> cleared[r] \/ (Env[r] = k /\ vals'[k] = "")]
    /\ UNCHANGED <<up, file, tmps, answer, rpc, handed, told>>

(* os.MkdirAll and os.CreateTemp.                                          *)
CreateTemp(p) ==
    \/ /\ Goto(p, "create", "write")
       /\ tmps' = tmps \cup {p}
       /\ UNCHANGED <<up, vals, file, mu, todo, cur, answer, readers, prev, told>>
    \/ PersistFails(p, "create", "create", tmps)

(* WriteString, Chmod and Close: an error removes the temporary file.      *)
WriteTemp(p) ==
    \/ /\ Goto(p, "write", "rename")
       /\ UNCHANGED <<up, vals, file, tmps, mu, todo, cur, answer, readers, prev, told>>
    \/ PersistFails(p, "write", "write", tmps \ {p})

(* os.Rename puts the new table in place and Set returns to the loop; an    *)
(* error leaves the temporary file behind.                                 *)
Rename(p) ==
    \/ /\ Goto(p, "rename", "apply")
       /\ file' = vals
       /\ tmps' = tmps \ {p}
       /\ Unlock
       /\ Acknowledge(p)
       /\ UNCHANGED <<up, vals, todo, cur, answer, readers>>
    \/ PersistFails(p, "rename", "rename", tmps)

(* The loop has met every key.                                             *)
Finish(p) == /\ Goto(p, "apply", "done")
             /\ DOMAIN todo[p] = {}
             /\ Reply(p, 200)
             /\ UNCHANGED <<up, vals, file, tmps, mu, todo, cur, readers, prev, told>>

HandlerStep(p) == \/ \E k \in DOMAIN todo[p] : Stop(p, k) \/ SetInMemory(p, k)
                  \/ CreateTemp(p) \/ WriteTemp(p) \/ Rename(p) \/ Finish(p)

-----------------------------------------------------------------------------
(* getPluginEnv asks secrets.Get twice: whether there is a value ...         *)
Ask(r) == /\ ReaderStep(r, "idle")
          /\ rpc' = [rpc EXCEPT ![r] = IF Get(Env[r]) # "" THEN "use" ELSE "done"]
          /\ cleared' = [cleared EXCEPT ![r] = FALSE]
          /\ UNCHANGED <<up, vals, file, tmps, mu, pc, todo, cur, answer, handed,
                         prev, told>>

(* ... and which one it is.                                                *)
Hand(r) == /\ ReaderStep(r, "use")
           /\ rpc' = [rpc EXCEPT ![r] = "handed"]
           /\ handed' = [handed EXCEPT ![r] = Get(Env[r])]
           /\ UNCHANGED <<up, vals, file, tmps, mu, pc, todo, cur, answer, cleared,
                          prev, told>>

-----------------------------------------------------------------------------
(* The process dies, with its memory.                                      *)
Crash == /\ up
         /\ up' = FALSE
         /\ vals' = Empty
         /\ Unlock
         /\ pc' = [p \in Posts |-> IF pc[p] \in {"idle", "done"} THEN pc[p] ELSE "lost"]
         /\ rpc' = [r \in Readers |-> IF rpc[r] = "use" THEN "lost" ELSE rpc[r]]
         /\ failed' = [k \in Keys |-> {f \in failed[k] : Trim[f] = Trim[file[k]]}]
         /\ UNCHANGED <<file, tmps, todo, cur, answer, handed, cleared, acked, unsaved>>

(* A started one runs secrets.Init, whose error api.Init only logs: the     *)
(* server then goes on with the lines that were read.                      *)
Restart == /\ ~up
           /\ up' = TRUE
           /\ \E read \in Reads :
                 /\ vals' = Load(file, read)
                 /\ failed' = [k \in Keys |-> IF k \in read THEN failed[k]
                                               ELSE failed[k] \cup {""}]
                 /\ unsaved' = Keys \ read
           /\ UNCHANGED <<file, tmps, mu, pc, todo, cur, answer, readers, prev, acked>>

Next == \/ \E p \in Posts : \/ Refuse(p)
                            \/ \E payload \in Payloads : Accept(p, payload)
                            \/ HandlerStep(p)
        \/ \E r \in Readers : Ask(r) \/ Hand(r)
        \/ Crash
        \/ Restart

Spec == Init /\ [][Next]_vars

(* A handler that can go on does: file operations return, and the lock is  *)
(* free again after them.  Clients and crashes are not fair.               *)
FairSpec == /\ Spec
            /\ \A p \in Posts : WF_vars(HandlerStep(p))

-----------------------------------------------------------------------------
(* The types of the variables.                                             *)
TypeOK == /\ up \in BOOLEAN
          /\ vals \in Tables
          /\ file \in Tables
          /\ tmps \subseteq Posts
          /\ mu \in Posts \cup {NoPost}
          /\ pc \in [Posts -> PCs]
          /\ todo \in [Posts -> Bodies]
          /\ cur \in [Posts -> Keys]
          /\ answer \in [Posts -> Answers]
          /\ rpc \in [Readers -> RPCs]
          /\ handed \in [Readers -> Values \cup {""}]
          /\ cleared \in [Readers -> BOOLEAN]
          /\ prev \in Tables
          /\ acked \in Tables
          /\ failed \in [Keys -> SUBSET (Values \cup {""})]
          /\ unsaved \subseteq Keys

(* Whenever no Set is at work, memory is the file in every key whose last   *)
(* Set did not fail and whose line was read at the start, up to the         *)
(* trimming of the lines: through concurrent posts, errors, deaths and     *)
(* restarts.                                                               *)
MirrorsUnlessUnsaved ==
    up /\ mu = NoPost
        => \A k \in Keys \ unsaved : vals[k] \in {file[k], Trim[file[k]]}

(* The file holds, for every key, the value of the last Set of it that      *)
(* returned nil, whichever Set fails and wherever the process dies; or the  *)
(* value that a later Set of the same key left in memory when it returned   *)
(* an error, which the next successful Set of any key writes out (the      *)
(* client had been answered 400); or nothing, if a later start failed       *)
(* before the line of the key.                                             *)
Told(k, v) == Trim[v] = Trim[acked[k]] \/ \E f \in failed[k] : Trim[v] = Trim[f]
DiskHoldsAcked == \A k \in Keys : Told(k, file[k])

(* An engine is handed an empty credential only when the credential was     *)
(* cleared between the two Gets of getPluginEnv.                           *)
EmptyOnlyIfCleared ==
    \A r \in Readers : rpc[r] = "handed" /\ handed[r] = "" => cleared[r]

(* SecretsStore implements CredentialStore: a Set takes effect as a whole   *)
(* when it renames the file, or on memory alone when it fails.             *)
Store == INSTANCE CredentialStore WITH
           mem  <- IF mu = NoPost THEN vals ELSE prev,
           disk <- file
ImplementsCredentialStore == Store!Spec

(* Every accepted POST is answered, unless the process dies.               *)
PostAnswered == \A p \in Posts : pc[p] = "apply" ~> pc[p] \in {"done", "lost"}
=============================================================================
