----------------------------- MODULE ConfigFiles -----------------------------
(***************************************************************************)
(* The configuration files of ~/.malice and the commands that read and      *)
(* write them without a lock: main.init (src/main.go), which loads          *)
(* config.toml twice and plugins.toml once in every process (Load and       *)
(* UpdateConfig, src/config/load.go; Load, src/plugins/load.go), then       *)
(* `plugin install', `plugin remove' (InstallPlugin and DeletePlugin,       *)
(* src/plugins/plugins.go) or `serve', which loads plugins.toml once more. *)
(*                                                                         *)
(* Covered: processes that start at any time beside each other and may die *)
(* at any point; ioutil.WriteFile as the two steps it is, truncate and      *)
(* write; the question whether to update config.toml, while which others   *)
(* go on; files that are missing, cut short or not TOML.                   *)
(*                                                                         *)
(* Abstracted: config.toml is whose settings it has, on which it depends    *)
(* whether its version has that of the binary, the same for all processes; *)
(* a plugin is its name and its env, the only field in which a leftover     *)
(* shows.  Errors of the file system other than these are only logged by   *)
(* the code, and left out.                                                 *)
(* External: the TOML decoder, which reuses the elements of a slice that    *)
(* is long enough and leaves a field alone that the text does not mention. *)
(***************************************************************************)
EXTENDS Sequences, Naturals

CONSTANTS Procs,        \* the processes
          Commands,     \* the commands they may be started with
          Fold,         \* Fold[n]: the name n in one case
          Embedded,     \* the plugins that are compiled in
          Outdated,     \* the settings without the version of the binary
          FirstConfigs, FirstTables,    \* the files there may be at first
          Absent,       \* no plugins.toml,
          Garbled       \* and one that is not TOML

NoEnv == "none"
Configs == {"absent", "empty", "user", "shipped", "garbled"}
Plugin  == [name : DOMAIN Fold, env : {NoEnv} \cup DOMAIN Fold]

ASSUME CommandsAssumption ==
    Commands \subseteq [do : {"install", "remove", "serve"}, name : DOMAIN Fold]
(* No settings have no version; the embedded ones may have another one than *)
(* the binary, as each is written into the build by itself, and no version *)
(* is looked at when the binary is a "dev" one.                            *)
ASSUME OutdatedAssumption == Outdated \subseteq {"empty", "user", "shipped"}
ASSUME FilesAssumption ==
    /\ FirstConfigs \subseteq Configs
    /\ Embedded \in FirstTables \ {Absent, Garbled}
    /\ FirstTables \subseteq {Absent, Garbled} \cup Seq(Plugin)
    /\ Absent # Garbled /\ Absent \notin Seq(Plugin) /\ Garbled \notin Seq(Plugin)
(* At first every plugin is given its own credential, or none.             *)
Home(e) == e.env \in {NoEnv, e.name}
ASSUME CredentialsAssumption ==
    \A t \in FirstTables \ {Absent, Garbled} : \A i \in DOMAIN t : Home(t[i])

VARIABLES
    config,     \* whose settings config.toml has
    backup,     \* and config.toml.backup
    table,      \* plugins.toml: a sequence of plugins, Absent or Garbled
    pc,         \* pc[p]: where process p is
    cmd,        \* cmd[p]: its command
    round,      \* round[p]: how often it has loaded config.toml
    conf,       \* conf[p]: its config.Conf
    plugs,      \* plugs[p]: its plugins.Plugs
    log,        \* history: the commands that were carried out, in order
    muddled,    \* history: a rewrite of plugins.toml was cut off or overlapped,
                \*   or it was not the embedded one at first
    shifted,    \* history: the servers whose two loads had a rewrite between
    overrun     \* history: an update has renamed a config.toml that had been
                \*   replaced already, or there was none of the user at first

files   == <<config, backup, table>>
loaded  == <<round, conf, plugs>>
history == <<log, muddled, shifted, overrun>>
vars    == <<files, pc, cmd, loaded, history>>

-----------------------------------------------------------------------------
Init == /\ config \in FirstConfigs
        /\ backup = "absent"
        /\ table \in FirstTables
        /\ pc = [p \in Procs |-> "stat"]
        /\ cmd \in [Procs -> Commands]
        /\ round = [p \in Procs |-> 1]
        /\ conf = [p \in Procs |-> "empty"]
        /\ plugs = [p \in Procs |-> <<>>]
        /\ log = <<>>
        /\ muddled = (table \notin {Absent, Embedded})
        /\ shifted = {}
        /\ overrun = (config # "user")

Goto(p, from, to) == /\ pc[p] = from
                     /\ pc' = [pc EXCEPT ![p] = to]

(* main.init after a load of config.toml: logger.Init has made the first.  *)
AfterConfig(p) == IF round[p] = 1 THEN "stat" ELSE "pstat"

-----------------------------------------------------------------------------
(* config.Load: what os.Stat says.                                         *)
Load(p) == /\ Goto(p, "stat", IF config = "absent" THEN "trunc" ELSE "decode")
           /\ UNCHANGED <<files, cmd, loaded, history>>

(* The decoder leaves config.Conf as it is when the file is empty.         *)
Decoded(p) == IF config = "empty" THEN conf[p] ELSE config

(* The version of config.Conf is not that of the binary: the user is asked  *)
(* whether to update, if the standard input is a character device.         *)
CheckVersion(p, from) ==
    \/ /\ conf'[p] \in Outdated
       /\ Goto(p, from, "prompt")
       /\ UNCHANGED round
    \/ /\ Goto(p, from, AfterConfig(p))
       /\ round' = [round EXCEPT ![p] = 2]

(* LoadFromToml: a file that is gone again or not TOML is replaced by the   *)
(* embedded one, before the version is checked.                            *)
LoadFromToml(p) ==
    /\ IF config \in {"absent", "garbled"}
         THEN Goto(p, "decode", "retrunc") /\ UNCHANGED <<round, conf>>
         ELSE /\ conf' = [conf EXCEPT ![p] = Decoded(p)]
              /\ CheckVersion(p, "decode")
    /\ UNCHANGED <<files, cmd, plugs, history>>

(* AskForConfirmation: yes, no, or log.Fatal at the end of the input (Die). *)
AskForConfirmation(p) ==
    /\ \/ Goto(p, "prompt", "rename") /\ UNCHANGED round
       \/ Goto(p, "prompt", AfterConfig(p)) /\ round' = [round EXCEPT ![p] = 2]
    /\ UNCHANGED <<files, cmd, conf, plugs, history>>

(* Mutant: the old file is not kept.                                        *)
UpdateNoBackup(p) == /\ Goto(p, "rename", "trunc")
                     /\ UNCHANGED <<files, cmd, loaded, history>>

(* UpdateConfig, first step: whatever config.toml is by now takes the place *)
(* of the backup; a failed rename is only logged.                          *)
UpdateConfig(p) == /\ Goto(p, "rename", "trunc")
                   /\ IF config = "absent" THEN UNCHANGED <<config, backup>>
                      ELSE backup' = config /\ config' = "absent"
                   /\ overrun' = (overrun \/ config \in {"shipped", "empty"})
                   /\ UNCHANGED <<table, cmd, loaded, log, muddled, shifted>>

(* WriteFile of the embedded settings: by UpdateConfig and by Load's call   *)
(* of loadFromBinary, or by LoadFromToml's.                                *)
Truncate(p) == /\ \/ Goto(p, "trunc", "write")
                  \/ Goto(p, "retrunc", "rewrite")
               /\ config' = "empty"
               /\ UNCHANGED <<backup, table, cmd, loaded, history>>

loadFromBinary(p) == /\ conf' = [conf EXCEPT ![p] = "shipped"]
                     /\ \/ /\ Goto(p, "write", AfterConfig(p))
                           /\ round' = [round EXCEPT ![p] = 2]
                        \/ CheckVersion(p, "rewrite")
                     /\ config' = "shipped"
                     /\ UNCHANGED <<backup, table, cmd, plugs, history>>

-----------------------------------------------------------------------------
Command(p) == IF cmd[p].do = "serve" THEN "pstat2" ELSE cmd[p].do

(* plugins.Load: what os.Stat says.                                        *)
StatTable(p) == /\ \/ Goto(p, "pstat", IF table = Absent THEN "ptrunc" ELSE "pread")
                   \/ /\ table # Absent
                      /\ Goto(p, "pstat2", "pread2")
                /\ UNCHANGED <<files, cmd, loaded, history>>

(* The decoder: elements that are there already keep the env that the      *)
(* text does not give, unless the slice is too short and made anew.        *)
Merge(old, new) ==
    [i \in DOMAIN new |->
        IF new[i].env = NoEnv /\ Len(new) <= Len(old)
          THEN [new[i] EXCEPT !.env = old[i].env] ELSE new[i]]

(* Nothing is decoded from what is not TOML, or from an empty file.        *)
DecodeFile(p) == IF table \in {Absent, Garbled, <<>>} THEN plugs[p]
                 ELSE Merge(plugs[p], table)

(* Mutant: a failed decode not kept from the table.                         *)
LoadRaw(p) == /\ Goto(p, "pread", Command(p))
              /\ plugs' = [plugs EXCEPT ![p] = table]
              /\ UNCHANGED <<files, cmd, round, conf, history>>

LoadTable(p) == /\ \/ Goto(p, "pread", Command(p))
                   \/ Goto(p, "pread2", "serving")
                /\ plugs' = [plugs EXCEPT ![p] = DecodeFile(p)]
                /\ UNCHANGED <<files, cmd, round, conf, history>>

(* Who is about to write over plugins.toml what it made of it earlier.     *)
Rewriting(q) == pc[q] \in {"ptrunc", "pwrite", "remove", "rwrite"}
Muddle(p) == muddled' = (muddled \/ \E q \in Procs \ {p} : Rewriting(q))
Shift == shifted' = shifted \cup {q \in Procs : pc[q] \in {"pstat2", "pread2"}}

(* The tail of a longer text stays behind a shorter one that is written     *)
(* over it; where the one ends, the other need not go on with an entry.    *)
Over(new, old) == IF old \in {Absent, Garbled} THEN {new}
                  ELSE IF Len(old) <= Len(new) THEN {new}
                  ELSE {Garbled, new \o SubSeq(old, Len(new) + 1, Len(old))}

(* WriteFile of the embedded plugins, or of what is left after a removal.   *)
TruncateTable(p) == /\ \/ Goto(p, "ptrunc", "pwrite")
                       \/ Goto(p, "remove", "rwrite")
                    /\ table' = <<>>
                    /\ Muddle(p)
                    /\ Shift
                    /\ UNCHANGED <<config, backup, cmd, loaded, log, overrun>>

WriteEmbedded(p) == /\ Goto(p, "pwrite", Command(p))
                    /\ table' \in Over(Embedded, table)
                    /\ plugs' = [plugs EXCEPT ![p] = Merge(@, Embedded)]
                    /\ Muddle(p)
                    /\ Shift
                    /\ UNCHANGED <<config, backup, cmd, round, conf, log, overrun>>

(* Mutant: the file is opened without O_APPEND.                             *)
InstallOver(p) == /\ Goto(p, "install", "done")
                  /\ table \notin {Absent, Garbled}
                  /\ table' = <<[name |-> cmd[p].name, env |-> NoEnv]>> \o
                                (IF table = <<>> THEN <<>> ELSE Tail(table))
                  /\ log' = Append(log, cmd[p])
                  /\ Muddle(p)
                  /\ UNCHANGED <<config, backup, cmd, loaded, shifted, overrun>>

(* InstallPlugin: an entry is appended, whatever is there already, with     *)
(* neither env nor hashtypes; a missing file is a panic.                   *)
InstallPlugin(p) ==
    /\ Goto(p, "install", IF table = Absent THEN "dead" ELSE "done")
    /\ IF table \in {Absent, Garbled} THEN UNCHANGED table
       ELSE table' = Append(table, [name |-> cmd[p].name, env |-> NoEnv])
    /\ log' = IF table = Absent THEN log ELSE Append(log, cmd[p])
    /\ Muddle(p)
    /\ UNCHANGED <<config, backup, cmd, loaded, shifted, overrun>>

(* The first plugin of that name, in whatever case; an unknown name        *)
(* removes nothing.                                                        *)
Hits(s, n) == {i \in DOMAIN s : Fold[s[i].name] = Fold[n]}
Without(s, n) ==
    IF Hits(s, n) = {} THEN s
    ELSE LET i == CHOOSE i \in Hits(s, n) : \A j \in Hits(s, n) : i <= j
         IN SubSeq(s, 1, i - 1) \o SubSeq(s, i + 1, Len(s))

(* Mutant: the name compared as it is.                                      *)
DeleteExact(p) ==
    /\ Goto(p, "rwrite", "done")
    /\ LET s == plugs[p]
       IN table' \in Over(SelectSeq(s, LAMBDA e : e.name # cmd[p].name), table)
    /\ log' = Append(log, cmd[p])
    /\ Muddle(p)
    /\ Shift
    /\ UNCHANGED <<config, backup, cmd, loaded, overrun>>

(* DeletePlugin: the table of the start without the plugin is written.     *)
DeletePlugin(p) == /\ Goto(p, "rwrite", "done")
                   /\ table' \in Over(Without(plugs[p], cmd[p].name), table)
                   /\ log' = Append(log, cmd[p])
                   /\ Muddle(p)
                   /\ Shift
                   /\ UNCHANGED <<config, backup, cmd, loaded, overrun>>

(* A process dies: killed, or by log.Fatal at the prompt.                  *)
Die(p) == /\ pc[p] \notin {"done", "dead", "serving"}
          /\ pc' = [pc EXCEPT ![p] = "dead"]
          /\ muddled' = (muddled \/ pc[p] \in {"pwrite", "rwrite"})
          /\ UNCHANGED <<files, cmd, loaded, log, shifted, overrun>>

Next == \E p \in Procs :
            \/ Load(p) \/ LoadFromToml(p) \/ AskForConfirmation(p)
            \/ UpdateConfig(p) \/ Truncate(p) \/ loadFromBinary(p)
            \/ StatTable(p) \/ LoadTable(p) \/ TruncateTable(p) \/ WriteEmbedded(p)
            \/ InstallPlugin(p) \/ DeletePlugin(p) \/ Die(p)

Spec == Init /\ [][Next]_vars

-----------------------------------------------------------------------------
(* The types of the variables.                                             *)
TypeOK == /\ {config, backup} \subseteq Configs
          /\ table \in {Absent, Garbled} \/ table \in Seq(Plugin)
          /\ pc \in [Procs -> {"stat", "decode", "prompt", "rename", "trunc", "write",
                               "retrunc", "rewrite", "pstat", "pread", "ptrunc", "pwrite", "pstat2", "pread2",
                               "install", "remove", "rwrite", "serving", "done", "dead"}]
          /\ cmd \in [Procs -> Commands]
          /\ round \in [Procs -> {1, 2}]
          /\ conf \in [Procs -> {"empty", "user", "shipped"}]
          /\ plugs \in [Procs -> Seq(Plugin)]
          /\ log \in Seq(Commands)
          /\ muddled \in BOOLEAN
          /\ shifted \subseteq Procs
          /\ overrun \in BOOLEAN

(* A command carried out on a table by itself.                             *)
Carry(t, c) == IF c.do = "install" THEN Append(t, [name |-> c.name, env |-> NoEnv])
               ELSE Without(t, c.name)

(* What the commands of s make of the embedded table, one after the other.  *)
Replay(s) == LET after[n \in 0 .. Len(s)] ==
                     IF n = 0 THEN Embedded ELSE Carry(after[n - 1], s[n])
             IN after[Len(s)]

(* No plugin is lost, doubled or brought back: when no rewrite of the table *)
(* has been overlapped by another write or cut off by a death, it is what   *)
(* the commands carried out make of the embedded one, in their order.      *)
Serial == ~muddled /\ table # Absent /\ (\A p \in Procs : ~Rewriting(p))
            => table = Replay(log)

(* The settings of the user are in config.toml or in its backup, whatever   *)
(* starts beside each other, answers its prompt late or dies in a write.   *)
(* They are lost in one way only: by an update that renames a config.toml   *)
(* which an earlier one has replaced, or was about to write, over the       *)
(* backup (load.go:85).  No overlap is needed for it when the embedded      *)
(* settings have not the version of the binary either (load.go:108).       *)
UserConfigKept == overrun \/ "user" \in {config, backup}

(* `env' names the credentials an engine is given (getPluginEnv): a server  *)
(* gives no engine those of another one, unless the table was rewritten     *)
(* between its two loads.                                                  *)
CredentialsStayHome ==
    \A p \in Procs \ shifted :
        pc[p] = "serving" =>
            \A i \in DOMAIN plugs[p] : Home(plugs[p][i])
=============================================================================
