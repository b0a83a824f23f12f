--------------------------- MODULE MCConfigFiles ---------------------------
(* The instance of ConfigFiles that TLC checks: two engines are compiled    *)
(* in, one of which needs a credential, and a third can be installed.      *)
EXTENDS ConfigFiles, TLC

MCFold     == "eset" :> "eset" @@ "Eset" :> "eset" @@ "clamav" :> "clamav" @@ "new" :> "new"
MCEmbedded == <<[name |-> "eset", env |-> "eset"], [name |-> "clamav", env |-> NoEnv]>>
MCCommands == {[do |-> "serve", name |-> "eset"], [do |-> "install", name |-> "new"],
               [do |-> "remove", name |-> "Eset"]}
MCTables   == {Absent, MCEmbedded}
Symmetry   == Permutations(Procs)

(* What is left of a state when the values that are not read any more are   *)
(* taken out: all of a process that has ended but its place, and config.Conf *)
(* after the last load of config.toml, or when it is about to be replaced.  *)
Ended(p) == pc[p] \in {"done", "dead"}
View == <<files, history, pc,
          [p \in Procs |-> IF Ended(p) THEN <<>> ELSE <<cmd[p], round[p], plugs[p]>>],
          [p \in Procs |-> IF pc[p] \in {"stat", "decode", "prompt"} THEN conf[p] ELSE ""]>>
=============================================================================
