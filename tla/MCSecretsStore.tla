--------------------------- MODULE MCSecretsStore ---------------------------
(* The instances of SecretsStore that TLC checks.                          *)
EXTENDS SecretsStore, TLC

CONSTANTS p1, p2, e1

VT   == "VIRUSTOTAL_API_KEY"
ESET == "ESET_LICENSE_KEY"
PATH == "PATH"          \* not on the allowlist

MCKeys         == {VT, ESET, PATH}
MCSettingsKeys == {VT, ESET}
MCEnv          == [r \in Readers |-> VT]

(* Set accepts a value with a trailing blank and a blank one, and Init       *)
(* trims both; "long" exceeds maxValLen.                                   *)
MCValues   == {"a", "b", "a ", " ", "long"}
MCRejected == {"long"}
MCTrim     == [v \in MCValues \cup {""} |->
                 IF v = "a " THEN "a" ELSE IF v = " " THEN "" ELSE v]

(* Both keys at once, a clear, blanks, a key off the list, a refused value. *)
MCPayloads == {VT :> "a" @@ ESET :> "b",
               VT :> "",
               VT :> "a " @@ ESET :> " ",
               VT :> "b" @@ PATH :> "b",
               ESET :> "a" @@ VT :> "long"}

MCEnviron == [k \in MCKeys |-> ""]
(* persistLocked writes the lines in the order of their keys.              *)
MCPrefixes == {{}, {ESET}, {ESET, PATH}}
MCFiles   == {[k \in MCKeys |-> ""],
              VT :> "b" @@ ESET :> "a" @@ PATH :> "a"}
=============================================================================
