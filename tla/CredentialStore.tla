--------------------------- MODULE CredentialStore ---------------------------
(***************************************************************************)
(* What the credential store of src/secrets/secrets.go amounts to for those *)
(* who use it: a table in memory and a table on disk.  A successful Set     *)
(* changes one key in memory and writes the whole of memory to disk in one *)
(* step; a failed one changes memory alone.  When the process dies, memory *)
(* is lost and the disk keeps the tables of completed Sets; a start reads   *)
(* the disk, all of it or the lines before the one at which it fails.      *)
(* SecretsStore implements this specification.                             *)
(***************************************************************************)
CONSTANTS Keys,         \* the names of the credentials
          Values,       \* the values a credential can be given
          Prefixes,     \* the keys of its first lines, for each number of lines
          Load(_, _)    \* what a start makes of a table of which it reads some keys

VARIABLES mem,          \* the table that Get reads
          disk          \* the table in the secrets file

Empty  == [k \in Keys |-> ""]
Tables == [Keys -> Values \cup {""}]

Init == /\ disk \in Tables
        /\ \E read \in Prefixes \cup {Keys} : mem = Load(disk, read)

Set(k, v) == /\ mem' = [mem EXCEPT ![k] = v]
             /\ disk' = mem'

SetUnsaved(k, v) == /\ mem' = [mem EXCEPT ![k] = v]
                    /\ UNCHANGED disk

Die == mem' = Empty /\ UNCHANGED disk

Start == /\ \E read \in Prefixes \cup {Keys} : mem' = Load(disk, read)
         /\ UNCHANGED disk

Next == \/ \E k \in Keys, v \in Values \cup {""} : Set(k, v) \/ SetUnsaved(k, v)
        \/ Die
        \/ Start

Spec == Init /\ [][Next]_<<mem, disk>>
=============================================================================
