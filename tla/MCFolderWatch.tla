---------------------------- MODULE MCFolderWatch ----------------------------
(* The instance of FolderWatch that TLC checks: one enabled plugin, whose    *)
(* name matches the tag of another that is disabled and built from source. *)
EXTENDS FolderWatch, TLC

MCMatches  == "busybox" :> {"busybox"} @@ "yara" :> {"yara", "yara-src"}
              @@ "yara-src" :> {"yara-src"}
MCCommands == {[do |-> "updateAll", image |-> NoPlugin], [do |-> "lookup", image |-> NoPlugin],
               [do |-> "update", image |-> NoPlugin],
               [do |-> "rebuild", image |-> "yara-src"],
               [do |-> "start", image |-> "yara"]}
MCFirst   == SUBSET {"busybox", "yara", "yara-src"}
MCHelpers == <<"busybox">>
MCPlugins == <<"yara">>
MCOthers  == <<"yara-src">>
=============================================================================
