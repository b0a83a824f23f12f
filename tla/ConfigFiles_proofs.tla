------------------------- MODULE ConfigFiles_proofs -------------------------
(***************************************************************************)
(* Machine-checked proofs, for any number of processes, any commands and    *)
(* any plugins, that the user's settings are kept until a second update of  *)
(* config.toml (UserConfigKept), that a server gives no engine the key of   *)
(* another one (CredentialsStayHome), and that the commands that change     *)
(* plugins.toml come to what they would one after the other (Serial).  The  *)
(* first is about who is about to replace config.toml, the second about     *)
(* what a server has loaded when plugins.toml is decoded into the same      *)
(* slice again, the third about what those who are about to write           *)
(* plugins.toml know of it.                                                *)
(***************************************************************************)
EXTENDS ConfigFiles, SequenceTheorems, FiniteSetTheorems, WellFoundedInduction, TLAPS

-----------------------------------------------------------------------------
(* Until an update has renamed a config.toml that had been replaced, it is   *)
(* either the user's, which nobody has begun to overwrite, or its backup is. *)
Replacing == {"trunc", "write", "retrunc", "rewrite"}

Kept ==
    overrun \/
        /\ config # "garbled"
        /\ config = "user" => \A q \in Procs : pc[q] \notin Replacing
        /\ config # "user" => backup = "user"

(* The plugins that are given their own credential, or none.                *)
Own == {e \in Plugin : Home(e)}

(* The places before a process has loaded plugins.toml.                     *)
Early == {"stat", "decode", "prompt", "rename", "trunc", "write", "retrunc", "rewrite",
          "pstat", "pread", "ptrunc", "pwrite"}

(* What a server has loaded is still how plugins.toml begins.               *)
Begins(s) == /\ Len(s) <= Len(table)
             /\ \A i \in DOMAIN s : table[i] = s[i]

Loaded ==
    /\ table \in {Absent, Garbled} \/ table \in Seq(Own)
    /\ \A p \in Procs : /\ pc[p] \in Early => plugs[p] = <<>>
                        /\ pc[p] # "serving" \/ p \notin shifted => plugs[p] \in Seq(Own)
                        /\ pc[p] \in {"pstat2", "pread2"} /\ p \notin shifted
                              => table \in {Absent, Garbled} \/ Begins(plugs[p])

IInv == TypeOK /\ Kept /\ Loaded

-----------------------------------------------------------------------------
PCs == {"stat", "decode", "prompt", "rename", "trunc", "write", "retrunc", "rewrite",
        "pstat", "pread", "ptrunc", "pwrite", "pstat2", "pread2", "install", "remove", "rwrite", "serving", "done", "dead"}

(* A sequence of plugins each of which is at home is one of plugins of Own. *)
LEMMA OwnSequences ==
    ASSUME NEW s \in Seq(Plugin), \A i \in DOMAIN s : Home(s[i])
    PROVE  s \in Seq(Own)
  <1>1. \A i \in 1 .. Len(s) : s[i] \in Own
    BY ElementOfSeq, LenProperties DEF Own
  <1>2. SubSeq(s, 1, Len(s)) \in Seq(Own)
    BY <1>1, LenProperties, SubSeqProperties
  <1> QED
    BY <1>2, SubSeqFull

(* The tables there may be at first, the embedded one among them.           *)
LEMMA FirstTablesAreOwn ==
    /\ \A t \in FirstTables : t \in {Absent, Garbled} \/ t \in Seq(Own)
    /\ Embedded \in Seq(Own)
  <1>1. ASSUME NEW t \in FirstTables \ {Absent, Garbled} PROVE t \in Seq(Own)
    BY <1>1, FilesAssumption, CredentialsAssumption, OwnSequences
  <1> QED
    BY <1>1, FilesAssumption

(* The first states.                                                       *)
LEMMA ConfigInit == Init => IInv
  <1> SUFFICES ASSUME Init PROVE IInv
    OBVIOUS
  <1>1. TypeOK
    <2>1. table \in {Absent, Garbled} \/ table \in Seq(Plugin)
      BY FilesAssumption DEF Init
    <2>2. plugs \in [Procs -> Seq(Plugin)] /\ log \in Seq(Commands)
      BY EmptySeq DEF Init
    <2>3. {config, backup} \subseteq Configs /\ overrun \in BOOLEAN
      BY FilesAssumption DEF Init, Configs
    <2> QED
      BY <2>1, <2>2, <2>3 DEF Init, TypeOK
  <1>2. Kept
    BY DEF Init, Kept, Replacing
  <1>3. Loaded
    <2>1. table \in {Absent, Garbled} \/ table \in Seq(Own)
      BY FirstTablesAreOwn DEF Init
    <2> QED
      BY <2>1, EmptySeq DEF Init, Loaded
  <1> QED
    BY <1>1, <1>2, <1>3 DEF IInv

(* The step of one process, and the command it goes on with.               *)
LEMMA GotoFacts ==
    ASSUME TypeOK, NEW p \in Procs, NEW from \in PCs, NEW to \in PCs, Goto(p, from, to)
    PROVE  /\ pc[p] = from /\ pc'[p] = to /\ pc' \in [Procs -> PCs]
           /\ \A q \in Procs : q # p => pc'[q] = pc[q]
  BY DEF Goto, TypeOK, PCs

LEMMA CommandFacts ==
    ASSUME TypeOK, NEW p \in Procs
    PROVE  /\ Command(p) \in {"pstat2", "install", "remove"}
           /\ AfterConfig(p) \in {"stat", "pstat"}
           /\ cmd[p].name \in DOMAIN Fold
  BY CommandsAssumption DEF TypeOK, Command, AfterConfig

-----------------------------------------------------------------------------
(* The steps on config.toml leave plugins.toml and what was loaded of it.   *)
LEMMA LoadedStays ==
    ASSUME IInv, NEW p \in Procs, NEW from \in Early, NEW to \in Early, Goto(p, from, to),
           UNCHANGED <<table, plugs, shifted>>
    PROVE  Loaded'
  <1>1. /\ pc[p] = from /\ pc'[p] = to
        /\ \A q \in Procs : q # p => pc'[q] = pc[q]
    <2>1. TypeOK /\ from \in PCs /\ to \in PCs
      BY DEF IInv, Early, PCs
    <2> QED
      BY <2>1, GotoFacts
  <1>2. \A q \in Procs : Begins(plugs[q])' <=> Begins(plugs[q])
    BY DEF Begins
  <1> QED
    BY <1>1, <1>2, SMTT(30) DEF IInv, Loaded, Early

(* Reading config.toml and asking about it.                                *)
LEMMA ReadingKeeps ==
    ASSUME IInv, NEW p \in Procs, Load(p) \/ LoadFromToml(p) \/ AskForConfirmation(p)
    PROVE  IInv'
  <1>0. PICK from \in {"stat", "decode", "prompt"},
             to \in {"decode", "trunc", "retrunc", "prompt", "rename", "stat", "pstat"} :
             /\ Goto(p, from, to)
             /\ to = "trunc" => config = "absent"
             /\ to = "retrunc" => config \in {"absent", "garbled"}
    <2> USE CommandFacts DEF IInv
    <2>1. CASE Load(p)
      BY <2>1 DEF Load
    <2>2. CASE LoadFromToml(p)
      BY <2>2 DEF LoadFromToml, CheckVersion, TypeOK
    <2>3. CASE AskForConfirmation(p)
      BY <2>3 DEF AskForConfirmation
    <2> QED
      BY <2>1, <2>2, <2>3
  <1>1. /\ UNCHANGED <<config, backup, table, plugs, cmd, log, muddled, shifted, overrun>>
        /\ round' \in [Procs -> {1, 2}] /\ conf' \in [Procs -> {"empty", "user", "shipped"}]
    <2>1. CASE Load(p)
      BY <2>1 DEF Load, IInv, TypeOK, files, loaded, history
    <2>2. CASE LoadFromToml(p)
      <3>1. conf' = conf \/ (config \notin {"absent", "garbled"}
                             /\ conf' = [conf EXCEPT ![p] = Decoded(p)])
        BY <2>2 DEF LoadFromToml
      <3>2. config \notin {"absent", "garbled"}
               => Decoded(p) \in {"empty", "user", "shipped"}
        BY DEF IInv, TypeOK, Configs, Decoded
      <3>3. round' = round \/ round' = [round EXCEPT ![p] = 2]
        BY <2>2 DEF LoadFromToml, CheckVersion
      <3> QED
        BY <2>2, <3>1, <3>2, <3>3, ZenonT(60) DEF LoadFromToml, IInv, TypeOK, files, history
    <2>3. CASE AskForConfirmation(p)
      BY <2>3 DEF AskForConfirmation, IInv, TypeOK, files, history
    <2> QED
      BY <2>1, <2>2, <2>3
  <1>2. /\ pc[p] = from /\ pc'[p] = to /\ pc' \in [Procs -> PCs]
        /\ \A q \in Procs : q # p => pc'[q] = pc[q]
    <2>1. TypeOK /\ from \in PCs /\ to \in PCs /\ Goto(p, from, to)
      BY <1>0 DEF IInv, PCs
    <2> QED
      BY <2>1, GotoFacts
  <1>3. TypeOK'
    BY <1>1, <1>2 DEF IInv, TypeOK, PCs
  <1>4. Kept'
    BY <1>0, <1>1, <1>2 DEF IInv, Kept, Replacing
  <1>5. Loaded'
    BY <1>0, <1>1, LoadedStays DEF Early
  <1> QED
    BY <1>3, <1>4, <1>5 DEF IInv

(* Replacing config.toml.                                                  *)
LEMMA ReplacingKeeps ==
    ASSUME IInv, NEW p \in Procs, UpdateConfig(p) \/ Truncate(p) \/ loadFromBinary(p)
    PROVE  IInv'
  <1> USE CommandFacts DEF IInv
  <1>1. CASE UpdateConfig(p)
    <2>1. /\ Goto(p, "rename", "trunc")
          /\ overrun' = (overrun \/ config \in {"shipped", "empty"})
          /\ IF config = "absent" THEN UNCHANGED <<config, backup>>
             ELSE backup' = config /\ config' = "absent"
          /\ UNCHANGED <<table, plugs, cmd, round, conf, log, muddled, shifted>>
      BY <1>1, SMTT(30) DEF UpdateConfig, loaded
    <2>2. /\ pc[p] = "rename" /\ pc'[p] = "trunc" /\ pc' \in [Procs -> PCs]
          /\ \A q \in Procs : q # p => pc'[q] = pc[q]
      BY <2>1, GotoFacts DEF PCs
    <2>3. TypeOK'
      BY <2>1, <2>2 DEF TypeOK, PCs, Configs
    <2>4. Kept'
      BY <2>1, <2>2 DEF TypeOK, Configs, Kept, Replacing
    <2>5. Loaded'
      BY <2>1, LoadedStays DEF Early
    <2> QED
      BY <2>3, <2>4, <2>5
  <1>2. CASE Truncate(p)
    <2>1. /\ config' = "empty"
          /\ UNCHANGED <<backup, table, plugs, cmd, round, conf, log, muddled, shifted,
                         overrun>>
      BY <1>2, SMTT(30) DEF Truncate, loaded, history
    <2>0. PICK from \in {"trunc", "retrunc"}, to \in {"write", "rewrite"} : Goto(p, from, to)
      BY <1>2 DEF Truncate
    <2>2. /\ pc[p] = from /\ pc'[p] = to /\ pc' \in [Procs -> PCs]
          /\ \A q \in Procs : q # p => pc'[q] = pc[q]
      BY <2>0, GotoFacts DEF PCs
    <2>3. TypeOK'
      BY <2>1, <2>2 DEF TypeOK, PCs, Configs
    <2>4. Kept'
      BY <2>1, <2>2 DEF Kept, Replacing
    <2>5. Loaded'
      BY <2>0, <2>1, LoadedStays DEF Early
    <2> QED
      BY <2>3, <2>4, <2>5
  <1>3. CASE loadFromBinary(p)
    <2>1. /\ config' = "shipped" /\ conf' = [conf EXCEPT ![p] = "shipped"]
          /\ round' = round \/ round' = [round EXCEPT ![p] = 2]
          /\ UNCHANGED <<backup, table, plugs, cmd, log, muddled, shifted, overrun>>
      BY <1>3, SMTT(30) DEF loadFromBinary, CheckVersion, history
    <2>0. PICK from \in {"write", "rewrite"}, to \in {"stat", "pstat", "prompt"} :
             Goto(p, from, to)
      BY <1>3 DEF loadFromBinary, CheckVersion
    <2>2. /\ pc[p] = from /\ pc'[p] = to /\ pc' \in [Procs -> PCs]
          /\ \A q \in Procs : q # p => pc'[q] = pc[q]
      BY <2>0, GotoFacts DEF PCs
    <2>3. TypeOK'
      BY <2>1, <2>2 DEF TypeOK, PCs, Configs
    <2>4. Kept'
      BY <2>1, <2>2 DEF Kept, Replacing
    <2>5. Loaded'
      BY <2>0, <2>1, LoadedStays DEF Early
    <2> QED
      BY <2>3, <2>4, <2>5
  <1> QED
    BY <1>1, <1>2, <1>3

-----------------------------------------------------------------------------
(* A step from one place to another on plugins.toml leaves config.toml.     *)
LEMMA KeptStays ==
    ASSUME IInv, NEW p \in Procs, NEW from \in PCs, NEW to \in PCs, Goto(p, from, to),
           {from, to} \cap Replacing = {},
           UNCHANGED <<config, backup, overrun>>
    PROVE  Kept'
  <1>1. /\ pc[p] = from /\ pc'[p] = to
        /\ \A q \in Procs : q # p => pc'[q] = pc[q]
    BY GotoFacts DEF IInv
  <1> QED
    BY <1>1 DEF IInv, Kept

(* What the decoder makes of a slice and a text.                           *)
LEMMA MergeFacts ==
    ASSUME NEW old \in Seq(Plugin), NEW new \in Seq(Plugin)
    PROVE  /\ Merge(old, new) \in Seq(Plugin)
           /\ Len(Merge(old, new)) = Len(new)
           /\ Merge(old, new) \in [1 .. Len(new) -> Plugin]
           /\ \A i \in 1 .. Len(new) :
                 Merge(old, new)[i] = IF new[i].env = NoEnv /\ Len(new) <= Len(old)
                                        THEN [new[i] EXCEPT !.env = old[i].env] ELSE new[i]
  <1>1. Len(old) \in Nat /\ Len(new) \in Nat /\ DOMAIN new = 1 .. Len(new)
    BY LenProperties
  <1>2. ASSUME NEW i \in 1 .. Len(new)
        PROVE  (IF new[i].env = NoEnv /\ Len(new) <= Len(old)
                  THEN [new[i] EXCEPT !.env = old[i].env] ELSE new[i]) \in Plugin
    <2>1. new[i] \in Plugin
      BY ElementOfSeq
    <2>2. Len(new) <= Len(old) => old[i] \in Plugin
      BY <1>1, ElementOfSeq
    <2> QED
      BY <2>1, <2>2 DEF Plugin
  <1>3. Merge(old, new) \in [1 .. Len(new) -> Plugin]
    BY <1>1, <1>2 DEF Merge
  <1>4. Merge(old, new) \in Seq(Plugin)
    BY <1>1, <1>3, SeqDef
  <1>5. Len(Merge(old, new)) = Len(new)
    BY <1>1, <1>3, <1>4, LenProperties
  <1> QED
    BY <1>1, <1>3, <1>4, <1>5 DEF Merge

(* A text that begins as the slice does leaves everybody at home.           *)
LEMMA MergeIsOwn ==
    ASSUME NEW old \in Seq(Own), NEW new \in Seq(Own),
           Len(old) <= Len(new), \A i \in 1 .. Len(old) : new[i] = old[i]
    PROVE  Merge(old, new) = new
  <1>1. old \in Seq(Plugin) /\ new \in Seq(Plugin)
    BY SeqMonotonic DEF Own
  <1>2. Len(old) \in Nat /\ Len(new) \in Nat
    BY LenProperties
  <1>3. ASSUME NEW i \in 1 .. Len(new) PROVE Merge(old, new)[i] = new[i]
    <2>1. new[i] \in Plugin
      BY <1>1, ElementOfSeq
    <2>2. CASE Len(new) <= Len(old)
      <3>1. old[i] = new[i]
        BY <1>2, <2>2
      <3>2. [new[i] EXCEPT !.env = new[i].env] = new[i]
        BY <2>1 DEF Plugin
      <3>3. Merge(old, new)[i] = IF new[i].env = NoEnv /\ Len(new) <= Len(old)
                                   THEN [new[i] EXCEPT !.env = old[i].env] ELSE new[i]
        BY <1>1, MergeFacts
      <3> QED
        BY <3>1, <3>2, <3>3
    <2>3. CASE ~(Len(new) <= Len(old))
      BY <1>1, <2>3, MergeFacts
    <2> QED
      BY <2>2, <2>3
  <1> QED
    BY <1>1, <1>3, MergeFacts, SeqEqual

(* A part of such a sequence.                                              *)
LEMMA SubSeqIsOwn ==
    ASSUME NEW s \in Seq(Own), NEW m \in Int, NEW n \in Int, m >= 1, n <= Len(s)
    PROVE  SubSeq(s, m, n) \in Seq(Own)
  <1>1. \A k \in m .. n : s[k] \in Own
    BY LenProperties, ElementOfSeq
  <1> QED
    BY <1>1, SubSeqProperties

(* What is written over plugins.toml.                                      *)
LEMMA OverFacts ==
    ASSUME NEW new \in Seq(Own), NEW old, old \in {Absent, Garbled} \/ old \in Seq(Own),
           NEW t \in Over(new, old)
    PROVE  \/ t = Garbled
           \/ /\ t \in Seq(Own)
              /\ Len(new) <= Len(t)
              /\ \A i \in 1 .. Len(new) : t[i] = new[i]
  <1>1. CASE t = new
    BY <1>1, LenProperties
  <1>2. CASE /\ old \in Seq(Own) /\ ~(Len(old) <= Len(new))
             /\ t = new \o SubSeq(old, Len(new) + 1, Len(old))
    <2>1. Len(old) \in Nat /\ Len(new) \in Nat
      BY <1>2, LenProperties
    <2>2. \A i \in Len(new) + 1 .. Len(old) : old[i] \in Own
      BY <1>2, <2>1, ElementOfSeq
    <2>3. SubSeq(old, Len(new) + 1, Len(old)) \in Seq(Own)
      BY <2>1, <2>2, SubSeqProperties
    <2> DEFINE rest == SubSeq(old, Len(new) + 1, Len(old))
    <2>4. Len(rest) \in Nat
      BY <2>3, LenProperties
    <2> HIDE DEF rest
    <2>5. /\ new \o rest \in Seq(Own)
          /\ Len(new \o rest) = Len(new) + Len(rest)
          /\ \A i \in 1 .. Len(new) + Len(rest) :
                (new \o rest)[i] = IF i <= Len(new) THEN new[i] ELSE rest[i - Len(new)]
      BY <2>3, ConcatProperties DEF rest
    <2>6. t = new \o rest
      BY <1>2 DEF rest
    <2> QED
      BY <2>1, <2>4, <2>5, <2>6
  <1> QED
    BY <1>1, <1>2 DEF Over

(* A set of positions has a least one.                                     *)
LEMMA LeastExists ==
    ASSUME NEW n \in Nat, NEW T, T \subseteq 1 .. n, T # {}
    PROVE  \E x \in T : \A y \in T : x <= y
  <1> DEFINE Ups == {1 .. x : x \in T}
  <1>1. IsWellFoundedOn(StrictSubsetOrdering(1 .. n), FiniteSubsetsOf(1 .. n))
    BY FS_StrictSubsetOrderingWellFounded
  <1>2. Ups \subseteq FiniteSubsetsOf(1 .. n)
    <2>1. \A x \in T : 1 .. x \subseteq 1 .. n /\ IsFiniteSet(1 .. x)
      BY FS_Interval
    <2> QED
      BY <2>1 DEF FiniteSubsetsOf
  <1>3. Ups # {}
    OBVIOUS
  <1> HIDE DEF Ups
  <1>4. PICK m \in Ups : \A u \in Ups : <<u, m>> \notin StrictSubsetOrdering(1 .. n)
    BY <1>1, <1>2, <1>3, WFMin
  <1>5. PICK x \in T : m = 1 .. x
    BY DEF Ups
  <1>6. ASSUME NEW y \in T, y < x PROVE FALSE
    <2>1. 1 .. y \in Ups
      BY DEF Ups
    <2>2. x \in 1 .. x /\ x \notin 1 .. y
      BY <1>6
    <2>3. 1 .. y \subseteq 1 .. x /\ 1 .. x \subseteq 1 .. n /\ 1 .. y \subseteq 1 .. n
      BY <1>6
    <2> QED
      BY <1>4, <1>5, <2>1, <2>2, <2>3 DEF StrictSubsetOrdering
  <1> QED
    BY <1>6

(* What is left when a plugin is deleted.                                  *)
LEMMA WithoutFacts ==
    ASSUME NEW s \in Seq(Own), NEW n
    PROVE  Without(s, n) \in Seq(Own)
  <1>0. Len(s) \in Nat /\ DOMAIN s = 1 .. Len(s)
    BY LenProperties
  <1>1. CASE Hits(s, n) = {}
    BY <1>1 DEF Without
  <1>2. CASE Hits(s, n) # {}
    <2>1. Hits(s, n) \subseteq 1 .. Len(s)
      BY <1>0 DEF Hits
    <2>2. \E x \in Hits(s, n) : \A y \in Hits(s, n) : x <= y
      BY <1>0, <1>2, <2>1, LeastExists
    <2> DEFINE i == CHOOSE i \in Hits(s, n) : \A j \in Hits(s, n) : i <= j
    <2>4. i \in 1 .. Len(s)
      BY <2>1, <2>2
    <2> HIDE DEF i
    <2>5. i - 1 \in Int /\ i - 1 <= Len(s) /\ i + 1 \in Int /\ i + 1 >= 1
      BY <1>0, <2>4
    <2>6. SubSeq(s, 1, i - 1) \in Seq(Own)
      BY <2>5, SubSeqIsOwn
    <2>7. SubSeq(s, i + 1, Len(s)) \in Seq(Own)
      BY <1>0, <2>5, SubSeqIsOwn
    <2>8. SubSeq(s, 1, i - 1) \o SubSeq(s, i + 1, Len(s)) \in Seq(Own)
      BY <2>6, <2>7, ConcatProperties
    <2> QED
      BY <1>2, <2>8 DEF Without, i
  <1> QED
    BY <1>1, <1>2

-----------------------------------------------------------------------------
(* Reading plugins.toml: a server's second load finds what its first did,   *)
(* and perhaps more.                                                       *)
LEMMA TableReadingKeeps ==
    ASSUME IInv, NEW p \in Procs, StatTable(p) \/ LoadTable(p)
    PROVE  IInv'
  <1> USE DEF IInv
  <1>0. Seq(Own) \subseteq Seq(Plugin)
    BY SeqMonotonic DEF Own
  <1>1. CASE StatTable(p)
    <2>1. PICK from \in {"pstat", "pstat2"}, to \in {"ptrunc", "pread", "pread2"} :
             /\ Goto(p, from, to)
             /\ from = "pstat" <=> to # "pread2"
      BY <1>1 DEF StatTable
    <2>2. UNCHANGED <<config, backup, table, cmd, round, conf, plugs, log, muddled, shifted,
                      overrun>>
      BY <1>1 DEF StatTable, files, loaded, history
    <2>3. /\ pc[p] = from /\ pc'[p] = to /\ pc' \in [Procs -> PCs]
          /\ \A q \in Procs : q # p => pc'[q] = pc[q]
      BY <2>1, GotoFacts DEF PCs
    <2>4. TypeOK'
      BY <2>2, <2>3 DEF TypeOK, PCs
    <2>5. Kept'
      BY <2>1, <2>2, KeptStays DEF PCs, Replacing
    <2>6. Loaded'
      BY <2>1, <2>2, <2>3 DEF Loaded, Begins, Early
    <2> QED
      BY <2>4, <2>5, <2>6
  <1>2. CASE LoadTable(p)
    <2>1. PICK from \in {"pread", "pread2"}, to \in {"pstat2", "install", "remove", "serving"} :
             /\ Goto(p, from, to)
             /\ from = "pread" <=> to # "serving"
      BY <1>2, CommandFacts DEF LoadTable
    <2>2. /\ plugs' = [plugs EXCEPT ![p] = DecodeFile(p)]
          /\ UNCHANGED <<config, backup, table, cmd, round, conf, log, muddled, shifted,
                         overrun>>
      BY <1>2, SMTT(30) DEF LoadTable, files, history
    <2>3. /\ pc[p] = from /\ pc'[p] = to /\ pc' \in [Procs -> PCs]
          /\ \A q \in Procs : q # p => pc'[q] = pc[q]
      BY <2>1, GotoFacts DEF PCs
    <2>4. plugs[p] \in Seq(Own) /\ plugs[p] \in Seq(Plugin)
      BY <1>0, <2>1, <2>3 DEF Loaded
    <2>5. DecodeFile(p) \in Seq(Plugin)
      BY <2>4, MergeFacts DEF DecodeFile, TypeOK
    <2>8. TypeOK'
      BY <2>2, <2>3, <2>5 DEF TypeOK, PCs
    <2>9. Kept'
      BY <2>1, <2>2, KeptStays DEF PCs, Replacing
    <2>6. CASE from = "pread"
      <3>1. plugs[p] = <<>>
        BY <2>3, <2>6 DEF Loaded, Early
      <3>2. /\ DecodeFile(p) \in Seq(Own)
            /\ table \in {Absent, Garbled} \/ DecodeFile(p) = table
        <4>1. CASE table \in {Absent, Garbled, <<>>}
          BY <3>1, <4>1, EmptySeq DEF DecodeFile
        <4>2. CASE table \notin {Absent, Garbled, <<>>}
          <5>1. table \in Seq(Own) /\ Len(table) \in Nat
            BY <4>2, LenProperties DEF Loaded
          <5>a. Len(plugs[p]) = 0
            BY <3>1, EmptySeq
          <5>2. Merge(plugs[p], table) = table
            BY <2>4, <5>1, <5>a, MergeIsOwn
          <5> QED
            BY <4>2, <5>1, <5>2 DEF DecodeFile
        <4> QED
          BY <4>1, <4>2
      <3>3. table \in {Absent, Garbled} \/ Begins(DecodeFile(p))
        BY <3>2, LenProperties DEF Begins
      <3>4. plugs'[p] = DecodeFile(p) /\ \A q \in Procs : q # p => plugs'[q] = plugs[q]
        BY <2>2 DEF TypeOK
      <3>5. Loaded'
        BY <2>1, <2>2, <2>3, <2>6, <3>2, <3>3, <3>4 DEF Loaded, Begins, Early
      <3> QED
        BY <2>8, <2>9, <3>5
    <2>7. CASE from = "pread2"
      <3>1. p \notin shifted => DecodeFile(p) \in Seq(Own)
        <4>1. CASE table \in {Absent, Garbled, <<>>}
          BY <2>4, <4>1 DEF DecodeFile
        <4>2. ASSUME table \notin {Absent, Garbled, <<>>}, p \notin shifted
              PROVE  DecodeFile(p) \in Seq(Own)
          <5>1. table \in Seq(Own) /\ Begins(plugs[p])
            BY <2>3, <2>7, <4>2 DEF Loaded
          <5>2. Merge(plugs[p], table) = table
            BY <2>4, <5>1, MergeIsOwn, LenProperties DEF Begins
          <5> QED
            BY <4>2, <5>1, <5>2 DEF DecodeFile
        <4> QED
          BY <4>1, <4>2
      <3>4. plugs'[p] = DecodeFile(p) /\ \A q \in Procs : q # p => plugs'[q] = plugs[q]
        BY <2>2 DEF TypeOK
      <3>5. Loaded'
        BY <2>1, <2>2, <2>3, <2>7, <3>1, <3>4 DEF Loaded, Begins, Early
      <3> QED
        BY <2>8, <2>9, <3>5
    <2> QED
      BY <2>6, <2>7
  <1> QED
    BY <1>1, <1>2

-----------------------------------------------------------------------------
(* A rewrite casts doubt on every server between its two loads, and leaves   *)
(* what the others have loaded.                                            *)
LEMMA ShiftKeeps ==
    ASSUME IInv, NEW p \in Procs, NEW from \in PCs, NEW to \in PCs, Goto(p, from, to), Shift,
           from \notin {"pstat2", "pread2", "serving"}, to # "serving",
           to \in Early => from \in Early,
           table' \in {Absent, Garbled} \/ table' \in Seq(Own),
           \/ plugs' = plugs /\ to \notin {"pstat2", "pread2"}
           \/ /\ plugs'[p] \in Seq(Own) /\ to \notin Early
              /\ \A q \in Procs : q # p => plugs'[q] = plugs[q]
              /\ table' \in {Absent, Garbled} \/ Begins(plugs[p])'
    PROVE  Loaded'
  <1>1. /\ pc[p] = from /\ pc'[p] = to
        /\ \A q \in Procs : q # p => pc'[q] = pc[q]
    BY GotoFacts DEF IInv
  <1>2. shifted' = shifted \cup {q \in Procs : pc[q] \in {"pstat2", "pread2"}}
    BY DEF Shift
  <1>3. plugs[p] \in Seq(Own) /\ (from \in Early => plugs[p] = <<>>)
    BY <1>1 DEF IInv, Loaded
  <1>4. plugs'[p] \in Seq(Own) /\ (to \in Early => plugs'[p] = <<>>)
    BY <1>3
  <1>5. to \in {"pstat2", "pread2"} => table' \in {Absent, Garbled} \/ Begins(plugs[p])'
    OBVIOUS
  <1>6. \A q \in Procs : q # p => plugs'[q] = plugs[q]
    OBVIOUS
  <1>7. ASSUME NEW q \in Procs
        PROVE  /\ pc'[q] \in Early => plugs'[q] = <<>>
               /\ pc'[q] # "serving" \/ q \notin shifted' => plugs'[q] \in Seq(Own)
               /\ pc'[q] \in {"pstat2", "pread2"} /\ q \notin shifted'
                     => table' \in {Absent, Garbled} \/ Begins(plugs[q])'
    <2>1. CASE q = p
      BY <1>1, <1>4, <1>5, <2>1
    <2>2. CASE q # p
      BY <1>1, <1>2, <1>6, <2>2 DEF IInv, Loaded
    <2> QED
      BY <2>1, <2>2
  <1> QED
    BY <1>7 DEF Loaded

(* The rewrites of plugins.toml.                                           *)
LEMMA RewritingKeeps ==
    ASSUME IInv, NEW p \in Procs, TruncateTable(p) \/ WriteEmbedded(p) \/ DeletePlugin(p)
    PROVE  IInv'
  <1> USE DEF IInv
  <1>0. Seq(Own) \subseteq Seq(Plugin)
    BY SeqMonotonic DEF Own
  <1>1. CASE TruncateTable(p)
    <2>1. PICK from \in {"ptrunc", "remove"}, to \in {"pwrite", "rwrite"} :
             Goto(p, from, to) /\ (from = "ptrunc" <=> to = "pwrite")
      BY <1>1 DEF TruncateTable
    <2>2. /\ table' = <<>> /\ Muddle(p) /\ Shift
          /\ UNCHANGED <<config, backup, cmd, round, conf, plugs, log, overrun>>
      BY <1>1, SMTT(30) DEF TruncateTable, loaded
    <2>3. pc' \in [Procs -> PCs]
      BY <2>1, GotoFacts DEF PCs
    <2>4. TypeOK'
      BY <2>2, <2>3, EmptySeq DEF TypeOK, PCs, Muddle, Shift
    <2>5. Kept'
      BY <2>1, <2>2, KeptStays DEF PCs, Replacing
    <2>6. Loaded'
      BY <2>1, <2>2, EmptySeq, ShiftKeeps DEF PCs, Early
    <2> QED
      BY <2>4, <2>5, <2>6
  <1>2. CASE WriteEmbedded(p)
    <2>1. /\ Goto(p, "pwrite", Command(p)) /\ Muddle(p) /\ Shift
          /\ table' \in Over(Embedded, table)
          /\ plugs' = [plugs EXCEPT ![p] = Merge(plugs[p], Embedded)]
          /\ UNCHANGED <<config, backup, cmd, round, conf, log, overrun>>
      BY <1>2, SMTT(30) DEF WriteEmbedded
    <2>2. /\ pc[p] = "pwrite" /\ pc' \in [Procs -> PCs]
      BY <2>1, GotoFacts, CommandFacts DEF PCs
    <2>3. plugs[p] = <<>> /\ Len(plugs[p]) = 0 /\ plugs[p] \in Seq(Own)
      BY <2>2, EmptySeq DEF Loaded, Early
    <2>4. Embedded \in Seq(Own) /\ Len(Embedded) \in Nat
      BY FirstTablesAreOwn, LenProperties
    <2>5. Merge(plugs[p], Embedded) = Embedded
      <3>1. \A i \in 1 .. Len(plugs[p]) : Embedded[i] = plugs[p][i]
        BY <2>3
      <3>2. Len(plugs[p]) <= Len(Embedded)
        BY <2>3, <2>4
      <3> QED
        BY <2>3, <2>4, <3>1, <3>2, MergeIsOwn
    <2>6. /\ plugs'[p] = Embedded
          /\ \A q \in Procs : q # p => plugs'[q] = plugs[q]
          /\ plugs' \in [Procs -> Seq(Plugin)]
      BY <1>0, <2>1, <2>4, <2>5 DEF TypeOK
    <2>7. \/ table' = Garbled
          \/ /\ table' \in Seq(Own) /\ Len(Embedded) <= Len(table')
             /\ \A i \in 1 .. Len(Embedded) : table'[i] = Embedded[i]
      BY <2>1, <2>4, OverFacts DEF Loaded
    <2>8. table' \in {Absent, Garbled} \/ Begins(plugs[p])'
      BY <2>4, <2>6, <2>7, LenProperties DEF Begins
    <2>9. TypeOK'
      BY <1>0, <2>1, <2>2, <2>6, <2>7 DEF TypeOK, PCs, Muddle, Shift
    <2>10. Kept'
      BY <2>1, CommandFacts, KeptStays, SMTT(30) DEF PCs, Replacing
    <2>11. Loaded'
      BY <2>1, <2>4, <2>6, <2>7, <2>8, CommandFacts, ShiftKeeps DEF PCs, Early
    <2> QED
      BY <2>9, <2>10, <2>11
  <1>3. CASE DeletePlugin(p)
    <2>1. /\ Goto(p, "rwrite", "done") /\ Muddle(p) /\ Shift
          /\ table' \in Over(Without(plugs[p], cmd[p].name), table)
          /\ log' = Append(log, cmd[p])
          /\ UNCHANGED <<config, backup, cmd, round, conf, plugs, overrun>>
      BY <1>3, SMTT(30) DEF DeletePlugin, loaded
    <2>2. pc[p] = "rwrite" /\ pc' \in [Procs -> PCs]
      BY <2>1, GotoFacts DEF PCs
    <2>3. Without(plugs[p], cmd[p].name) \in Seq(Own)
      BY <2>2, WithoutFacts DEF Loaded
    <2>4. table' = Garbled \/ table' \in Seq(Own)
      BY <2>1, <2>3, OverFacts DEF Loaded
    <2>5. log' \in Seq(Commands)
      BY <2>1 DEF TypeOK
    <2>6. TypeOK'
      BY <1>0, <2>1, <2>2, <2>4, <2>5 DEF TypeOK, PCs, Muddle, Shift
    <2>7. Kept'
      BY <2>1, KeptStays DEF PCs, Replacing
    <2>8. Loaded'
      BY <2>1, <2>4, ShiftKeeps DEF PCs, Early
    <2> QED
      BY <2>6, <2>7, <2>8
  <1> QED
    BY <1>1, <1>2, <1>3

(* An installed plugin is appended, so that what was loaded still begins    *)
(* the table.                                                              *)
LEMMA InstallKeeps ==
    ASSUME IInv, NEW p \in Procs, InstallPlugin(p)
    PROVE  IInv'
  <1> USE DEF IInv
  <1> DEFINE new == [name |-> cmd[p].name, env |-> NoEnv]
  <1>1. PICK to \in {"dead", "done"} : Goto(p, "install", to)
    BY DEF InstallPlugin
  <1>2. /\ table' = table \/ (table \notin {Absent, Garbled} /\ table' = Append(table, new))
        /\ log' = log \/ log' = Append(log, cmd[p])
        /\ Muddle(p)
        /\ UNCHANGED <<config, backup, cmd, round, conf, plugs, shifted, overrun>>
    BY SMTT(30) DEF InstallPlugin, loaded
  <1>3. /\ pc[p] = "install" /\ pc'[p] = to /\ pc' \in [Procs -> PCs]
        /\ \A q \in Procs : q # p => pc'[q] = pc[q]
    BY <1>1, GotoFacts DEF PCs
  <1>4. new \in Own
    BY CommandFacts DEF Own, Plugin, Home
  <1>5. Seq(Own) \subseteq Seq(Plugin)
    BY SeqMonotonic DEF Own
  <1>5a. log \in Seq(Commands) /\ Append(log, cmd[p]) \in Seq(Commands)
    BY AppendProperties DEF TypeOK
  <1> HIDE DEF new
  <1>6. CASE table' = table
    <2>1. TypeOK'
      <3>1. log' \in Seq(Commands)
        BY <1>2, <1>5a
      <3> QED
        BY <1>2, <1>3, <1>6, <3>1 DEF TypeOK, PCs, Muddle
    <2>2. Loaded'
      BY <1>2, <1>3, <1>6 DEF Loaded, Begins, Early
    <2> QED
      BY <1>1, <1>2, <2>1, <2>2, KeptStays DEF PCs, Replacing
  <1>7. CASE table \notin {Absent, Garbled} /\ table' = Append(table, new)
    <2>1. table \in Seq(Own)
      BY <1>7 DEF Loaded
    <2>2. /\ table' \in Seq(Own) /\ Len(table') = Len(table) + 1 /\ Len(table) \in Nat
          /\ \A i \in 1 .. Len(table) : table'[i] = table[i]
      BY <1>4, <1>7, <2>1, LenProperties
    <2>3. TypeOK'
      <3>1. log' \in Seq(Commands)
        BY <1>2, <1>5a
      <3> QED
        BY <1>2, <1>3, <1>5, <2>2, <3>1 DEF TypeOK, PCs, Muddle
    <2>4. \A q \in Procs : Begins(plugs[q]) => Begins(plugs[q])'
      <3>1. SUFFICES ASSUME NEW q \in Procs, Begins(plugs[q]) PROVE Begins(plugs[q])'
        OBVIOUS
      <3>2. plugs[q] \in Seq(Plugin)
        BY DEF TypeOK
      <3>3. Len(plugs[q]) \in Nat /\ DOMAIN plugs[q] = 1 .. Len(plugs[q])
        BY <3>2, LenProperties
      <3> QED
        BY <1>2, <2>2, <3>1, <3>3 DEF Begins
    <2>5. Loaded'
      BY <1>2, <1>3, <1>7, <2>2, <2>4 DEF Loaded, Early
    <2> QED
      BY <1>1, <1>2, <2>3, <2>5, KeptStays DEF PCs, Replacing
  <1> QED
    BY <1>2, <1>6, <1>7

(* A process that dies leaves the files as they are.                       *)
LEMMA DieKeeps ==
    ASSUME IInv, NEW p \in Procs, Die(p)
    PROVE  IInv'
  <1> USE DEF IInv
  <1>1. /\ pc[p] \notin {"done", "dead", "serving"} /\ pc' = [pc EXCEPT ![p] = "dead"]
        /\ muddled' = (muddled \/ pc[p] \in {"pwrite", "rwrite"})
        /\ UNCHANGED <<config, backup, table, cmd, round, conf, plugs, log, shifted,
                       overrun>>
    BY DEF Die, files, loaded
  <1>2. /\ pc'[p] = "dead" /\ pc' \in [Procs -> PCs]
        /\ \A q \in Procs : q # p => pc'[q] = pc[q]
    BY <1>1 DEF TypeOK, PCs
  <1>3. TypeOK'
    BY <1>1, <1>2 DEF TypeOK, PCs
  <1>4. Kept'
    BY <1>1, <1>2 DEF Kept, Replacing
  <1>5. Loaded'
    BY <1>1, <1>2 DEF Loaded, Begins, Early
  <1> QED
    BY <1>3, <1>4, <1>5

(* Every step keeps the invariant.                                         *)
LEMMA ConfigNext == IInv /\ [Next]_vars => IInv'
  <1> SUFFICES ASSUME IInv, [Next]_vars PROVE IInv'
    OBVIOUS
  <1>1. CASE UNCHANGED vars
    BY <1>1 DEF IInv, TypeOK, Kept, Loaded, Begins, Replacing, vars, files, loaded, history
  <1>2. CASE Next
    BY <1>2, ReadingKeeps, ReplacingKeeps, TableReadingKeeps, RewritingKeeps, InstallKeeps,
       DieKeeps
    DEF Next
  <1> QED
    BY <1>1, <1>2

-----------------------------------------------------------------------------
(* The strengthened invariant holds in every reachable state.              *)
THEOREM ConfigInvariant == Spec => []IInv
  BY ConfigInit, ConfigNext, PTL DEF Spec

(* Every variable keeps its type (load.go and plugins.go).                 *)
THEOREM ConfigTypeCorrect == Spec => []TypeOK
  <1>1. IInv => TypeOK
    BY DEF IInv
  <1> QED
    BY <1>1, ConfigInvariant, PTL

(* The user's settings are in config.toml or in its backup, until an update *)
(* renames a config.toml that an earlier one has replaced, or was about to  *)
(* write, over that backup (src/config/load.go:85-120).                    *)
THEOREM SettingsAreKept == Spec => []UserConfigKept
  <1>1. IInv => UserConfigKept
    BY DEF IInv, Kept, UserConfigKept
  <1> QED
    BY <1>1, ConfigInvariant, PTL

(* A server gives no engine the credential of another one, unless the table *)
(* was rewritten between its two loads (src/plugins/load.go:17-50).         *)
THEOREM CredentialsAreOwn == Spec => []CredentialsStayHome
  <1>1. IInv => CredentialsStayHome
    <2>1. ASSUME NEW s \in Seq(Own) PROVE \A i \in DOMAIN s : Home(s[i])
      BY ElementOfSeq, LenProperties DEF Own
    <2> QED
      BY <2>1 DEF IInv, Loaded, CredentialsStayHome
  <1> QED
    BY <1>1, ConfigInvariant, PTL

-----------------------------------------------------------------------------
(* The function that Replay defines: what the table is after each command.  *)
Solves(f, s) ==
    f = [n \in 0 .. Len(s) |-> IF n = 0 THEN Embedded ELSE Carry(f[n - 1], s[n])]

(* Every element of it, by itself.                                         *)
LEMMA SolvesAt ==
    ASSUME NEW s, NEW f, Solves(f, s)
    PROVE  \A n \in 0 .. Len(s) :
              f[n] = IF n = 0 THEN Embedded ELSE Carry(f[n - 1], s[n])
  <1> DEFINE g == [n \in 0 .. Len(s) |-> IF n = 0 THEN Embedded ELSE Carry(f[n - 1], s[n])]
  <1>1. \A n \in 0 .. Len(s) : g[n] = IF n = 0 THEN Embedded ELSE Carry(f[n - 1], s[n])
    OBVIOUS
  <1>2. f = g
    BY DEF Solves
  <1> HIDE DEF g
  <1> QED
    BY <1>1, <1>2

(* There is one such function at most, and it does not look ahead: at the    *)
(* first difference between two the commands before would differ.          *)
LEMMA SolvesOnce ==
    ASSUME NEW s \in Seq(Commands), NEW t \in Seq(Commands), NEW f, NEW g,
           Solves(f, s), Solves(g, t), NEW m \in Nat, m <= Len(s), m <= Len(t),
           \A k \in 1 .. m : s[k] = t[k]
    PROVE  \A n \in 0 .. m : f[n] = g[n]
  <1> DEFINE T == {n \in 1 .. m : f[n] # g[n]}
  <1>0. Len(s) \in Nat /\ Len(t) \in Nat
    BY LenProperties
  <1>1. f[0] = g[0]
    BY <1>0, SolvesAt
  <1>2. SUFFICES T = {}
    BY <1>1
  <1>3. SUFFICES ASSUME T # {} PROVE FALSE
    OBVIOUS
  <1>4. PICK x \in T : \A y \in T : x <= y
    BY <1>3, LeastExists
  <1>5. x \in 1 .. m /\ x - 1 \in 0 .. m /\ x - 1 \notin T
    BY <1>4
  <1>6. f[x - 1] = g[x - 1]
    BY <1>1, <1>5
  <1>7. f[x] = Carry(f[x - 1], s[x])
    <2>1. x \in 0 .. Len(s) /\ x # 0
      BY <1>0, <1>5
    <2> QED
      BY <2>1, SolvesAt
  <1>8. g[x] = Carry(g[x - 1], t[x])
    <2>1. x \in 0 .. Len(t) /\ x # 0
      BY <1>0, <1>5
    <2> QED
      BY <2>1, SolvesAt
  <1> QED
    BY <1>4, <1>5, <1>6, <1>7, <1>8

(* It is what Replay chooses.                                              *)
LEMMA ReplayIs ==
    ASSUME NEW s \in Seq(Commands), NEW f, Solves(f, s)
    PROVE  Replay(s) = f[Len(s)]
  <1> DEFINE g == CHOOSE g : g = [n \in 0 .. Len(s) |->
                                     IF n = 0 THEN Embedded ELSE Carry(g[n - 1], s[n])]
  <1>1. Solves(g, s)
    BY DEF Solves
  <1>2. Replay(s) = g[Len(s)]
    BY DEF Replay
  <1> HIDE DEF g
  <1>3. Len(s) \in Nat /\ Len(s) <= Len(s) /\ Len(s) \in 0 .. Len(s)
    BY LenProperties
  <1>4. \A n \in 0 .. Len(s) : f[n] = g[n]
    BY <1>1, <1>3, SolvesOnce
  <1> QED
    BY <1>2, <1>3, <1>4

(* Without a command the table is the embedded one.                        *)
LEMMA ReplayNothing == (\E f : Solves(f, <<>>)) /\ Replay(<<>>) = Embedded
  <1> DEFINE f == [n \in 0 .. 0 |-> Embedded]
  <1>1. Len(<<>>) = 0 /\ <<>> \in Seq(Commands)
    BY EmptySeq
  <1>2. Solves(f, <<>>)
    BY <1>1 DEF Solves
  <1>3. f[0] = Embedded
    OBVIOUS
  <1> HIDE DEF f
  <1> QED
    BY <1>1, <1>2, <1>3, ReplayIs

(* One more command is carried out on what the others have made of it.     *)
LEMMA ReplayOneMore ==
    ASSUME NEW s \in Seq(Commands), NEW c \in Commands, NEW f, Solves(f, s)
    PROVE  /\ \E g : Solves(g, Append(s, c))
           /\ Replay(Append(s, c)) = Carry(Replay(s), c)
  <1> DEFINE t == Append(s, c)
             last == Len(s) + 1
             g == [n \in 0 .. last |-> IF n = last THEN Carry(f[Len(s)], c) ELSE f[n]]
  <1>1. Len(s) \in Nat /\ t \in Seq(Commands) /\ Len(t) = last /\ t[last] = c
        /\ \A k \in 1 .. Len(s) : t[k] = s[k]
    BY AppendProperties, LenProperties
  <1> HIDE DEF t
  <1>2. \A n \in 0 .. Len(s) : g[n] = f[n]
    BY <1>1
  <1>3. g[last] = Carry(f[Len(s)], c)
    BY <1>1
  <1>4. ASSUME NEW n \in 0 .. Len(t)
        PROVE  g[n] = IF n = 0 THEN Embedded ELSE Carry(g[n - 1], t[n])
    <2>1. CASE n = last
      <3>1. n - 1 = Len(s) /\ n # 0 /\ n - 1 \in 0 .. Len(s) /\ t[n] = c
        BY <1>1, <2>1
      <3>2. g[n - 1] = f[Len(s)]
        BY <1>2, <3>1
      <3> QED
        BY <1>3, <2>1, <3>1, <3>2
    <2>2. CASE n = 0
      <3>1. 0 \in 0 .. Len(s)
        BY <1>1
      <3>2. f[0] = Embedded
        BY <3>1, SolvesAt
      <3> QED
        BY <1>2, <2>2, <3>1, <3>2
    <2>3. CASE n \in 1 .. Len(s)
      <3>1. n \in 0 .. Len(s) /\ n # 0 /\ n - 1 \in 0 .. Len(s)
        BY <1>1, <2>3
      <3>2. f[n] = Carry(f[n - 1], s[n])
        BY <3>1, SolvesAt
      <3> QED
        BY <1>1, <1>2, <2>3, <3>1, <3>2
    <2> QED
      BY <1>1, <2>1, <2>2, <2>3, SMTT(30)
  <1>5. Solves(g, t)
    <2> DEFINE h == [n \in 0 .. Len(t) |-> IF n = 0 THEN Embedded ELSE Carry(g[n - 1], t[n])]
    <2>1. DOMAIN g = 0 .. Len(t) /\ g = [n \in 0 .. Len(t) |-> g[n]]
      BY <1>1
    <2> HIDE DEF g
    <2>2. g = h
      BY <1>4, <2>1
    <2> QED
      BY <2>2 DEF Solves
  <1> HIDE DEF g
  <1>6. Replay(t) = g[last] /\ Replay(s) = f[Len(s)]
    BY <1>1, <1>5, ReplayIs
  <1> QED
    BY <1>3, <1>5, <1>6 DEF t

-----------------------------------------------------------------------------
(* A process is where its command takes it.                                *)
Chosen == \A q \in Procs : /\ pc[q] = "install" => cmd[q].do = "install"
                           /\ pc[q] \in {"remove", "rwrite"} => cmd[q].do = "remove"

(* Between the truncation and the write of a rewrite.                      *)
Halfway(q) == pc[q] \in {"pwrite", "rwrite"}

(* While no rewrite was overlapped or cut off: what the table is, and what   *)
(* those who are about to write know of it.  One that removes a plugin      *)
(* either has loaded the table as it still is, or met another rewrite       *)
(* halfway, in whose write it will be caught.                              *)
Tidy ==
    muddled \/
        /\ table # Garbled
        /\ table = Absent =>
               log = <<>> /\ \A q \in Procs : pc[q] \notin {"pread", "pwrite", "remove", "rwrite"}
        /\ table # Absent /\ (\A q \in Procs : ~Halfway(q)) => table = Replay(log)
        /\ \A q \in Procs :
             /\ pc[q] = "ptrunc" => table = Absent
             /\ pc[q] = "pwrite" => table = <<>> /\ log = <<>>
             /\ pc[q] = "rwrite" => table = <<>> /\ plugs[q] = Replay(log)
             /\ pc[q] = "remove" => plugs[q] = Replay(log) \/ \E r \in Procs : Halfway(r)

SInv == IInv /\ Chosen /\ Tidy /\ \E f : Solves(f, log)

(* At first nothing has been carried out.                                  *)
LEMMA SerialInit == Init => SInv
  <1> SUFFICES ASSUME Init PROVE SInv
    OBVIOUS
  <1>1. IInv
    BY ConfigInit
  <1>2. Chosen
    BY DEF Init, Chosen
  <1>3. Tidy
    <2>1. muddled \/ table \in {Absent, Embedded}
      BY DEF Init
    <2>2. Embedded \notin {Absent, Garbled} /\ Absent # Garbled
      BY FilesAssumption
    <2> QED
      BY <2>1, <2>2, ReplayNothing DEF Init, Tidy, Halfway
  <1>4. \E f : Solves(f, log)
    BY ReplayNothing DEF Init
  <1> QED
    BY <1>1, <1>2, <1>3, <1>4 DEF SInv

(* Where a command goes on is where Chosen has it.                         *)
LEMMA ChosenCommand ==
    ASSUME TypeOK, NEW p \in Procs
    PROVE  /\ Command(p) = "install" => cmd[p].do = "install"
           /\ Command(p) = "remove" => cmd[p].do = "remove"
  BY CommandsAssumption DEF TypeOK, Command

(* A step that leaves plugins.toml, the log and what is loaded: it may only  *)
(* begin to rewrite where there is no table.                               *)
LEMMA ElsewhereIsTidy ==
    ASSUME SInv, NEW p \in Procs, NEW from \in PCs, NEW to \in PCs, Goto(p, from, to),
           UNCHANGED <<table, log, plugs, muddled, cmd>>,
           from \notin {"pwrite", "rwrite"}, to \notin {"install", "pwrite", "remove", "rwrite"},
           to = "ptrunc" => table = Absent,
           to = "pread" => table # Absent
    PROVE  Chosen' /\ Tidy' /\ \E f : Solves(f, log)'
  <1>1. /\ pc[p] = from /\ pc'[p] = to
        /\ \A q \in Procs : q # p => pc'[q] = pc[q]
    BY GotoFacts DEF SInv, IInv
  <1>2. \A q \in Procs : Halfway(q)' <=> Halfway(q)
    BY <1>1 DEF Halfway
  <1>3. Chosen'
    BY <1>1 DEF SInv, Chosen
  <1>4. Tidy'
    BY <1>1, <1>2 DEF SInv, Tidy
  <1> QED
    BY <1>3, <1>4 DEF SInv

(* Before plugins.toml is read.                                            *)
LEMMA ConfigStepIsTidy ==
    ASSUME SInv, NEW p \in Procs,
           \/ Load(p) \/ LoadFromToml(p) \/ AskForConfirmation(p)
           \/ UpdateConfig(p) \/ Truncate(p) \/ loadFromBinary(p) \/ StatTable(p)
    PROVE  Chosen' /\ Tidy' /\ \E f : Solves(f, log)'
  <1>1. UNCHANGED <<table, log, plugs, muddled, cmd>>
    BY DEF Load, LoadFromToml, AskForConfirmation, UpdateConfig, Truncate, loadFromBinary,
           StatTable, files, loaded, history
  <1>2. \E from \in PCs \ {"pwrite", "rwrite"},
           to \in PCs \ {"install", "pwrite", "remove", "rwrite"} :
             /\ Goto(p, from, to)
             /\ to = "ptrunc" => table = Absent
             /\ to = "pread" => table # Absent
    <2>1. AfterConfig(p) \in {"stat", "pstat"}
      BY CommandFacts DEF SInv, IInv
    <2>2. CASE Load(p) \/ LoadFromToml(p) \/ AskForConfirmation(p)
      BY <2>1, <2>2 DEF Load, LoadFromToml, CheckVersion, AskForConfirmation, PCs
    <2>3. CASE UpdateConfig(p) \/ Truncate(p) \/ loadFromBinary(p)
      BY <2>1, <2>3 DEF UpdateConfig, Truncate, loadFromBinary, CheckVersion, PCs
    <2>4. CASE StatTable(p)
      BY <2>4 DEF StatTable, PCs
    <2> QED
      BY <2>2, <2>3, <2>4
  <1> QED
    BY <1>1, <1>2, ElsewhereIsTidy

(* What is loaded for a removal is the table as it is.                     *)
LEMMA LoadIsTidy ==
    ASSUME SInv, NEW p \in Procs, LoadTable(p)
    PROVE  Chosen' /\ Tidy' /\ \E f : Solves(f, log)'
  <1>1. PICK from \in {"pread", "pread2"}, to \in {"pstat2", "install", "remove", "serving"} :
           /\ Goto(p, from, to)
           /\ from = "pread" => to = Command(p)
           /\ from = "pread2" => to = "serving"
    BY CommandFacts DEF LoadTable, SInv, IInv
  <1>2. /\ plugs' = [plugs EXCEPT ![p] = DecodeFile(p)]
        /\ UNCHANGED <<table, log, muddled, cmd>>
    BY SMTT(30) DEF LoadTable, files, history
  <1>3. /\ pc[p] = from /\ pc'[p] = to
        /\ \A q \in Procs : q # p => pc'[q] = pc[q] /\ plugs'[q] = plugs[q]
        /\ plugs'[p] = DecodeFile(p)
    BY <1>1, <1>2, GotoFacts DEF SInv, IInv, TypeOK, PCs
  <1>4. \A q \in Procs : Halfway(q)' <=> Halfway(q)
    BY <1>1, <1>3 DEF Halfway
  <1>5. Chosen'
    BY <1>1, <1>2, <1>3, ChosenCommand DEF SInv, IInv, Chosen
  <1>6. ASSUME ~muddled, from = "pread" PROVE table # Absent /\ DecodeFile(p) = table
    <2>1. table \notin {Absent, Garbled} /\ plugs[p] = <<>>
      BY <1>3, <1>6 DEF SInv, IInv, Tidy, Loaded, Early
    <2>2. CASE table = <<>>
      BY <2>1, <2>2 DEF DecodeFile
    <2>3. CASE table # <<>>
      <3>1. table \in Seq(Own) /\ Len(table) \in Nat /\ Len(plugs[p]) = 0
            /\ plugs[p] \in Seq(Own)
        BY <2>1, EmptySeq, LenProperties DEF SInv, IInv, Loaded
      <3>2. Merge(plugs[p], table) = table
        BY <3>1, MergeIsOwn
      <3> QED
        BY <2>1, <2>3, <3>2 DEF DecodeFile
    <2> QED
      BY <2>1, <2>2, <2>3
  <1>7. Tidy'
    <2>1. CASE muddled
      BY <1>2, <2>1 DEF Tidy
    <2>2. ASSUME ~muddled, to = "remove"
          PROVE  plugs'[p] = Replay(log) \/ \E r \in Procs : Halfway(r)
      BY <1>1, <1>3, <1>6, <2>2 DEF SInv, Tidy
    <2>3. ASSUME ~muddled, table = Absent PROVE from # "pread"
      BY <1>6, <2>3
    <2>4. CASE ~muddled
      BY <1>1, <1>2, <1>3, <1>4, <2>2, <2>3, <2>4 DEF SInv, Tidy
    <2> QED
      BY <2>1, <2>4
  <1> QED
    BY <1>2, <1>5, <1>7 DEF SInv

(* A write that does not muddle meets nobody else at a rewrite.            *)
LEMMA Alone ==
    ASSUME NEW p \in Procs, Muddle(p), ~muddled'
    PROVE  ~muddled /\ \A q \in Procs : q # p => ~Rewriting(q)
  BY DEF Muddle

(* The rewrites: nobody else is at one, so that what is written is what     *)
(* Replay makes of the log.                                                *)
LEMMA RewriteIsTidy ==
    ASSUME SInv, NEW p \in Procs, TruncateTable(p) \/ WriteEmbedded(p) \/ DeletePlugin(p)
    PROVE  Chosen' /\ Tidy' /\ \E f : Solves(f, log)'
  <1> USE DEF SInv
  <1>e. <<>> # Absent /\ <<>> # Garbled /\ Len(<<>>) = 0
    BY FilesAssumption, EmptySeq
  <1>1. CASE TruncateTable(p)
    <2>1. PICK from \in {"ptrunc", "remove"}, to \in {"pwrite", "rwrite"} :
             Goto(p, from, to) /\ (from = "ptrunc" <=> to = "pwrite")
      BY <1>1 DEF TruncateTable
    <2>2. table' = <<>> /\ Muddle(p) /\ UNCHANGED <<cmd, plugs, log>>
      BY <1>1, SMTT(30) DEF TruncateTable, loaded
    <2>3. /\ pc[p] = from /\ pc'[p] = to
          /\ \A q \in Procs : q # p => pc'[q] = pc[q]
      BY <2>1, GotoFacts DEF IInv, PCs
    <2>4. Chosen'
      BY <2>1, <2>2, <2>3 DEF Chosen
    <2>5. ASSUME ~muddled' PROVE Tidy'
      <3>1. ~muddled /\ \A q \in Procs : q # p => ~Rewriting(q)
        BY <2>2, <2>5, Alone
      <3>2. Halfway(p)'
        BY <2>1, <2>3 DEF Halfway
      <3>3. from = "ptrunc" => log = <<>>
        BY <2>3, <3>1 DEF Tidy
      <3>4. from = "remove" => plugs[p] = Replay(log)
        BY <2>3, <3>1 DEF Tidy, Halfway, Rewriting
      <3> QED
        BY <1>e, <2>1, <2>2, <2>3, <3>1, <3>2, <3>3, <3>4 DEF Tidy, Rewriting
    <2> QED
      BY <2>2, <2>4, <2>5 DEF Tidy
  <1>2. CASE WriteEmbedded(p)
    <2>1. /\ Goto(p, "pwrite", Command(p)) /\ Muddle(p)
          /\ table' \in Over(Embedded, table)
          /\ plugs' = [plugs EXCEPT ![p] = Merge(plugs[p], Embedded)]
          /\ UNCHANGED <<cmd, log>>
      BY <1>2, SMTT(30) DEF WriteEmbedded
    <2>2. /\ pc[p] = "pwrite" /\ pc'[p] = Command(p)
          /\ \A q \in Procs : q # p => pc'[q] = pc[q] /\ plugs'[q] = plugs[q]
          /\ Command(p) \in {"pstat2", "install", "remove"}
      BY <2>1, GotoFacts, CommandFacts DEF IInv, TypeOK, PCs
    <2>3. Chosen'
      BY <2>1, <2>2, ChosenCommand DEF IInv, Chosen
    <2>4. ASSUME ~muddled' PROVE Tidy'
      <3>1. ~muddled /\ \A q \in Procs : q # p => ~Rewriting(q)
        BY <2>1, <2>4, Alone
      <3>2. table = <<>> /\ log = <<>> /\ Replay(log) = Embedded
        BY <2>2, <3>1, ReplayNothing DEF Tidy
      <3>3. Embedded \in Seq(Own) /\ Len(Embedded) \in Nat
        BY FirstTablesAreOwn, LenProperties
      <3>4. table' = Embedded
        BY <1>e, <2>1, <3>2, <3>3 DEF Over
      <3>5. plugs'[p] = Embedded
        <4>1. plugs[p] = <<>> /\ plugs[p] \in Seq(Own)
          BY <2>2, EmptySeq DEF IInv, Loaded, Early
        <4>2. Len(plugs[p]) <= Len(Embedded) /\ \A i \in 1 .. Len(plugs[p]) : Embedded[i] = plugs[p][i]
          <5>1. Len(plugs[p]) = 0
            BY <1>e, <4>1
          <5> QED
            BY <3>3, <5>1
        <4>3. Merge(plugs[p], Embedded) = Embedded
          BY <3>3, <4>1, <4>2, MergeIsOwn
        <4> QED
          BY <2>1, <4>3 DEF IInv, TypeOK
      <3>6. Embedded \notin {Absent, Garbled}
        BY FilesAssumption
      <3> QED
        BY <2>1, <2>2, <3>1, <3>2, <3>4, <3>5, <3>6 DEF Tidy, Rewriting
    <2> QED
      BY <2>1, <2>3, <2>4 DEF Tidy
  <1>3. CASE DeletePlugin(p)
    <2>1. /\ Goto(p, "rwrite", "done") /\ Muddle(p)
          /\ table' \in Over(Without(plugs[p], cmd[p].name), table)
          /\ log' = Append(log, cmd[p])
          /\ UNCHANGED <<cmd, plugs>>
      BY <1>3, SMTT(30) DEF DeletePlugin, loaded
    <2>2. /\ pc[p] = "rwrite" /\ pc'[p] = "done"
          /\ \A q \in Procs : q # p => pc'[q] = pc[q]
      BY <2>1, GotoFacts DEF IInv, PCs
    <2>3. Chosen'
      BY <2>1, <2>2 DEF Chosen
    <2>4. /\ \E f : Solves(f, log')
          /\ Replay(log') = Carry(Replay(log), cmd[p])
      <3>1. log \in Seq(Commands) /\ cmd[p] \in Commands
        BY DEF IInv, TypeOK
      <3> QED
        BY <2>1, <3>1, ReplayOneMore
    <2>5. ASSUME ~muddled' PROVE Tidy'
      <3>1. ~muddled /\ \A q \in Procs : q # p => ~Rewriting(q)
        BY <2>1, <2>5, Alone
      <3>2. table = <<>> /\ plugs[p] = Replay(log) /\ cmd[p].do = "remove"
        BY <2>2, <3>1 DEF Tidy, Chosen
      <3>3. Replay(log') = Without(plugs[p], cmd[p].name)
        BY <2>4, <3>2 DEF Carry
      <3>4. Without(plugs[p], cmd[p].name) \in Seq(Own)
        BY <2>2, WithoutFacts DEF IInv, Loaded
      <3>5. table' = Replay(log')
        <4>1. Len(Without(plugs[p], cmd[p].name)) \in Nat
          BY <3>4, LenProperties
        <4> QED
          BY <1>e, <2>1, <3>2, <3>3, <4>1 DEF Over
      <3>6. table' \notin {Absent, Garbled}
        BY <3>3, <3>4, <3>5, FilesAssumption, SeqMonotonic DEF Own
      <3> QED
        BY <2>1, <2>2, <3>1, <3>5, <3>6 DEF Tidy, Rewriting
    <2> QED
      BY <2>1, <2>3, <2>4, <2>5 DEF Tidy
  <1> QED
    BY <1>1, <1>2, <1>3

(* An installed plugin is appended to the table that Replay has made.      *)
LEMMA InstallIsTidy ==
    ASSUME SInv, NEW p \in Procs, InstallPlugin(p)
    PROVE  Chosen' /\ Tidy' /\ \E f : Solves(f, log)'
  <1> USE DEF SInv
  <1>1. /\ pc[p] = "install" /\ pc'[p] \in {"dead", "done"}
        /\ \A q \in Procs : q # p => pc'[q] = pc[q]
    BY GotoFacts DEF InstallPlugin, IInv, PCs
  <1>2. /\ IF table \in {Absent, Garbled} THEN UNCHANGED table
           ELSE table' = Append(table, [name |-> cmd[p].name, env |-> NoEnv])
        /\ log' = IF table = Absent THEN log ELSE Append(log, cmd[p])
        /\ Muddle(p) /\ UNCHANGED <<cmd, plugs>>
    BY DEF InstallPlugin, loaded
  <1>3. Chosen'
    BY <1>1, <1>2 DEF Chosen
  <1>4. log \in Seq(Commands) /\ cmd[p] \in Commands /\ cmd[p].do = "install"
    BY <1>1 DEF IInv, TypeOK, Chosen
  <1>5. /\ \E f : Solves(f, Append(log, cmd[p]))
        /\ Replay(Append(log, cmd[p])) = Carry(Replay(log), cmd[p])
    BY <1>4, ReplayOneMore
  <1>6. ASSUME ~muddled' PROVE Tidy'
    <2>1. ~muddled /\ \A q \in Procs : ~Rewriting(q)
      BY <1>1, <1>2, <1>6, Alone DEF Rewriting
    <2>2. CASE table = Absent
      BY <1>1, <1>2, <2>1, <2>2 DEF Tidy, Rewriting
    <2>3. CASE table # Absent
      <3>1. table = Replay(log) /\ table # Garbled
        BY <2>1, <2>3 DEF Tidy, Halfway, Rewriting
      <3>2. table' = Replay(log')
        BY <1>2, <1>4, <1>5, <2>3, <3>1 DEF Carry
      <3>3. table' \in Seq(Plugin)
        <4>1. table \in Seq(Plugin)
          BY <2>3, <3>1 DEF IInv, TypeOK
        <4>2. [name |-> cmd[p].name, env |-> NoEnv] \in Plugin
          BY CommandFacts DEF IInv, Plugin
        <4> QED
          BY <1>2, <2>3, <3>1, <4>1, <4>2, AppendProperties, SMTT(30)
      <3>4. table' \notin {Absent, Garbled}
        BY <3>3, FilesAssumption
      <3> QED
        BY <1>1, <2>1, <3>2, <3>4 DEF Tidy, Rewriting
    <2> QED
      BY <2>2, <2>3
  <1>7. \E f : Solves(f, log')
    BY <1>2, <1>5
  <1> QED
    BY <1>3, <1>6, <1>7, SMTT(30) DEF Tidy

(* A death leaves the files; one halfway muddles.                          *)
LEMMA DeathIsTidy ==
    ASSUME SInv, NEW p \in Procs, Die(p)
    PROVE  Chosen' /\ Tidy' /\ \E f : Solves(f, log)'
  <1>1. /\ pc' = [pc EXCEPT ![p] = "dead"]
        /\ muddled' = (muddled \/ pc[p] \in {"pwrite", "rwrite"})
        /\ UNCHANGED <<table, cmd, plugs, log>>
    BY DEF Die, files, loaded
  <1>2. pc'[p] = "dead" /\ \A q \in Procs : q # p => pc'[q] = pc[q]
    BY <1>1 DEF SInv, IInv, TypeOK
  <1>3. Chosen'
    BY <1>1, <1>2 DEF SInv, Chosen
  <1>4. ASSUME ~muddled' PROVE Tidy'
    <2>1. ~muddled /\ \A q \in Procs : Halfway(q)' <=> Halfway(q)
      BY <1>1, <1>2, <1>4 DEF Halfway
    <2> QED
      BY <1>1, <1>2, <2>1 DEF SInv, Tidy
  <1> QED
    BY <1>1, <1>3, <1>4 DEF SInv, Tidy

(* Every step keeps SInv.                                                  *)
LEMMA SerialNext == SInv /\ [Next]_vars => SInv'
  <1> SUFFICES ASSUME SInv, [Next]_vars PROVE SInv'
    OBVIOUS
  <1>1. IInv'
    BY ConfigNext DEF SInv
  <1>2. Chosen' /\ Tidy' /\ \E f : Solves(f, log)'
    <2>1. CASE UNCHANGED vars
      BY <2>1 DEF SInv, Chosen, Tidy, Halfway, Solves, vars, files, loaded, history
    <2>2. CASE Next
      BY <2>2, ConfigStepIsTidy, LoadIsTidy, RewriteIsTidy, InstallIsTidy, DeathIsTidy DEF Next
    <2> QED
      BY <2>1, <2>2
  <1> QED
    BY <1>1, <1>2 DEF SInv

(* Commands that install and remove plugins, each by a read of the table    *)
(* and a later write of all of it, come to what they would one after the    *)
(* other, unless a rewrite was overlapped by a write or cut off            *)
(* (InstallPlugin and DeletePlugin, src/plugins/plugins.go).               *)
THEOREM CommandsAreSerial == Spec => []Serial
  <1>1. SInv => Serial
    BY DEF SInv, Tidy, Serial, Halfway, Rewriting
  <1> QED
    BY <1>1, SerialInit, SerialNext, PTL DEF Spec
=============================================================================
