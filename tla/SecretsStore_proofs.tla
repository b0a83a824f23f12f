------------------------ MODULE SecretsStore_proofs ------------------------
(***************************************************************************)
(* Machine-checked proofs, for all posts, keys, values and faults, of the   *)
(* safety properties of SecretsStore and of its refinement of              *)
(* CredentialStore.  The inductive invariant IInv adds to the properties   *)
(* who holds the lock (LockHeld), that a Set at work has changed one key    *)
(* of memory and no more than that sets memory apart from the file         *)
(* (OneKeyAhead), that memory holds of every other key what the callers of *)
(* Set can account for, as it is the next Set of any key that writes it to *)
(* the file (MemoryTold), and what an engine may rely on between its two    *)
(* Gets (StillThere).                                                      *)
(***************************************************************************)
EXTENDS SecretsStore, TLAPS

-----------------------------------------------------------------------------
InSet == {"create", "write", "rename"}

(* The lock is held by the one post that is inside Set, of a live process. *)
LockHeld == /\ \A p \in Posts : pc[p] \in InSet <=> mu = p
            /\ mu # NoPost => up
            /\ ~up => \A p \in Posts : pc[p] # "apply"

(* What memory may hold of a key that is saved.                            *)
Saved(k) == vals[k] \in {file[k], Trim[file[k]]}

(* A Set at work differs from the memory it found, and from the file in     *)
(* what was saved, in its own key alone; without one, memory is the file.  *)
OneKeyAhead ==
    /\ mu # NoPost => /\ vals = [prev EXCEPT ![cur[mu]] = vals[cur[mu]]]
                      /\ \A k \in Keys \ (unsaved \cup {cur[mu]}) : Saved(k)
    /\ up /\ mu = NoPost => \A k \in Keys \ unsaved : Saved(k)
    /\ ~up => vals = Empty

(* What the next Set writes to the file, but for its own key: acknowledged, *)
(* or left in memory by a Set that failed or a start that stopped short.   *)
MemoryTold == up => \A k \in Keys : Told(k, vals[k]) \/ (mu # NoPost /\ k = cur[mu])

(* An engine that has been told that there is a credential still finds it,  *)
(* or it has been cleared since.                                           *)
StillThere ==
    \A r \in Readers :
        rpc[r] = "use" => vals[Env[r]] # "" \/ Environ[Env[r]] # "" \/ cleared[r]

IInv == /\ TypeOK
        /\ LockHeld
        /\ OneKeyAhead
        /\ MemoryTold
        /\ StillThere
        /\ DiskHoldsAcked
        /\ EmptyOnlyIfCleared

USE DEF Tables

-----------------------------------------------------------------------------
(* Trimming keeps the values and is done once.                             *)
LEMMA TrimFacts ==
    /\ \A v \in Values \cup {""} : Trim[v] \in Values \cup {""} /\ Trim[Trim[v]] = Trim[v]
    /\ \A t \in Tables, read \in SUBSET Keys : Load(t, read) \in Tables
    /\ Reads \subseteq SUBSET Keys
    /\ Empty \in Tables
  <1>1. \A v \in Values \cup {""} : Trim[v] \in Values \cup {""} /\ Trim[Trim[v]] = Trim[v]
    BY ValuesAssumption
  <1>2. \A t \in Tables, read \in SUBSET Keys : Load(t, read) \in Tables
    BY <1>1 DEF Load
  <1>3. Reads \subseteq SUBSET Keys
    BY PrefixesAssumption DEF Reads
  <1> QED
    BY <1>1, <1>2, <1>3 DEF Empty

(* The first start.                                                        *)
LEMMA StoreInit == Init => IInv
  <1> SUFFICES ASSUME Init PROVE IInv
    OBVIOUS
  <1>0. PICK read \in SUBSET Keys :
            /\ vals = Load(file, read)
            /\ failed = [k \in Keys |-> IF k \in read THEN {} ELSE {""}]
            /\ unsaved = Keys \ read
    BY TrimFacts DEF Init
  <1>1. file \in Tables /\ vals \in Tables /\ failed \in [Keys -> SUBSET (Values \cup {""})]
    BY <1>0, TrimFacts, TablesAssumption DEF Init
  <1>2. \A p \in Posts : cur[p] \in Keys
    BY KeysAssumption DEF Init
  <1>3. todo \in [Posts -> Bodies]
    <2>1. [k \in {} |-> ""] \in [{} -> Values \cup {""}]
      OBVIOUS
    <2>2. [k \in {} |-> ""] \in Bodies
      BY <2>1 DEF Bodies
    <2> QED
      BY <2>2 DEF Init
  <1>4. TypeOK
    BY <1>0, <1>1, <1>2, <1>3, TrimFacts, ZenonT(60) DEF Init, TypeOK, PCs, RPCs, Answers
  <1>5. LockHeld
    BY NoPostAssumption DEF Init, LockHeld, InSet
  <1>6. OneKeyAhead
    BY <1>0 DEF Init, OneKeyAhead, Saved, Load
  <1>7. StillThere /\ DiskHoldsAcked /\ EmptyOnlyIfCleared
    BY DEF Init, StillThere, DiskHoldsAcked, Told, EmptyOnlyIfCleared
  <1>8. MemoryTold
    <2>1. \A k \in read : vals[k] = Trim[acked[k]] /\ Trim[vals[k]] = Trim[acked[k]]
      BY <1>0, <1>1, TrimFacts DEF Init, Load
    <2>2. \A k \in Keys \ read : vals[k] = "" /\ "" \in failed[k]
      BY <1>0 DEF Load
    <2> QED
      BY <2>1, <2>2 DEF MemoryTold, Told
  <1> QED
    BY <1>4, <1>5, <1>6, <1>7, <1>8 DEF IInv

-----------------------------------------------------------------------------
(* What the step of one handler does to the types of its control state.     *)
LEMMA GotoFacts ==
    ASSUME TypeOK, NEW p \in Posts, NEW from \in PCs, NEW to \in PCs, Goto(p, from, to)
    PROVE  /\ up /\ pc[p] = from /\ pc'[p] = to /\ pc' \in [Posts -> PCs]
           /\ \A q \in Posts : q # p => pc'[q] = pc[q]
  BY DEF Goto, TypeOK

(* Steps of a handler outside Set, which leave the store alone.            *)
LEMMA OutsideSetKeeps ==
    ASSUME IInv, NEW p \in Posts,
           \/ Refuse(p) \/ Finish(p)
           \/ \E payload \in Payloads : Accept(p, payload)
           \/ \E k \in DOMAIN todo[p] : Stop(p, k)
    PROVE  IInv'
  <1> USE DEF IInv
  <1>1. /\ UNCHANGED <<up, vals, file, tmps, mu, cur, readers, prev, told>>
        /\ \/ \E from \in {"idle", "apply"} : Goto(p, from, "done") /\ UNCHANGED todo
           \/ Goto(p, "idle", "apply")
                /\ \E payload \in Payloads : todo' = [todo EXCEPT ![p] = payload]
    BY DEF Refuse, Finish, Accept, Stop
  <1>2. answer' \in [Posts -> Answers]
    <2>1. CASE \E payload \in Payloads : Accept(p, payload)
      BY <2>1 DEF Accept, TypeOK
    <2>2. CASE Refuse(p) \/ Finish(p) \/ \E k \in DOMAIN todo[p] : Stop(p, k)
      <3>1. \E code \in {200, 400, 401} : Reply(p, code)
        BY <2>2 DEF Refuse, Finish, Stop
      <3>2. PICK code \in {200, 400, 401} : Reply(p, code)
        BY <3>1
      <3>3. code \in Answers /\ answer \in [Posts -> Answers]
        BY ZenonT(60) DEF Answers, TypeOK
      <3> QED
        BY <3>2, <3>3 DEF Reply
    <2> QED
      BY <2>1, <2>2
  <1>3. /\ up /\ pc[p] \in {"idle", "apply"} /\ pc'[p] \in {"apply", "done"}
        /\ pc' \in [Posts -> PCs]
        /\ \A q \in Posts : q # p => pc'[q] = pc[q]
    BY <1>1, GotoFacts DEF PCs
  <1>4. todo' \in [Posts -> Bodies]
    BY <1>1, TablesAssumption, ZenonT(60) DEF TypeOK, Bodies
  <1>5. TypeOK'
    BY <1>1, <1>2, <1>3, <1>4 DEF TypeOK, readers, told
  <1>6. LockHeld'
    BY <1>1, <1>3 DEF LockHeld, InSet
  <1>7. OneKeyAhead'
    BY <1>1 DEF OneKeyAhead, Saved, Empty, told
  <1>8. StillThere' /\ MemoryTold' /\ DiskHoldsAcked' /\ EmptyOnlyIfCleared'
    BY <1>1 DEF StillThere, MemoryTold, DiskHoldsAcked, Told, EmptyOnlyIfCleared, readers, told
  <1> QED
    BY <1>5, <1>6, <1>7, <1>8

(* Set takes the lock: memory is ahead of the file in its key.             *)
LEMMA SetInMemoryKeeps ==
    ASSUME IInv, NEW p \in Posts, NEW k \in DOMAIN todo[p], SetInMemory(p, k)
    PROVE  IInv'
  <1> USE DEF IInv
  <1>0. todo[p] \in Bodies
    BY DEF TypeOK
  <1>1. PICK S \in SUBSET Keys : todo[p] \in [S -> Values \cup {""}]
    BY <1>0 DEF Bodies
  <1>2. k \in Keys /\ todo[p][k] \in Values \cup {""}
    BY <1>1
  <1>3. Goto(p, "apply", "create") /\ mu = NoPost
    BY DEF SetInMemory
  <1>4. /\ mu' = p
        /\ vals' = [vals EXCEPT ![k] = todo[p][k]]
        /\ prev' = vals
        /\ cur' = [cur EXCEPT ![p] = k]
    BY DEF SetInMemory
  <1>5. /\ todo' = [todo EXCEPT ![p] = [j \in DOMAIN todo[p] \ {k} |-> todo[p][j]]]
        /\ cleared' = [r \in Readers |-> cleared[r] \/ (Env[r] = k /\ vals'[k] = "")]
        /\ UNCHANGED <<up, file, tmps, answer, rpc, handed, told>>
    BY DEF SetInMemory
  <1>6. /\ up /\ pc[p] = "apply" /\ pc'[p] = "create" /\ pc' \in [Posts -> PCs]
        /\ \A q \in Posts : q # p => pc'[q] = pc[q]
    BY <1>3, GotoFacts DEF PCs
  <1>7. todo' \in [Posts -> Bodies]
    <2>1. [j \in DOMAIN todo[p] \ {k} |-> todo[p][j]] \in [S \ {k} -> Values \cup {""}]
      BY <1>1
    <2>2. [j \in DOMAIN todo[p] \ {k} |-> todo[p][j]] \in Bodies
      BY <2>1 DEF Bodies
    <2> QED
      BY <1>5, <2>2 DEF TypeOK
  <1>8. TypeOK'
    <2>1. vals' \in Tables /\ prev' \in Tables /\ cur' \in [Posts -> Keys]
      BY <1>2, <1>4 DEF TypeOK
    <2>2. cleared' \in [Readers -> BOOLEAN]
      BY <1>5 DEF TypeOK
    <2> QED
      BY <1>4, <1>5, <1>6, <1>7, <2>1, <2>2 DEF TypeOK, told
  <1>9. LockHeld'
    BY <1>3, <1>4, <1>5, <1>6, NoPostAssumption DEF LockHeld, InSet
  <1>10. OneKeyAhead'
    <2>1. mu' # NoPost /\ up' /\ cur'[p] = k
      BY <1>4, <1>5, <1>6, NoPostAssumption DEF TypeOK
    <2>2. vals' = [prev' EXCEPT ![k] = vals'[k]]
      BY <1>2, <1>4 DEF TypeOK
    <2>3. \A j \in Keys \ (unsaved \cup {k}) : Saved(j)'
      BY <1>3, <1>4, <1>5, <1>6 DEF OneKeyAhead, Saved, TypeOK, told
    <2> QED
      BY <1>4, <1>5, <2>1, <2>2, <2>3 DEF OneKeyAhead, told
  <1>11. StillThere'
    BY <1>2, <1>4, <1>5, KeysAssumption DEF StillThere, TypeOK
  <1>12. DiskHoldsAcked' /\ EmptyOnlyIfCleared'
    BY <1>5 DEF DiskHoldsAcked, Told, EmptyOnlyIfCleared, told
  <1>13. MemoryTold'
    <2>1. mu' # NoPost /\ cur'[mu'] = k
      BY <1>4, NoPostAssumption DEF TypeOK
    <2>2. \A j \in Keys : Told(j, vals[j])
      BY <1>3, <1>6 DEF MemoryTold
    <2>3. \A j \in Keys \ {k} : Told(j, vals[j])'
      BY <1>4, <1>5, <2>2 DEF Told, TypeOK, told
    <2> QED
      BY <2>1, <2>3 DEF MemoryTold
  <1> QED
    BY <1>8, <1>9, <1>10, <1>11, <1>12, <1>13

(* persistLocked goes on to its next step, with or without its temporary   *)
(* file.                                                                   *)
LEMMA PersistMoves ==
    ASSUME IInv, NEW p \in Posts, NEW from \in InSet, NEW to \in InSet,
           Goto(p, from, to), tmps' \in {tmps, tmps \cup {p}},
           UNCHANGED <<up, vals, file, mu, todo, cur, answer, readers, prev, told>>
    PROVE  IInv'
  <1> USE DEF IInv
  <1>1. /\ up /\ pc[p] = from /\ pc'[p] = to /\ pc' \in [Posts -> PCs]
        /\ \A q \in Posts : q # p => pc'[q] = pc[q]
    BY GotoFacts DEF PCs, InSet
  <1>2. TypeOK'
    BY <1>1 DEF TypeOK, readers, told
  <1>3. LockHeld'
    BY <1>1 DEF LockHeld, InSet
  <1>4. OneKeyAhead' /\ StillThere' /\ EmptyOnlyIfCleared'
    BY DEF OneKeyAhead, Saved, Empty, StillThere, EmptyOnlyIfCleared, readers, told
  <1>5. MemoryTold' /\ DiskHoldsAcked'
    BY DEF MemoryTold, DiskHoldsAcked, Told, told
  <1> QED
    BY <1>2, <1>3, <1>4, <1>5

(* persistLocked fails: the key of the Set is unsaved from now on.         *)
LEMMA PersistFailsKeeps ==
    ASSUME IInv, NEW p \in Posts, NEW from \in InSet, NEW fault,
           NEW left \in {tmps, tmps \ {p}}, PersistFails(p, from, fault, left)
    PROVE  IInv'
  <1> USE DEF IInv
  <1>1. /\ Goto(p, from, "done") /\ mu' = NoPost /\ prev' = Empty /\ tmps' = left
        /\ answer' = [answer EXCEPT ![p] = 400]
        /\ failed' = [failed EXCEPT ![cur[p]] = @ \cup {vals[cur[p]]}]
        /\ unsaved' = unsaved \cup {cur[p]}
        /\ UNCHANGED <<up, vals, file, todo, cur, readers, acked>>
    BY DEF PersistFails, Unlock, Reply, Disown
  <1>2. /\ up /\ pc[p] = from /\ pc'[p] = "done" /\ pc' \in [Posts -> PCs]
        /\ \A q \in Posts : q # p => pc'[q] = pc[q]
    BY <1>1, GotoFacts DEF PCs, InSet
  <1>3. mu = p
    BY <1>2 DEF LockHeld
  <1>4. TypeOK'
    <2>1. answer' \in [Posts -> Answers]
      BY <1>1, ZenonT(60) DEF TypeOK, Answers
    <2>2. tmps' \subseteq Posts /\ unsaved' \subseteq Keys
      BY <1>1 DEF TypeOK
    <2>3. failed' \in [Keys -> SUBSET (Values \cup {""})]
      <3>1. cur[p] \in Keys /\ vals[cur[p]] \in Values \cup {""}
        BY DEF TypeOK
      <3>2. failed[cur[p]] \cup {vals[cur[p]]} \in SUBSET (Values \cup {""})
        BY <3>1 DEF TypeOK
      <3> QED
        BY <1>1, <3>2 DEF TypeOK
    <2>4. prev' \in Tables /\ mu' \in Posts \cup {NoPost} /\ pc' \in [Posts -> PCs]
      BY <1>1, <1>2, TrimFacts
    <2> QED
      BY <1>1, <2>1, <2>2, <2>3, <2>4, ZenonT(30) DEF TypeOK, readers
  <1>5. LockHeld'
    BY <1>1, <1>2, <1>3, NoPostAssumption DEF LockHeld, InSet
  <1>6. OneKeyAhead'
    BY <1>1, <1>2, <1>3, NoPostAssumption DEF OneKeyAhead, Saved
  <1>7. StillThere' /\ EmptyOnlyIfCleared'
    BY <1>1 DEF StillThere, EmptyOnlyIfCleared, readers
  <1>8. \A k \in Keys : failed[k] \subseteq failed'[k]
    BY <1>1 DEF TypeOK
  <1>9. DiskHoldsAcked'
    BY <1>1, <1>8 DEF DiskHoldsAcked, Told
  <1>10. MemoryTold'
    <2>1. cur[p] \in Keys /\ vals[cur[p]] \in failed'[cur[p]]
      BY <1>1 DEF TypeOK
    <2>2. \A k \in Keys \ {cur[p]} : Told(k, vals[k])
      BY <1>2, <1>3 DEF MemoryTold
    <2> QED
      BY <1>1, <1>8, <2>1, <2>2 DEF MemoryTold, Told
  <1> QED
    BY <1>4, <1>5, <1>6, <1>7, <1>9, <1>10

(* The file is renamed: it holds all of memory, and with it what a failed   *)
(* Set had left there.                                                     *)
LEMMA RenameKeeps ==
    ASSUME IInv, NEW p \in Posts, Goto(p, "rename", "apply"),
           file' = vals, tmps' = tmps \ {p}, Unlock, Acknowledge(p),
           UNCHANGED <<up, vals, todo, cur, answer, readers>>
    PROVE  IInv'
  <1> USE DEF IInv
  <1>1. /\ up /\ pc[p] = "rename" /\ pc'[p] = "apply" /\ pc' \in [Posts -> PCs]
        /\ \A q \in Posts : q # p => pc'[q] = pc[q]
    BY GotoFacts DEF PCs
  <1>2. mu = p /\ mu' = NoPost /\ prev' = Empty /\ unsaved' = {}
    BY <1>1 DEF LockHeld, InSet, Unlock, Acknowledge
  <1>3. /\ acked' = [acked EXCEPT ![cur[p]] = vals[cur[p]]]
        /\ failed' = [failed EXCEPT ![cur[p]] = {}]
    BY DEF Acknowledge
  <1>4. TypeOK'
    <2>1. acked' \in Tables /\ failed' \in [Keys -> SUBSET (Values \cup {""})]
      BY <1>3 DEF TypeOK
    <2> QED
      BY <1>1, <1>2, <2>1, TrimFacts DEF TypeOK, readers
  <1>5. LockHeld'
    BY <1>1, <1>2, NoPostAssumption DEF LockHeld, InSet
  <1>6. OneKeyAhead'
    BY <1>1, <1>2 DEF OneKeyAhead, Saved
  <1>7. DiskHoldsAcked' /\ MemoryTold'
    <2>1. \A k \in Keys : (Trim[vals[k]] = Trim[acked'[k]]
                            \/ \E f \in failed'[k] : Trim[vals[k]] = Trim[f])
      <3> SUFFICES ASSUME NEW k \in Keys
                   PROVE  Trim[vals[k]] = Trim[acked'[k]]
                            \/ \E f \in failed'[k] : Trim[vals[k]] = Trim[f]
        OBVIOUS
      <3>1. CASE k = cur[p]
        BY <1>3, <3>1 DEF TypeOK
      <3>2. CASE k # cur[p]
        <4>1. acked'[k] = acked[k] /\ failed'[k] = failed[k]
          BY <1>3, <3>2 DEF TypeOK
        <4>2. Told(k, vals[k])
          BY <1>1, <1>2, <3>2 DEF MemoryTold
        <4> QED
          BY <4>1, <4>2 DEF Told
      <3> QED
        BY <3>1, <3>2
    <2> QED
      BY <2>1 DEF DiskHoldsAcked, MemoryTold, Told
  <1>8. StillThere' /\ EmptyOnlyIfCleared'
    BY DEF StillThere, EmptyOnlyIfCleared, readers
  <1> QED
    BY <1>4, <1>5, <1>6, <1>7, <1>8

(* Every step of a handler.                                                *)
LEMMA HandlerKeeps ==
    ASSUME IInv, NEW p \in Posts,
           \/ Refuse(p)
           \/ \E payload \in Payloads : Accept(p, payload)
           \/ HandlerStep(p)
    PROVE  IInv'
  <1>1. CASE \/ Refuse(p) \/ Finish(p)
             \/ \E payload \in Payloads : Accept(p, payload)
    BY <1>1, OutsideSetKeeps
  <1>2. ASSUME NEW k \in DOMAIN todo[p], Stop(p, k) \/ SetInMemory(p, k)
        PROVE  IInv'
    BY <1>2, OutsideSetKeeps, SetInMemoryKeeps
  <1>3. CASE CreateTemp(p)
    BY <1>3, PersistMoves, PersistFailsKeeps DEF CreateTemp, InSet
  <1>4. CASE WriteTemp(p)
    BY <1>4, PersistMoves, PersistFailsKeeps DEF WriteTemp, InSet
  <1>5. CASE Rename(p)
    BY <1>5, RenameKeeps, PersistFailsKeeps DEF Rename, InSet
  <1> QED
    BY <1>1, <1>2, <1>3, <1>4, <1>5 DEF HandlerStep

-----------------------------------------------------------------------------
(* The two Gets of getPluginEnv.                                           *)
LEMMA ReaderKeeps ==
    ASSUME IInv, NEW r \in Readers, Ask(r) \/ Hand(r)
    PROVE  IInv'
  <1> USE DEF IInv
  <1>1. /\ UNCHANGED <<up, vals, file, tmps, mu, pc, todo, cur, answer, prev, told>>
        /\ Get(Env[r]) \in Values \cup {""}
    BY KeysAssumption, TablesAssumption DEF Ask, Hand, Get, TypeOK
  <1>2. /\ Get(Env[r]) # "" <=> vals[Env[r]] # "" \/ Environ[Env[r]] # ""
        /\ \/ /\ rpc' = [rpc EXCEPT ![r] = IF Get(Env[r]) # "" THEN "use" ELSE "done"]
              /\ cleared' = [cleared EXCEPT ![r] = FALSE]
              /\ handed' = handed
           \/ /\ rpc[r] = "use"
              /\ rpc' = [rpc EXCEPT ![r] = "handed"]
              /\ handed' = [handed EXCEPT ![r] = Get(Env[r])]
              /\ cleared' = cleared
    BY DEF Ask, Hand, ReaderStep, Get
  <1>3. TypeOK'
    BY <1>1, <1>2, ZenonT(60) DEF TypeOK, RPCs, told
  <1>4. LockHeld' /\ OneKeyAhead' /\ MemoryTold' /\ DiskHoldsAcked'
    BY <1>1 DEF LockHeld, OneKeyAhead, Saved, Empty, MemoryTold, DiskHoldsAcked, Told, told
  <1>5. StillThere' /\ EmptyOnlyIfCleared'
    BY <1>1, <1>2, ZenonT(60) DEF StillThere, EmptyOnlyIfCleared, TypeOK
  <1> QED
    BY <1>3, <1>4, <1>5

(* The death of the process and the next start.                            *)
LEMMA RestartKeeps ==
    ASSUME IInv, Crash \/ Restart
    PROVE  IInv'
  <1> USE DEF IInv
  <1>1. CASE Crash
    <2>1. /\ up' = FALSE /\ vals' = Empty /\ mu' = NoPost /\ prev' = Empty
          /\ pc' = [p \in Posts |-> IF pc[p] \in {"idle", "done"} THEN pc[p] ELSE "lost"]
          /\ rpc' = [r \in Readers |-> IF rpc[r] = "use" THEN "lost" ELSE rpc[r]]
          /\ failed' = [k \in Keys |-> {f \in failed[k] : Trim[f] = Trim[file[k]]}]
          /\ UNCHANGED <<file, tmps, todo, cur, answer, handed, cleared, acked, unsaved>>
      BY <1>1 DEF Crash, Unlock
    <2>2. TypeOK'
      <3>1. failed' \in [Keys -> SUBSET (Values \cup {""})]
        BY <2>1 DEF TypeOK
      <3> QED
        BY <2>1, <3>1, TrimFacts DEF TypeOK, PCs, RPCs
    <2>3. LockHeld' /\ OneKeyAhead' /\ MemoryTold'
      BY <2>1, NoPostAssumption DEF LockHeld, OneKeyAhead, MemoryTold, Empty, InSet, TypeOK
    <2>4. StillThere' /\ EmptyOnlyIfCleared'
      BY <2>1 DEF StillThere, EmptyOnlyIfCleared, TypeOK
    <2>5. DiskHoldsAcked'
      BY <2>1 DEF DiskHoldsAcked, Told
    <2> QED
      BY <2>2, <2>3, <2>4, <2>5
  <1>2. CASE Restart
    <2>1. PICK read \in SUBSET Keys :
             /\ vals' = Load(file, read)
             /\ failed' = [k \in Keys |-> IF k \in read THEN failed[k]
                                           ELSE failed[k] \cup {""}]
             /\ unsaved' = Keys \ read
      BY <1>2, TrimFacts DEF Restart
    <2>2. /\ ~up /\ up' = TRUE /\ mu = NoPost
          /\ UNCHANGED <<file, tmps, mu, pc, todo, cur, answer, readers, prev, acked>>
      BY <1>2 DEF Restart, LockHeld
    <2>3. \A k \in Keys : failed[k] \subseteq failed'[k]
      BY <2>1
    <2>4. TypeOK'
      <3>1. failed' \in [Keys -> SUBSET (Values \cup {""})]
        BY <2>1 DEF TypeOK
      <3>2. vals' \in Tables
        BY <2>1, TrimFacts DEF TypeOK
      <3> QED
        BY <2>1, <2>2, <3>1, <3>2 DEF TypeOK, readers
    <2>5. LockHeld' /\ OneKeyAhead'
      BY <2>1, <2>2 DEF LockHeld, OneKeyAhead, Saved, Load, InSet
    <2>6. StillThere'
      <3>1. \A r \in Readers : vals[Env[r]] = ""
        BY <2>2, KeysAssumption DEF OneKeyAhead, Empty
      <3> QED
        <4>1. \A r \in Readers : rpc[r] = "use" => Environ[Env[r]] # "" \/ cleared[r]
          BY <3>1 DEF StillThere
        <4> QED
          BY <2>2, <4>1 DEF StillThere, readers
    <2>7. DiskHoldsAcked' /\ EmptyOnlyIfCleared'
      BY <2>2, <2>3 DEF DiskHoldsAcked, Told, EmptyOnlyIfCleared, readers
    <2>8. MemoryTold'
      <3> SUFFICES ASSUME NEW k \in Keys
                   PROVE  Trim[vals'[k]] = Trim[acked[k]]
                            \/ \E f \in failed'[k] : Trim[vals'[k]] = Trim[f]
        BY <2>2 DEF MemoryTold, Told
      <3>1. CASE k \in read
        <4>1. Trim[vals'[k]] = Trim[file[k]]
          BY <2>1, <3>1, TrimFacts DEF Load, TypeOK
        <4> QED
          BY <2>3, <4>1 DEF DiskHoldsAcked, Told
      <3>2. CASE k \notin read
        <4>1. vals'[k] = "" /\ "" \in failed'[k]
          BY <2>1, <3>2 DEF Load
        <4> QED
          BY <4>1
      <3> QED
        BY <3>1, <3>2
    <2> QED
      BY <2>4, <2>5, <2>6, <2>7, <2>8
  <1> QED
    BY <1>1, <1>2

-----------------------------------------------------------------------------
(* IInv is inductive.                                                      *)
LEMMA StoreStep == IInv /\ [Next]_vars => IInv'
  <1> SUFFICES ASSUME IInv, [Next]_vars PROVE IInv'
    OBVIOUS
  <1>1. ASSUME NEW p \in Posts,
               \/ Refuse(p)
               \/ \E payload \in Payloads : Accept(p, payload)
               \/ HandlerStep(p)
        PROVE  IInv'
    BY <1>1, HandlerKeeps
  <1>2. ASSUME NEW r \in Readers, Ask(r) \/ Hand(r)
        PROVE  IInv'
    BY <1>2, ReaderKeeps
  <1>3. CASE Crash \/ Restart
    BY <1>3, RestartKeeps
  <1>4. CASE UNCHANGED vars
    BY <1>4 DEF vars, readers, IInv, TypeOK, LockHeld, OneKeyAhead, Saved, Empty, MemoryTold,
                StillThere, DiskHoldsAcked, Told, EmptyOnlyIfCleared
  <1> QED
    BY <1>1, <1>2, <1>3, <1>4 DEF Next

(* Every reachable state of every instance satisfies IInv.                 *)
THEOREM StoreInvariant == Spec => []IInv
  <1> QED
    BY StoreInit, StoreStep, PTL DEF Spec

(* The variables keep their types, under any payloads and failures.        *)
THEOREM StoreTypeCorrect == Spec => []TypeOK
  <1>1. IInv => TypeOK
    BY DEF IInv
  <1> QED
    BY <1>1, StoreInvariant, PTL

(* Outside Set, memory is the file, up to the trimming of a line, in every  *)
(* key that the start read and whose last Set did not fail: whatever posts *)
(* run at once, whichever step of persistLocked fails, and wherever the    *)
(* process dies.                                                           *)
THEOREM MemoryMirrorsFile == Spec => []MirrorsUnlessUnsaved
  <1>1. IInv => MirrorsUnlessUnsaved
    BY DEF IInv, OneKeyAhead, Saved, MirrorsUnlessUnsaved
  <1> QED
    BY <1>1, StoreInvariant, PTL

(* The file holds, of each key, the value of the last Set that returned     *)
(* nil, or one that a later Set of that key left in memory when it failed, *)
(* or nothing if a later start stopped before its line: never a value that *)
(* nobody set, an older one, or one of another key.                        *)
THEOREM FileHoldsAcknowledged == Spec => []DiskHoldsAcked
  <1>1. IInv => DiskHoldsAcked
    BY DEF IInv
  <1> QED
    BY <1>1, StoreInvariant, PTL

(* getPluginEnv hands out an empty credential only if a POST cleared it      *)
(* between its two Gets.                                                   *)
THEOREM NoEmptyCredential == Spec => []EmptyOnlyIfCleared
  <1>1. IInv => EmptyOnlyIfCleared
    BY DEF IInv
  <1> QED
    BY <1>1, StoreInvariant, PTL

-----------------------------------------------------------------------------
(* The initial states are initial states of the abstract store.            *)
LEMMA RefinesInit == Init => Store!Init
  <1> SUFFICES ASSUME Init PROVE Store!Init
    OBVIOUS
  <1>1. /\ mu = NoPost /\ file \in Files
        /\ \E read \in Prefixes \cup {Keys} : vals = Load(file, read)
    BY DEF Init, Reads
  <1> QED
    BY <1>1, TablesAssumption DEF Store!Init, Store!Tables

(* What an abstract observer sees as memory.                               *)
Mem == IF mu = NoPost THEN vals ELSE prev

(* A Set that ends changes its key of the abstract memory, and the abstract *)
(* disk with it if it ends well.                                           *)
LEMMA SetEnds ==
    ASSUME IInv, NEW p \in Posts, mu = p, mu' = NoPost, vals' = vals,
           file' \in {file, vals}
    PROVE  \E k \in Keys, v \in Values \cup {""} : Store!Set(k, v) \/ Store!SetUnsaved(k, v)
  <1>1. Mem = prev /\ Mem' = vals
    BY NoPostAssumption DEF Mem
  <1>2. cur[p] \in Keys /\ vals[cur[p]] \in Values \cup {""}
    BY DEF IInv, TypeOK
  <1>3. vals = [prev EXCEPT ![cur[p]] = vals[cur[p]]]
    BY NoPostAssumption DEF IInv, OneKeyAhead
  <1>4. Mem' = [Mem EXCEPT ![cur[p]] = vals[cur[p]]]
    BY <1>1, <1>3
  <1>5. CASE file' = file
    <2>1. Store!SetUnsaved(cur[p], vals[cur[p]])
      BY <1>4, <1>5 DEF Store!SetUnsaved, Mem
    <2> QED
      BY <1>2, <2>1
  <1>6. CASE file' = vals
    <2>1. Store!Set(cur[p], vals[cur[p]])
      BY <1>1, <1>4, <1>6 DEF Store!Set, Mem
    <2> QED
      BY <1>2, <2>1
  <1> QED
    BY <1>5, <1>6

(* Every step of a handler is a step of the abstract store or leaves it be. *)
LEMMA RefinesHandler ==
    ASSUME IInv, NEW p \in Posts,
           \/ Refuse(p)
           \/ \E payload \in Payloads : Accept(p, payload)
           \/ HandlerStep(p)
    PROVE  Store!Next \/ (Mem' = Mem /\ file' = file)
  <1>1. CASE Refuse(p) \/ Finish(p) \/ \E payload \in Payloads : Accept(p, payload)
    BY <1>1 DEF Refuse, Finish, Accept, Mem
  <1>2. ASSUME NEW k \in DOMAIN todo[p], Stop(p, k) \/ SetInMemory(p, k)
        PROVE  Mem' = Mem /\ file' = file
    BY <1>2, NoPostAssumption DEF Stop, SetInMemory, Mem
  <1>3. ASSUME NEW from \in InSet, NEW fault, NEW left, PersistFails(p, from, fault, left)
        PROVE  Store!Next
    <2>1. pc[p] = from /\ mu' = NoPost /\ UNCHANGED <<vals, file>>
      BY <1>3 DEF PersistFails, Unlock, Goto
    <2>2. mu = p
      BY <2>1 DEF IInv, LockHeld
    <2> QED
      BY <2>1, <2>2, SetEnds DEF Store!Next
  <1>4. CASE CreateTemp(p)
    BY <1>3, <1>4 DEF CreateTemp, Mem, InSet
  <1>5. CASE WriteTemp(p)
    BY <1>3, <1>5 DEF WriteTemp, Mem, InSet
  <1>6. CASE Rename(p)
    <2>1. CASE PersistFails(p, "rename", "rename", tmps)
      BY <1>3, <2>1 DEF InSet
    <2>2. CASE Goto(p, "rename", "apply") /\ file' = vals /\ Unlock /\ vals' = vals
      <3>1. mu = p /\ mu' = NoPost
        BY <2>2 DEF Goto, Unlock, IInv, LockHeld, InSet
      <3> QED
        BY <2>2, <3>1, SetEnds DEF Store!Next
    <2> QED
      BY <1>6, <2>1, <2>2 DEF Rename
  <1> QED
    BY <1>1, <1>2, <1>4, <1>5, <1>6 DEF HandlerStep

(* Every step is a step of the abstract store or leaves it as it is.       *)
LEMMA RefinesStep ==
    IInv /\ [Next]_vars => [Store!Next]_<<Mem, file>>
  <1> SUFFICES ASSUME IInv, [Next]_vars
               PROVE  Store!Next \/ (Mem' = Mem /\ file' = file)
    OBVIOUS
  <1>1. ASSUME NEW p \in Posts,
               \/ Refuse(p)
               \/ \E payload \in Payloads : Accept(p, payload)
               \/ HandlerStep(p)
        PROVE  Store!Next \/ (Mem' = Mem /\ file' = file)
    BY <1>1, RefinesHandler
  <1>2. ASSUME NEW r \in Readers, Ask(r) \/ Hand(r)
        PROVE  Mem' = Mem /\ file' = file
    BY <1>2 DEF Ask, Hand, Mem
  <1>3. CASE Crash
    <2>1. Mem' = Empty /\ file' = file
      BY <1>3 DEF Crash, Unlock, Mem
    <2>2. Store!Die
      BY <2>1 DEF Store!Die, Store!Empty, Empty, Mem
    <2> QED
      BY <2>2 DEF Store!Next
  <1>4. CASE Restart
    <2>1. mu' = NoPost /\ file' = file
      BY <1>4 DEF Restart, IInv, LockHeld
    <2>2. PICK read \in Prefixes \cup {Keys} : vals' = Load(file, read)
      BY <1>4 DEF Restart, Reads
    <2>3. Store!Start
      BY <2>1, <2>2 DEF Store!Start, Mem
    <2> QED
      BY <2>3 DEF Store!Next
  <1>5. CASE UNCHANGED vars
    BY <1>5 DEF vars, Mem
  <1> QED
    BY <1>1, <1>2, <1>3, <1>4, <1>5 DEF Next

(* The store of secrets.go with its lock, its temporary file and its        *)
(* failures implements the two tables of CredentialStore: Set is atomic to  *)
(* those who read memory or the file.                                      *)
THEOREM StoreRefines == Spec => ImplementsCredentialStore
  <1>1. [Store!Next]_<<Mem, file>>
            => [Store!Next]_<<IF mu = NoPost THEN vals ELSE prev, file>>
    BY DEF Mem
  <1> QED
    BY <1>1, RefinesInit, RefinesStep, StoreInvariant, PTL
       DEF Spec, ImplementsCredentialStore, Store!Spec
=============================================================================
