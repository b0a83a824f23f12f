------------------------ MODULE DatabaseStart_proofs ------------------------
(***************************************************************************)
(* Machine-checked proofs, for every number of scans that start the         *)
(* database at once, of the safety properties of DatabaseStart.  While no   *)
(* call has failed and the machine has memory, the setups are in one of     *)
(* three situations: nobody has created the container, it was there from    *)
(* the start, or exactly one of them has created it, and fails only when   *)
(* its wait for Elasticsearch times out (Undisturbed).                     *)
(***************************************************************************)
EXTENDS DatabaseStart, FiniteSetTheorems, TLAPS

-----------------------------------------------------------------------------
(* The container is created by at most one setup, and then it exists.       *)
Creator == contID = {} \/ \E s \in Scans : contID = {s} /\ cont # "absent"

Before == {"running", "start", "require", "create"}

NotYet == /\ contID = {} /\ cont = "absent"
          /\ \A s \in Scans : pc[s] \in Before

Already == /\ contID = {} /\ cont \in {"exited", "ready"}
           /\ \A s \in Scans : pc[s] \in {"running", "init"}

Created == /\ cont \in {"created", "booting", "ready"}
           /\ \E s \in Scans : /\ contID = {s}
                               /\ pc[s] \notin Before
                               /\ cont = "created" <=> pc[s] = "launch"
                               /\ pc[s] \in {"dump", "failed"} => s \in late

Undisturbed == faulty \/ starved \/ NotYet \/ Already \/ Created

(* Only the setup that created the container comes to wait for it.          *)
CreatorWaits == /\ \A s \in Scans : pc[s] \in {"again", "wait"} => s \in contID
                /\ late \subseteq contID

IInv == TypeOK /\ Creator /\ CreatorWaits /\ Undisturbed

-----------------------------------------------------------------------------
(* Before any setup.                                                       *)
LEMMA DatabaseInit == Init => IInv
  BY DEF Init, IInv, TypeOK, PCs, States, Creator, CreatorWaits, Undisturbed, NotYet, Already,
         Before

(* A step of one setup moves that setup alone.                             *)
LEMMA MovesOne ==
    ASSUME TypeOK, NEW s \in Scans, NEW from \in PCs, NEW to \in PCs, Goto(s, from, to)
    PROVE  /\ pc[s] = from /\ pc'[s] = to /\ pc' \in [Scans -> PCs]
           /\ \A t \in Scans : t # s => pc'[t] = pc[t]
  BY DEF Goto, TypeOK

(* The steps up to the creation of the container, none of which changes it. *)
LEMMA LookingKeeps ==
    ASSUME IInv, NEW s \in Scans, Running(s) \/ Start(s) \/ Require(s)
    PROVE  IInv'
  <1> USE DEF IInv
  <1>1. /\ UNCHANGED <<alive, contID, cont, starved, late>>
        /\ \/ Goto(s, "running", "init") /\ Found /\ UNCHANGED faulty
           \/ Goto(s, "running", "start") /\ (faulty' \/ (~Found /\ UNCHANGED faulty))
           \/ Goto(s, "start", "require") /\ UNCHANGED faulty
           \/ Goto(s, "start", "failed") /\ faulty'
           \/ Goto(s, "require", "failed") /\ Found /\ UNCHANGED faulty
           \/ Goto(s, "require", "create") /\ (faulty' \/ (~Found /\ UNCHANGED faulty))
    BY DEF Running, Start, Require, Fail, Fails
  <1>2. PICK from \in {"running", "start", "require"},
             to \in {"init", "start", "require", "failed", "create"} : Goto(s, from, to)
    BY <1>1
  <1>3. /\ pc[s] = from /\ pc'[s] = to /\ pc' \in [Scans -> PCs]
        /\ \A t \in Scans : t # s => pc'[t] = pc[t]
    BY <1>2, MovesOne DEF PCs
  <1>4. faulty' \in BOOLEAN
    BY DEF Running, Start, Require, Fail, Fails, TypeOK
  <1>5. TypeOK' /\ Creator' /\ CreatorWaits'
    BY <1>1, <1>3, <1>4 DEF TypeOK, Creator, CreatorWaits
  <1>6. Undisturbed'
    <2>1. ASSUME Created, UNCHANGED faulty PROVE Created'
      BY <1>1, <1>3, <2>1 DEF Created, Before
    <2>2. ASSUME NotYet, UNCHANGED faulty PROVE NotYet' \/ faulty'
      BY <1>1, <1>3, <2>2 DEF NotYet, Before, Found, Goto, TypeOK
    <2>3. ASSUME Already, UNCHANGED faulty PROVE Already' \/ faulty'
      BY <1>1, <1>3, <2>3 DEF Already, Found, Goto, TypeOK
    <2> QED
      BY <1>1, <2>1, <2>2, <2>3 DEF Undisturbed
  <1> QED
    BY <1>5, <1>6

(* The creation and the start of the container.                            *)
LEMMA CreatingKeeps ==
    ASSUME IInv, NEW s \in Scans, Create(s) \/ Launch(s)
    PROVE  IInv'
  <1> USE DEF IInv
  <1>1. CASE Create(s)
    <2>1. /\ Goto(s, "create", "launch")
          /\ \/ /\ cont = "absent" /\ cont' = "created"
                /\ contID' = contID \cup {s} /\ UNCHANGED faulty
             \/ cont # "absent" /\ UNCHANGED <<cont, contID, faulty>>
             \/ faulty' = TRUE /\ UNCHANGED <<cont, contID>>
          /\ UNCHANGED <<alive, starved, late>>
      BY <1>1 DEF Create, Fails
    <2>2. /\ pc[s] = "create" /\ pc'[s] = "launch" /\ pc' \in [Scans -> PCs]
          /\ \A t \in Scans : t # s => pc'[t] = pc[t]
      BY <2>1, MovesOne DEF PCs
    <2>3. TypeOK'
      BY <2>1, <2>2 DEF TypeOK, States
    <2>4. Creator' /\ CreatorWaits'
      BY <2>1, <2>2 DEF Creator, CreatorWaits
    <2>5. Undisturbed'
      BY <2>1, <2>2 DEF Undisturbed, NotYet, Already, Created, Creator, Before
    <2> QED
      BY <2>3, <2>4, <2>5
  <1>2. CASE Launch(s)
    <2>1. PICK to \in {"logs", "inspect"} : Goto(s, "launch", to)
      BY <1>2 DEF Launch
    <2>2. /\ \/ s \in contID /\ cont = "created" /\ cont' = "booting" /\ UNCHANGED faulty
             \/ s \notin contID /\ UNCHANGED <<cont, faulty>>
             \/ faulty' = TRUE /\ UNCHANGED cont
          /\ UNCHANGED <<alive, contID, starved, late>>
      BY <1>2 DEF Launch, Fails
    <2>3. /\ pc[s] = "launch" /\ pc'[s] = to /\ pc' \in [Scans -> PCs]
          /\ \A t \in Scans : t # s => pc'[t] = pc[t]
      BY <2>1, MovesOne DEF PCs
    <2>4. TypeOK' /\ Creator' /\ CreatorWaits'
      BY <2>2, <2>3 DEF TypeOK, States, Creator, CreatorWaits
    <2>5. Undisturbed'
      BY <2>2, <2>3 DEF Undisturbed, NotYet, Already, Created, Before
    <2> QED
      BY <2>4, <2>5
  <1> QED
    BY <1>1, <1>2

(* The steps after it, which only look at the container.                   *)
LEMMA WaitingKeeps ==
    ASSUME IInv, NEW s \in Scans,
           FollowLogs(s) \/ Inspect(s) \/ Connected(s) \/ Timeout(s) \/ Dump(s)
    PROVE  IInv'
  <1> USE DEF IInv
  <1>1. UNCHANGED <<contID, cont, starved>> /\ alive' \in BOOLEAN
    BY DEF FollowLogs, Inspect, Fail, Connected, Timeout, Dump, TypeOK
  <1>2. faulty' \in {TRUE, faulty}
    BY DEF FollowLogs, Inspect, Fail, Fails, Connected, Timeout, Dump
  <1>3. PICK from \in {"logs", "inspect", "again", "wait", "dump"},
             to \in {"inspect", "failed", "again", "wait", "init", "dump"} :
                Goto(s, from, to)
    BY DEF FollowLogs, Inspect, Fail, Connected, Timeout, Dump
  <1>4. /\ pc[s] = from /\ pc'[s] = to /\ pc' \in [Scans -> PCs]
        /\ \A t \in Scans : t # s => pc'[t] = pc[t]
    BY <1>3, MovesOne DEF PCs
  <1>5. late' \in {late, late \cup {s}} /\ (late' # late => from = "wait" /\ to = "dump")
    BY <1>3, <1>4 DEF FollowLogs, Inspect, Fail, Connected, Timeout, Dump, Goto
  <1>6. TypeOK' /\ Creator'
    BY <1>1, <1>2, <1>4, <1>5 DEF TypeOK, Creator
  <1>7. CreatorWaits'
    <2>1. to \in {"again", "wait"} => s \in contID
      BY <1>4 DEF FollowLogs, Inspect, Fail, Connected, Timeout, Dump, Goto, CreatorWaits, TypeOK
    <2> QED
      BY <1>1, <1>4, <1>5, <2>1 DEF CreatorWaits, TypeOK
  <1>8. to \in {"dump", "failed"} /\ s \in contID => faulty' \/ s \in late' \/ from = "dump"
    BY <1>4 DEF FollowLogs, Inspect, Fail, Fails, Connected, Timeout, Dump, Goto
  <1>9. Undisturbed'
    <2>1. ASSUME Created PROVE Created' \/ faulty'
      BY <1>1, <1>4, <1>5, <1>8, <2>1 DEF Created, Before
    <2>2. ASSUME NotYet \/ Already PROVE FALSE
      BY <1>4, <2>2 DEF NotYet, Already, Before
    <2> QED
      BY <1>1, <1>2, <2>1, <2>2 DEF Undisturbed
  <1> QED
    BY <1>6, <1>7, <1>9

(* IInv is inductive.                                                      *)
LEMMA DatabaseStep == IInv /\ [Next]_vars => IInv'
  <1> SUFFICES ASSUME IInv, [Next]_vars PROVE IInv'
    OBVIOUS
  <1>1. CASE Boot
    <2>1. /\ cont = "booting"
          /\ \/ cont' = "ready" /\ UNCHANGED starved
             \/ cont' = "exited" /\ starved' = TRUE
          /\ UNCHANGED <<alive, pc, contID, faulty, late>>
      BY <1>1 DEF Boot
    <2> QED
      BY <2>1 DEF IInv, TypeOK, States, Creator, CreatorWaits, Undisturbed, NotYet, Already,
                  Created
  <1>2. ASSUME NEW s \in Scans, Setup(s)
        PROVE  IInv'
    BY <1>2, LookingKeeps, CreatingKeeps, WaitingKeeps DEF Setup
  <1>3. CASE UNCHANGED vars
    BY <1>3 DEF vars, IInv, TypeOK, Creator, CreatorWaits, Undisturbed, NotYet, Already, Created
  <1> QED
    BY <1>1, <1>2, <1>3 DEF Next

(* Every reachable state of every instance satisfies IInv.                 *)
THEOREM DatabaseInvariant == Spec => []IInv
  <1> QED
    BY DatabaseInit, DatabaseStep, PTL DEF Spec

(* The variables keep their types.                                         *)
THEOREM DatabaseTypeCorrect == Spec => []TypeOK
  <1>1. IInv => TypeOK
    BY DEF IInv
  <1> QED
    BY <1>1, DatabaseInvariant, PTL

(* However many scans find no database, one container is created.           *)
THEOREM AtMostOneCreator == Spec => []OneCreator
  <1>1. IInv => OneCreator
    <2> SUFFICES ASSUME IInv PROVE Cardinality(contID) <= 1
      BY DEF OneCreator
    <2>1. CASE contID = {}
      BY <2>1, FS_EmptySet
    <2>2. ASSUME NEW s \in Scans, contID = {s} PROVE Cardinality(contID) <= 1
      BY <2>2, FS_Singleton
    <2> QED
      BY <2>1, <2>2 DEF IInv, Creator
  <1> QED
    BY <1>1, DatabaseInvariant, PTL

(* The setups cannot all fail over each other: unless a call failed or the   *)
(* memory was short, one of them got in, or the one that created the        *)
(* container gave it up for the timeout of its wait, and then it runs for  *)
(* the next scan.                                                          *)
THEOREM NotAllStuck == Spec => []SomeoneGetsIn
  <1>1. IInv => SomeoneGetsIn
    <2> SUFFICES ASSUME IInv, \A s \in Scans : pc[s] \in {"init", "failed"},
                        ~faulty, ~starved
                 PROVE  \/ \E s \in Scans : pc[s] = "init"
                        \/ contID # {} /\ contID = late /\ cont \in {"booting", "ready"}
      BY DEF SomeoneGetsIn
    <2>1. CASE NotYet
      BY <2>1, ScansAssumption DEF NotYet, Before
    <2>2. CASE Already
      BY <2>2, ScansAssumption DEF Already
    <2>3. CASE Created
      BY <2>3 DEF Created, CreatorWaits, IInv
    <2> QED
      BY <2>1, <2>2, <2>3 DEF IInv, Undisturbed
  <1> QED
    BY <1>1, DatabaseInvariant, PTL
=============================================================================
