----------------------- MODULE UploadAdmission_proofs -----------------------
(***************************************************************************)
(* Machine-checked proofs, for every finite set of uploads and every Cap,   *)
(* of the safety properties of UploadAdmission and of its refinement of     *)
(* SlotPool.  The inductive invariant IInv adds to the properties what the  *)
(* control state of an upload says of its slot, its goroutine and its disk. *)
(***************************************************************************)
EXTENDS UploadAdmission, FiniteSetTheorems, TLAPS

-----------------------------------------------------------------------------
(* The handler holds the slot from the admission to the release or to the  *)
(* hand-over, and only then.                                               *)
HeldWhileStepping ==
    \A r \in Requests : semHeld[r] <=> pc[r] \in Steps \cup {"fail"}

(* A goroutine exists only after the handler's last step, and does not     *)
(* outlive the process.                                                    *)
ScanAfterInit ==
    \A r \in Requests :
        /\ scan[r] # "none" => pc[r] \in {"reply", "done", "lost"}
        /\ scan[r] \in {"running", "released"} => pc[r] # "lost"

(* What is on disk at each step.                                           *)
DiskFollowsControl ==
    \A r \in Requests :
        /\ pc[r] \in {"idle", "parse", "mkdir"} => disk[r] = "none"
        /\ pc[r] = "create" => disk[r] = "empty"
        /\ pc[r] = "copy" => disk[r] = "partial"
        /\ pc[r] = "init" => disk[r] = "whole"
        /\ scan[r] = "running" => disk[r] = "whole"
        /\ pc[r] \in {"reply", "done"} /\ scan[r] = "none" => disk[r] = "none"
        /\ scan[r] = "done" => disk[r] = "none"

IInv == /\ TypeOK
        /\ HeldWhileStepping
        /\ ScanAfterInit
        /\ AcceptedIffScanned
        /\ DiskFollowsControl
        /\ SlotAccounting

-----------------------------------------------------------------------------
(* The owners are among the uploads, hence finitely many.                  *)
LEMMA OwnersFinite ==
    /\ IsFiniteSet(Owners)
    /\ Cardinality(Owners) \in Nat
  <1>1. Owners \subseteq Requests
    BY DEF Owners
  <1>2. IsFiniteSet(Owners)
    BY <1>1, RequestsAssumption, FS_Subset
  <1> QED
    BY <1>2, FS_CardinalityType

(* What a step can do to the slots: nothing, hand one out while there is   *)
(* one, take one back from its owner, or lose them all with the process.   *)
SlotStep ==
    \/ Owners' = Owners /\ scanSem' = scanSem
    \/ \E r \in Requests \ Owners : /\ Owners' = Owners \cup {r}
                                    /\ scanSem < Cap
                                    /\ scanSem' = scanSem + 1
    \/ \E r \in Owners : Owners' = Owners \ {r} /\ scanSem' = scanSem - 1
    \/ Owners' = {} /\ scanSem' = 0

-----------------------------------------------------------------------------
(* The parts of IInv that speak of one upload at a time.                   *)
Local == /\ TypeOK
         /\ HeldWhileStepping
         /\ ScanAfterInit
         /\ AcceptedIffScanned
         /\ DiskFollowsControl

(* Local holds initially.                                                  *)
LEMMA LocalInit == Init => Local
  BY CapAssumption
  DEF Init, Local, TypeOK, HeldWhileStepping, ScanAfterInit,
      AcceptedIffScanned, DiskFollowsControl, HandlerPCs, ScanPCs,
      DiskStates, Statuses, Steps

(* Every step keeps Local.                                                 *)
LEMMA LocalNext == Local /\ [Next]_vars => Local'
  <1> SUFFICES ASSUME Local, [Next]_vars
               PROVE  Local'
    OBVIOUS
  <1> USE CapAssumption
          DEF Local, TypeOK, HeldWhileStepping, ScanAfterInit,
              AcceptedIffScanned, DiskFollowsControl, HandlerPCs, ScanPCs,
              DiskStates, Statuses, Steps
  <1>1. ASSUME NEW r \in Requests, Admit(r)
        PROVE  Local'
    BY <1>1 DEF Admit, Goto
  <1>2. ASSUME NEW r \in Requests, Reject(r)
        PROVE  Local'
    BY <1>2 DEF Reject, Goto
  <1>3. ASSUME NEW r \in Requests, HandlerStep(r)
        PROVE  Local'
    <2>1. CASE Parse(r)
      BY <2>1 DEF Parse, Advance, Fail, Goto
    <2>2. CASE MkDir(r)
      BY <2>2 DEF MkDir, Advance, Fail, Goto
    <2>3. CASE Create(r)
      BY <2>3 DEF Create, Advance, Fail, Goto
    <2>4. CASE Copy(r)
      BY <2>4 DEF Copy, Advance, Fail, Goto
    <2>5. CASE ReleaseSlot(r)
      BY <2>5 DEF ReleaseSlot, TakeToken, Goto
    <2>6. CASE RemoveDir(r)
      BY <2>6 DEF RemoveDir, Advance, Goto
    <2>7. CASE Reply(r)
      BY <2>7 DEF Reply, Goto
    <2> QED
      BY <1>3, <2>1, <2>2, <2>3, <2>4, <2>5, <2>6, <2>7 DEF HandlerStep
  <1>4. ASSUME NEW r \in Requests, InitReturns(r)
        PROVE  Local'
    <2>1. CASE StartScan(r)
      BY <2>1 DEF StartScan, Goto
    <2>2. CASE InitFails(r)
      BY <2>2 DEF InitFails, Fail, Goto
    <2> QED
      BY <1>4, <2>1, <2>2 DEF InitReturns
  <1>5. ASSUME NEW r \in Requests, EndScan(r)
        PROVE  Local'
    BY <1>5 DEF EndScan, TakeToken
  <1>6. ASSUME NEW r \in Requests, SweepScan(r)
        PROVE  Local'
    BY <1>6 DEF SweepScan
  <1>7. CASE Crash
    <2>1. TypeOK'
      <3>1. /\ up' = FALSE
            /\ scanSem' = 0
            /\ disk' = disk
            /\ status' = status
        BY <1>7, Zenon DEF Crash
      <3>2. semHeld' \in [Requests -> BOOLEAN]
        BY <1>7, Zenon DEF Crash
      <3>3. pc' \in [Requests -> HandlerPCs] /\ scan' \in [Requests -> ScanPCs]
        BY <1>7 DEF Crash
      <3>4. up' \in BOOLEAN
        BY <3>1, Zenon
      <3>5. /\ scanSem' \in 0 .. Cap
            /\ disk' \in [Requests -> DiskStates]
            /\ status' \in [Requests -> Statuses]
        BY <3>1
      <3> QED
        BY <3>2, <3>3, <3>4, <3>5, ZenonT(60)
    <2>2. HeldWhileStepping'
      BY <1>7 DEF Crash
    <2>3. ScanAfterInit' /\ AcceptedIffScanned'
      BY <1>7 DEF Crash
    <2>4. DiskFollowsControl'
      BY <1>7 DEF Crash
    <2> QED
      BY <2>1, <2>2, <2>3, <2>4
  <1>8. CASE Restart
    BY <1>8 DEF Restart
  <1>9. CASE UNCHANGED vars
    BY <1>9 DEF vars
  <1> QED
    BY <1>1, <1>2, <1>3, <1>4, <1>5, <1>6, <1>7, <1>8, <1>9 DEF Next

-----------------------------------------------------------------------------
(* Every step does to the slots what SlotStep allows.                      *)
LEMMA SlotNext == Local /\ [Next]_vars => SlotStep
  <1> SUFFICES ASSUME Local, [Next]_vars
               PROVE  SlotStep
    OBVIOUS
  <1> USE DEF Local, TypeOK, HeldWhileStepping, ScanAfterInit, Steps, Owners
  <1>1. ASSUME NEW r \in Requests, Admit(r)
        PROVE  SlotStep
    <2>1. r \notin Owners
      BY <1>1 DEF Admit, Goto
    <2>2. Owners' = Owners \cup {r}
      BY <1>1 DEF Admit, Goto
    <2> QED
      BY <1>1, <2>1, <2>2 DEF SlotStep, Admit
  <1>2. ASSUME NEW r \in Requests, Reject(r)
        PROVE  SlotStep
    BY <1>2 DEF Reject, Goto, SlotStep
  <1>3. ASSUME NEW r \in Requests, HandlerStep(r)
        PROVE  SlotStep
    <2>1. CASE Parse(r) \/ MkDir(r) \/ Create(r) \/ Copy(r) \/ RemoveDir(r)
      BY <2>1 DEF Parse, MkDir, Create, Copy, RemoveDir, Advance, Fail, SlotStep
    <2>2. CASE ReleaseSlot(r)
      <3>1. semHeld[r] /\ scan[r] # "running"
        BY <2>2 DEF ReleaseSlot, Goto
      <3>2. Owners' = Owners \ {r}
        BY <2>2, <3>1 DEF ReleaseSlot
      <3> QED
        BY <2>2, <3>1, <3>2 DEF SlotStep, ReleaseSlot, TakeToken
    <2>3. CASE Reply(r)
      BY <2>3 DEF Reply, SlotStep
    <2> QED
      BY <1>3, <2>1, <2>2, <2>3 DEF HandlerStep
  <1>4. ASSUME NEW r \in Requests, InitReturns(r)
        PROVE  SlotStep
    <2>1. CASE StartScan(r)
      <3>1. Owners' = Owners
        BY <2>1 DEF StartScan, Goto
      <3> QED
        BY <2>1, <3>1 DEF StartScan, SlotStep
    <2>2. CASE InitFails(r)
      BY <2>2 DEF InitFails, Fail, SlotStep
    <2> QED
      BY <1>4, <2>1, <2>2 DEF InitReturns
  <1>5. ASSUME NEW r \in Requests, EndScan(r)
        PROVE  SlotStep
    <2>1. r \in Owners /\ ~semHeld[r]
      BY <1>5 DEF EndScan
    <2>2. Owners' = Owners \ {r}
      BY <1>5, <2>1 DEF EndScan
    <2> QED
      BY <1>5, <2>1, <2>2 DEF EndScan, TakeToken, SlotStep
  <1>6. ASSUME NEW r \in Requests, SweepScan(r)
        PROVE  SlotStep
    <2>1. Owners' = Owners
      BY <1>6 DEF SweepScan
    <2> QED
      BY <1>6, <2>1 DEF SweepScan, SlotStep
  <1>7. CASE Crash
    <2>1. Owners' = {}
      BY <1>7 DEF Crash
    <2> QED
      BY <1>7, <2>1 DEF Crash, SlotStep
  <1>8. CASE Restart
    BY <1>8 DEF Restart, SlotStep
  <1>9. CASE UNCHANGED vars
    BY <1>9 DEF vars, SlotStep
  <1> QED
    BY <1>1, <1>2, <1>3, <1>4, <1>5, <1>6, <1>7, <1>8, <1>9 DEF Next

(* A step of that kind keeps the number of tokens equal to the owners'.    *)
LEMMA SlotCount == Local /\ SlotAccounting /\ SlotStep => SlotAccounting'
  <1> SUFFICES ASSUME SlotAccounting, SlotStep
               PROVE  SlotAccounting'
    OBVIOUS
  <1> USE OwnersFinite DEF SlotAccounting
  <1>1. CASE Owners' = Owners /\ scanSem' = scanSem
    BY <1>1
  <1>2. ASSUME NEW r \in Requests \ Owners,
               Owners' = Owners \cup {r}, scanSem' = scanSem + 1
        PROVE  SlotAccounting'
    <2>1. Cardinality(Owners \cup {r}) = Cardinality(Owners) + 1
      BY <1>2, FS_AddElement
    <2> QED
      BY <1>2, <2>1
  <1>3. ASSUME NEW r \in Owners,
               Owners' = Owners \ {r}, scanSem' = scanSem - 1
        PROVE  SlotAccounting'
    <2>1. Cardinality(Owners \ {r}) = Cardinality(Owners) - 1
      BY <1>3, FS_RemoveElement
    <2> QED
      BY <1>3, <2>1
  <1>4. CASE Owners' = {} /\ scanSem' = 0
    BY <1>4, FS_EmptySet
  <1> QED
    BY <1>1, <1>2, <1>3, <1>4 DEF SlotStep

-----------------------------------------------------------------------------
(* IInv holds initially ...                                                *)
LEMMA InvInit == Init => IInv
  <1> SUFFICES ASSUME Init
               PROVE  IInv
    OBVIOUS
  <1>1. Local
    BY LocalInit
  <1>2. Owners = {} /\ scanSem = 0
    BY DEF Init, Owners
  <1>3. SlotAccounting
    BY <1>2, FS_EmptySet DEF SlotAccounting
  <1> QED
    BY <1>1, <1>3 DEF IInv, Local

(* ... and every step keeps it.                                            *)
LEMMA InvNext == IInv /\ [Next]_vars => IInv'
  BY LocalNext, SlotNext, SlotCount DEF IInv, Local

(* The inductive invariant holds of the admission of uploads, whatever the *)
(* set of uploads and the capacity of scanSem.                             *)
THEOREM Invariance == Spec => []IInv
  BY InvInit, InvNext, PTL DEF Spec

(* Type correctness of the admission of uploads.                           *)
THEOREM TypeCorrectness == Spec => []TypeOK
  BY Invariance, PTL DEF IInv

(* scanSem holds exactly one token for every upload that owns a slot, over  *)
(* all error paths, panics, hand-overs, deaths and restarts.               *)
THEOREM SlotsAccounted == Spec => []SlotAccounting
  BY Invariance, PTL DEF IInv

(* At most Cap uploads are received or scanned at the same time.           *)
THEOREM ConcurrencyIsBounded == Spec => []ConcurrencyBound
  <1>1. IInv => ConcurrencyBound
    <2> SUFFICES ASSUME IInv
                 PROVE  ConcurrencyBound
      OBVIOUS
    <2> DEFINE Busy == {r \in Requests : pc[r] \in Steps \/ scan[r] = "running"}
    <2>1. Busy \subseteq Owners
      BY DEF IInv, HeldWhileStepping, Owners
    <2>2. /\ Cardinality(Busy) \in Nat
          /\ Cardinality(Busy) <= Cardinality(Owners)
      BY <2>1, OwnersFinite, FS_Subset, FS_CardinalityType
    <2>3. Cardinality(Owners) <= Cap
      BY CapAssumption DEF IInv, TypeOK, SlotAccounting
    <2> QED
      BY <2>2, <2>3, OwnersFinite, CapAssumption DEF ConcurrencyBound
  <1> QED
    BY <1>1, Invariance, PTL

(* A running scan has its whole sample on disk.                            *)
THEOREM SampleIsThere == Spec => []ScanHasItsSample
  <1>1. IInv => ScanHasItsSample
    BY DEF IInv, DiskFollowsControl, ScanHasItsSample
  <1> QED
    BY <1>1, Invariance, PTL

(* 200 is the answer exactly for the uploads that are scanned.             *)
THEOREM AcceptedAreScanned == Spec => []AcceptedIffScanned
  BY Invariance, PTL DEF IInv

(* An upload that has ended owns no slot and left nothing on disk.         *)
THEOREM NothingIsLeft == Spec => []NothingLeftBehind
  <1>1. IInv => NothingLeftBehind
    BY DEF IInv, TypeOK, HeldWhileStepping, DiskFollowsControl, Steps, Owners,
           NothingLeftBehind
  <1> QED
    BY <1>1, Invariance, PTL

(* 429 is answered only when Cap uploads own a slot.                       *)
THEOREM RefusalsAreJustified == Spec => RejectOnlyWhenFull
  <1> DEFINE Justified == \A r \in Requests :
                 status[r] # 429 /\ status'[r] = 429 => Cardinality(Owners) = Cap
  <1>1. IInv /\ [Next]_vars => [Justified]_vars
    <2> SUFFICES ASSUME IInv, Next, NEW r \in Requests,
                        status[r] # 429, status'[r] = 429
                 PROVE  Cardinality(Owners) = Cap
      BY DEF vars
    <2>1. ASSUME NEW q \in Requests, Reject(q)
          PROVE  Cardinality(Owners) = Cap
      BY <2>1 DEF Reject, IInv, SlotAccounting
    <2>2. ASSUME NEW q \in Requests,
                 HandlerStep(q) \/ InitReturns(q) \/ Admit(q)
                     \/ EndScan(q) \/ SweepScan(q)
          PROVE  FALSE
      BY <2>2 DEF IInv, TypeOK, Admit, HandlerStep, InitReturns, Parse, MkDir,
             Create, Copy, ReleaseSlot, RemoveDir, Reply, StartScan, InitFails,
             Advance, Fail, EndScan, SweepScan
    <2>3. CASE Crash \/ Restart
      BY <2>3 DEF Crash, Restart
    <2> QED
      BY <2>1, <2>2, <2>3 DEF Next
  <1>2. Spec => [][Justified]_vars
    BY <1>1, Invariance, PTL DEF Spec
  <1> QED
    BY <1>2 DEF RejectOnlyWhenFull

-----------------------------------------------------------------------------
(* UploadAdmission implements SlotPool: to a client of the pool, the upload *)
(* path only ever takes a free slot, gives back a held one, or dies.       *)
THEOREM ImplementsPool == Spec => ImplementsSlotPool
  <1>1. Init => Pool!Init
    BY DEF Init, Pool!Init, Owners
  <1>2. IInv /\ [Next]_vars => [Pool!Next]_Owners
    <2> SUFFICES ASSUME IInv, [Next]_vars
                 PROVE  [Pool!Next]_Owners
      OBVIOUS
    <2>1. SlotStep
      BY SlotNext DEF IInv, Local
    <2>2. CASE Owners' = Owners
      BY <2>2
    <2>3. ASSUME NEW r \in Requests \ Owners,
                 Owners' = Owners \cup {r}, scanSem < Cap
          PROVE  Pool!Next
      <3>1. Cardinality(Owners) < Cap
        BY <2>3 DEF IInv, SlotAccounting
      <3>2. Pool!Cardinality(Owners) = Cardinality(Owners)
        BY DEF Pool!Cardinality, Cardinality
      <3> QED
        BY <2>3, <3>1, <3>2 DEF Pool!Next, Pool!Acquire
    <2>4. ASSUME NEW r \in Owners, Owners' = Owners \ {r}
          PROVE  Pool!Next
      BY <2>4 DEF Pool!Next, Pool!Release, Owners
    <2>5. CASE Owners' = {}
      BY <2>5 DEF Pool!Next, Pool!Reset
    <2> QED
      BY <2>1, <2>2, <2>3, <2>4, <2>5 DEF SlotStep
  <1> QED
    BY <1>1, <1>2, Invariance, PTL DEF Spec, ImplementsSlotPool, Pool!Spec
=============================================================================
