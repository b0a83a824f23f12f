------------------------ MODULE EngineFanout_proofs ------------------------
(***************************************************************************)
(* Machine-checked proofs, for all sets of engines and faults, of the       *)
(* safety properties of EngineFanout.  The inductive invariant says for     *)
(* every phase of scanRun which goroutines exist and which are through      *)
(* (Phases), and for every engine no call has failed for what its place in  *)
(* StartPlugin says of its container and its result (OnCourse).  The same   *)
(* invariant shows that the fan-out implements TwoPhaseRun.                *)
(***************************************************************************)
EXTENDS EngineFanout, FiniteSetTheorems, TLAPS

-----------------------------------------------------------------------------
(* Which engines are not started, started and through in each phase.       *)
Phases ==
    /\ main = "setup" => \A e \in Engines : pc[e] = "idle"
    /\ main = "intel" => \A e \in Files : pc[e] = "idle"
    /\ main = "intel" => \A e \in Intel : pc[e] # "idle"
    /\ main \in {"mime", "engines", "returned"} => \A e \in Intel : pc[e] = "done"
    /\ main = "mime" => \A e \in Files : pc[e] = "idle"
    /\ main = "engines" => \A e \in fan : pc[e] # "idle"
    /\ main = "returned" => \A e \in fan : pc[e] = "done"
    /\ main \in {"engines", "returned"} => \A e \in Files \ fan : pc[e] = "idle"
    /\ main = "failed" => \A e \in Engines : pc[e] \in {"idle", "done"}
    /\ main = "failed" /\ (\E e \in Files : pc[e] # "idle")
          => \A i \in Intel : pc[i] = "done"

(* The container and the result of an engine for which no call has failed. *)
OnCourse ==
    \A e \in Engines :
        /\ pc[e] \in {"idle", "ping", "require", "create"} => cont[e] = "none"
        /\ e \notin faulty =>
              /\ cont[e] = "exited" => e \in reported
              /\ pc[e] = "start" => contID[e] /\ cont[e] = "created"
              /\ pc[e] \in {"logs", "tail"} => contID[e] /\ cont[e] \in {"running", "exited"}
              /\ pc[e] \in {"inspect", "remove"} => cont[e] = "exited"
              /\ pc[e] = "remove" => contJSON[e]
              /\ pc[e] = "done" => cont[e] = "none" /\ e \in reported

IInv == TypeOK /\ WaitGroupExact /\ Phases /\ OnCourse

-----------------------------------------------------------------------------
(* The goroutines are finitely many.                                       *)
LEMMA InFlightFinite ==
    IsFiniteSet(InFlight) /\ Cardinality(InFlight) \in Nat
  <1>1. InFlight \subseteq Engines
    BY DEF InFlight
  <1> QED
    BY <1>1, EnginesAssumption, FS_Subset, FS_CardinalityType

(* wg.Wait() lets scanRun on only when no goroutine runs.                  *)
LEMMA NobodyInFlight ==
    ASSUME WaitGroupExact, wg = 0
    PROVE  \A e \in Engines : pc[e] \in {"idle", "done"}
  <1>1. InFlight = {}
    BY InFlightFinite, FS_EmptySet DEF WaitGroupExact
  <1> QED
    BY <1>1 DEF InFlight

(* Initially nothing is started.                                          *)
LEMMA FanoutInit == Init => IInv
  <1> SUFFICES ASSUME Init PROVE IInv
    OBVIOUS
  <1>1. TypeOK
    BY DEF Init, TypeOK, Mains, PCs, Contents
  <1>2. InFlight = {}
    BY DEF Init, InFlight
  <1>3. WaitGroupExact
    BY <1>2, FS_EmptySet DEF Init, WaitGroupExact
  <1>4. Phases
    BY DEF Init, Phases
  <1>5. OnCourse
    BY DEF Init, OnCourse
  <1> QED
    BY <1>1, <1>3, <1>4, <1>5 DEF IInv

(* The launch of a set of engines that are idle while nobody runs.         *)
LEMMA LaunchExact ==
    ASSUME NEW S \in SUBSET Engines, Launch(S),
           \A e \in Engines : pc[e] \in {"idle", "done"},
           pc \in [Engines -> PCs]
    PROVE  WaitGroupExact' /\ wg' \in Nat
  <1>1. InFlight' = S
    BY DEF Launch, InFlight
  <1>2. wg' = Cardinality(S) /\ IsFiniteSet(S)
    BY EnginesAssumption, FS_Subset DEF Launch
  <1> QED
    BY <1>1, <1>2, FS_CardinalityType DEF WaitGroupExact

(* Steps that change no goroutine's being in flight.                       *)
LEMMA ExactUnchanged ==
    ASSUME WaitGroupExact, wg' = wg,
           \A e \in Engines : (pc'[e] \in {"idle", "done"}) <=> (pc[e] \in {"idle", "done"})
    PROVE  WaitGroupExact'
  <1>1. InFlight' = InFlight
    BY DEF InFlight
  <1> QED
    BY <1>1 DEF WaitGroupExact

-----------------------------------------------------------------------------
(* The steps of scanRun itself.                                            *)
LEMMA ScanRunKeeps ==
    ASSUME IInv, ScanRun
    PROVE  IInv'
  <1> USE DEF IInv
  <1>1. CASE StartIntel
    <2>1. Launch(Intel) /\ Intel \in SUBSET Engines
      BY <1>1 DEF StartIntel, Engines
    <2>2. \A e \in Engines : pc[e] = "idle"
      BY <1>1 DEF StartIntel, Phases
    <2>3. WaitGroupExact' /\ wg' \in Nat
      BY <2>1, <2>2, LaunchExact DEF TypeOK
    <2>4. TypeOK'
      BY <1>1, <2>1, <2>3 DEF StartIntel, Launch, TypeOK, Mains, PCs
    <2>5. Phases'
      BY <1>1, <2>1, <2>2, EnginesAssumption DEF StartIntel, Launch, Phases, Engines
    <2>6. OnCourse'
      BY <1>1, <2>1, <2>2 DEF StartIntel, Launch, OnCourse
    <2> QED
      BY <2>3, <2>4, <2>5, <2>6
  <1>2. CASE NotInstalled
    <2>1. WaitGroupExact'
      BY <1>2, ExactUnchanged DEF NotInstalled
    <2>2. TypeOK' /\ Phases' /\ OnCourse'
      BY <1>2 DEF NotInstalled, TypeOK, Mains, Phases, OnCourse, Engines, Files
    <2> QED
      BY <2>1, <2>2
  <1>3. CASE Wait("intel", "mime")
    <2>1. \A e \in Engines : pc[e] \in {"idle", "done"}
      BY <1>3, NobodyInFlight DEF Wait
    <2>2. WaitGroupExact'
      BY <1>3, ExactUnchanged DEF Wait
    <2>3. TypeOK' /\ Phases' /\ OnCourse'
      BY <1>3, <2>1 DEF Wait, TypeOK, Mains, Phases, OnCourse, Engines
    <2> QED
      BY <2>2, <2>3
  <1>4. ASSUME NEW S \in MimeSets, StartEngines(S)
        PROVE  IInv'
    <2>1. Launch(S) /\ S \in SUBSET Files /\ S \in SUBSET Engines
      BY <1>4 DEF StartEngines, Engines, Files
    <2>2. /\ \A e \in Files : pc[e] = "idle"
          /\ \A e \in Intel : pc[e] = "done"
      BY <1>4 DEF StartEngines, Phases
    <2>3. WaitGroupExact' /\ wg' \in Nat
      BY <2>1, <2>2, LaunchExact DEF TypeOK, Engines
    <2>4. TypeOK'
      BY <1>4, <2>1, <2>3 DEF StartEngines, Launch, TypeOK, Mains, PCs
    <2>5. Phases'
      BY <1>4, <2>1, <2>2, EnginesAssumption DEF StartEngines, Launch, Phases, Engines
    <2>6. OnCourse'
      BY <1>4, <2>1, <2>2 DEF StartEngines, Launch, OnCourse
    <2> QED
      BY <2>3, <2>4, <2>5, <2>6
  <1>5. CASE NoMime
    <2>1. WaitGroupExact'
      BY <1>5, ExactUnchanged DEF NoMime
    <2>2. TypeOK' /\ Phases' /\ OnCourse'
      BY <1>5 DEF NoMime, TypeOK, Mains, Phases, OnCourse, Engines
    <2> QED
      BY <2>1, <2>2
  <1>6. CASE Wait("engines", "returned")
    <2>1. \A e \in Engines : pc[e] \in {"idle", "done"}
      BY <1>6, NobodyInFlight DEF Wait
    <2>2. WaitGroupExact'
      BY <1>6, ExactUnchanged DEF Wait
    <2>3. TypeOK' /\ OnCourse'
      BY <1>6 DEF Wait, TypeOK, Mains, OnCourse
    <2>4. fan \subseteq Engines
      BY DEF TypeOK, Engines
    <2>5. Phases'
      BY <1>6, <2>1, <2>4 DEF Wait, Phases
    <2> QED
      BY <2>2, <2>3, <2>5
  <1> QED
    BY <1>1, <1>2, <1>3, <1>4, <1>5, <1>6 DEF ScanRun

-----------------------------------------------------------------------------
(* A goroutine that goes on from one place to another, both in flight,      *)
(* keeps the phases.                                                       *)
LEMMA PhasesGoto ==
    ASSUME TypeOK, Phases, NEW e \in Engines, NEW from \in PCs, NEW to \in PCs,
           Goto(e, from, to), from \notin {"idle", "done"}, to # "idle",
           main' = main, fan' = fan
    PROVE  Phases'
  <1>1. fan \subseteq Engines
    BY DEF TypeOK, Engines
  <1>2. \A x \in Engines : x # e => pc'[x] = pc[x]
    BY DEF Goto, TypeOK
  <1>3. pc[e] \notin {"idle", "done"} /\ pc'[e] # "idle"
    BY DEF Goto, TypeOK
  <1>4. Intel \subseteq Engines /\ Files \subseteq Engines
    BY DEF Engines
  <1> QED
    BY <1>1, <1>2, <1>3, <1>4 DEF Phases

-----------------------------------------------------------------------------
(* What a step of one goroutine that neither starts nor ends it shows of     *)
(* the conjuncts that count and place the goroutines.                      *)
LEMMA GotoKeeps ==
    ASSUME IInv, NEW e \in Engines, NEW from \in PCs, NEW to \in PCs,
           Goto(e, from, to),
           from \notin {"idle", "done"}, to \notin {"idle", "done"},
           UNCHANGED server
    PROVE  /\ WaitGroupExact' /\ Phases'
           /\ pc' = [pc EXCEPT ![e] = to] /\ pc' \in [Engines -> PCs]
           /\ pc[e] = from /\ pc'[e] = to
           /\ \A x \in Engines : x # e => pc'[x] = pc[x]
  <1>1. /\ pc' = [pc EXCEPT ![e] = to] /\ pc' \in [Engines -> PCs]
        /\ pc[e] = from /\ pc'[e] = to
        /\ \A x \in Engines : x # e => pc'[x] = pc[x]
    BY DEF Goto, IInv, TypeOK
  <1>2. WaitGroupExact'
    BY <1>1, ExactUnchanged DEF IInv, server
  <1>3. Phases'
    BY PhasesGoto DEF IInv, server
  <1> QED
    BY <1>1, <1>2, <1>3

(* The panic of a goroutine changes nothing but alive.                     *)
LEMMA PanicKeeps ==
    ASSUME IInv, NEW e \in Engines, NEW from, Panic(e, from)
    PROVE  IInv'
  <1>1. /\ alive' = FALSE
        /\ UNCHANGED <<main, fan, wg, pc, contID, contJSON, cont, images,
                       reported, faulty>>
    BY DEF Panic
  <1>2. InFlight' = InFlight
    BY <1>1 DEF InFlight
  <1>3. WaitGroupExact'
    BY <1>1, <1>2 DEF WaitGroupExact, IInv
  <1>4. TypeOK' /\ Phases' /\ OnCourse'
    BY <1>1 DEF IInv, TypeOK, Phases, OnCourse
  <1> QED
    BY <1>3, <1>4 DEF IInv

(* The calls of StartPlugin before the container runs.                     *)
LEMMA StartingKeeps ==
    ASSUME IInv, NEW e \in Engines,
           Ping(e) \/ Require(e) \/ Create(e) \/ StartContainer(e)
    PROVE  IInv'
  <1> USE DEF IInv
  <1>p. {"ping", "require", "create", "start", "logs", "remove"} \subseteq PCs
    BY DEF PCs
  <1>1. CASE Ping(e)
    <2> PICK to \in {"require", "remove"} :
            /\ Goto(e, "ping", to)
            /\ to = "require" => faulty' = faulty
            /\ to = "remove" => faulty' = faulty \cup {e}
      BY <1>1 DEF Ping, Fails
    <2>1. UNCHANGED <<server, contID, contJSON, cont, images, reported>>
      BY <1>1 DEF Ping
    <2>2. /\ WaitGroupExact' /\ Phases' /\ pc' \in [Engines -> PCs]
          /\ pc[e] = "ping" /\ pc'[e] = to
          /\ \A x \in Engines : x # e => pc'[x] = pc[x]
      BY <1>p, <2>1, GotoKeeps
    <2>3. TypeOK'
      BY <2>1, <2>2 DEF TypeOK, server
    <2>4. OnCourse'
      BY <2>1, <2>2 DEF OnCourse, TypeOK
    <2> QED
      BY <2>2, <2>3, <2>4
  <1>2. CASE Require(e)
    <2> PICK to \in {"create", "remove"} :
            /\ Goto(e, "require", to)
            /\ faulty' = IF pc'[e] = "remove" THEN faulty \cup {e} ELSE faulty
      BY <1>2 DEF Require
    <2>1. UNCHANGED <<server, contID, contJSON, cont, reported>>
      BY <1>2 DEF Require
    <2>2. /\ WaitGroupExact' /\ Phases' /\ pc' \in [Engines -> PCs]
          /\ pc[e] = "require" /\ pc'[e] = to
          /\ \A x \in Engines : x # e => pc'[x] = pc[x]
      BY <1>p, <2>1, GotoKeeps
    <2>3. images' \subseteq Engines /\ faulty' \subseteq Engines
      BY <1>2 DEF Require, TypeOK
    <2>4. TypeOK'
      BY <2>1, <2>2, <2>3 DEF TypeOK, server
    <2>5. OnCourse'
      BY <2>1, <2>2 DEF OnCourse, TypeOK
    <2> QED
      BY <2>2, <2>4, <2>5
  <1>3. CASE Create(e)
    <2>1. Goto(e, "create", "start") /\ UNCHANGED <<server, contJSON, images, reported>>
      BY <1>3 DEF Create
    <2>2. /\ WaitGroupExact' /\ Phases' /\ pc' \in [Engines -> PCs]
          /\ pc[e] = "create" /\ pc'[e] = "start"
          /\ \A x \in Engines : x # e => pc'[x] = pc[x]
      BY <1>p, <2>1, GotoKeeps
    <2>3. \/ /\ contID' = [contID EXCEPT ![e] = TRUE]
             /\ cont' = [cont EXCEPT ![e] = "created"]
             /\ UNCHANGED faulty
          \/ faulty' = faulty \cup {e} /\ UNCHANGED <<contID, cont>>
      BY <1>3 DEF Create, Fails
    <2>4. TypeOK'
      BY <2>1, <2>2, <2>3 DEF TypeOK, server, Contents
    <2>5. OnCourse'
      BY <2>1, <2>2, <2>3 DEF OnCourse, TypeOK
    <2> QED
      BY <2>2, <2>4, <2>5
  <1>4. CASE StartContainer(e)
    <2>1. Goto(e, "start", "logs") /\ UNCHANGED <<server, contID, contJSON, images, reported>>
      BY <1>4 DEF StartContainer
    <2>2. /\ WaitGroupExact' /\ Phases' /\ pc' \in [Engines -> PCs]
          /\ pc[e] = "start" /\ pc'[e] = "logs"
          /\ \A x \in Engines : x # e => pc'[x] = pc[x]
      BY <1>p, <2>1, GotoKeeps
    <2>3. \/ contID[e] /\ cont' = [cont EXCEPT ![e] = "running"] /\ UNCHANGED faulty
          \/ faulty' = faulty \cup {e} /\ UNCHANGED cont
          \/ ~contID[e] /\ UNCHANGED <<cont, faulty>>
      BY <1>4 DEF StartContainer, Fails
    <2>4. TypeOK'
      BY <2>1, <2>2, <2>3 DEF TypeOK, server, Contents
    <2>5. OnCourse'
      BY <2>1, <2>2, <2>3 DEF OnCourse, TypeOK
    <2> QED
      BY <2>2, <2>4, <2>5
  <1> QED
    BY <1>1, <1>2, <1>3, <1>4

(* The calls of StartPlugin while the container runs and after.            *)
LEMMA FollowingKeeps ==
    ASSUME IInv, NEW e \in Engines, OpenLogs(e) \/ Tail(e) \/ Inspect(e)
    PROVE  IInv'
  <1> USE DEF IInv
  <1>p. {"logs", "tail", "inspect", "remove"} \subseteq PCs
    BY DEF PCs
  <1>1. CASE OpenLogs(e)
    <2>1. /\ Goto(e, "logs", "tail")
          /\ UNCHANGED <<server, contID, contJSON, cont, images, reported, faulty>>
      BY <1>1 DEF OpenLogs
    <2>2. /\ WaitGroupExact' /\ Phases' /\ pc' \in [Engines -> PCs]
          /\ pc[e] = "logs" /\ pc'[e] = "tail"
          /\ \A x \in Engines : x # e => pc'[x] = pc[x]
      BY <1>p, <2>1, GotoKeeps
    <2>3. TypeOK'
      BY <2>1, <2>2 DEF TypeOK, server
    <2>4. OnCourse'
      BY <2>1, <2>2 DEF OnCourse, TypeOK
    <2> QED
      BY <2>2, <2>3, <2>4
  <1>2. CASE Tail(e)
    <2>1. /\ Goto(e, "tail", "inspect")
          /\ UNCHANGED <<server, contID, contJSON, cont, images, reported>>
      BY <1>2 DEF Tail
    <2>2. /\ WaitGroupExact' /\ Phases' /\ pc' \in [Engines -> PCs]
          /\ pc[e] = "tail" /\ pc'[e] = "inspect"
          /\ \A x \in Engines : x # e => pc'[x] = pc[x]
      BY <1>p, <2>1, GotoKeeps
    <2>3. \/ cont[e] # "running" /\ UNCHANGED faulty
          \/ faulty' = faulty \cup {e}
      BY <1>2 DEF Tail, Fails
    <2>4. TypeOK'
      BY <2>1, <2>2, <2>3 DEF TypeOK, server
    <2>5. OnCourse'
      BY <2>1, <2>2, <2>3 DEF OnCourse, TypeOK
    <2> QED
      BY <2>2, <2>4, <2>5
  <1>3. CASE Inspect(e)
    <2>1. Goto(e, "inspect", "remove") /\ UNCHANGED <<server, contID, cont, images, reported>>
      BY <1>3 DEF Inspect
    <2>2. /\ WaitGroupExact' /\ Phases' /\ pc' \in [Engines -> PCs]
          /\ pc[e] = "inspect" /\ pc'[e] = "remove"
          /\ \A x \in Engines : x # e => pc'[x] = pc[x]
      BY <1>p, <2>1, GotoKeeps
    <2>3. \/ contJSON' = [contJSON EXCEPT ![e] = TRUE] /\ UNCHANGED faulty
          \/ faulty' = faulty \cup {e} /\ UNCHANGED contJSON
      BY <1>3 DEF Inspect, Fails
    <2>4. TypeOK'
      BY <2>1, <2>2, <2>3 DEF TypeOK, server
    <2>5. OnCourse'
      BY <2>1, <2>2, <2>3 DEF OnCourse, TypeOK
    <2> QED
      BY <2>2, <2>4, <2>5
  <1> QED
    BY <1>1, <1>2, <1>3

(* The deferred calls: one goroutine less, and the WaitGroup one down, which *)
(* was not zero before.                                                    *)
LEMMA RemoveKeeps ==
    ASSUME IInv, NEW e \in Engines, Remove(e)
    PROVE  IInv'
  <1> USE DEF IInv
  <1>1. /\ Goto(e, "remove", "done") /\ wg' = wg - 1
        /\ UNCHANGED <<alive, main, fan, contID, contJSON, images, reported>>
    BY DEF Remove
  <1>2. /\ pc[e] = "remove" /\ pc'[e] = "done" /\ pc' \in [Engines -> PCs]
        /\ \A x \in Engines : x # e => pc'[x] = pc[x]
    BY <1>1 DEF Goto, TypeOK, PCs
  <1>3. InFlight' = InFlight \ {e} /\ e \in InFlight
    BY <1>2 DEF InFlight
  <1>4. Cardinality(InFlight') = Cardinality(InFlight) - 1 /\ IsFiniteSet(InFlight')
    BY <1>3, InFlightFinite, FS_RemoveElement
  <1>5. WaitGroupExact' /\ wg' \in Nat
    BY <1>1, <1>4, FS_CardinalityType DEF WaitGroupExact
  <1>6. \/ contJSON[e] /\ cont' = [cont EXCEPT ![e] = "none"] /\ UNCHANGED faulty
        \/ faulty' = faulty \cup {e} /\ UNCHANGED cont
        \/ ~contJSON[e] /\ UNCHANGED <<cont, faulty>>
    BY DEF Remove, Fails
  <1>7. TypeOK'
    BY <1>1, <1>2, <1>5, <1>6 DEF TypeOK, Contents
  <1>8. Phases'
    BY <1>1, PhasesGoto DEF PCs
  <1>9. OnCourse'
    BY <1>1, <1>2, <1>6 DEF OnCourse, TypeOK
  <1> QED
    BY <1>5, <1>7, <1>8, <1>9

(* The engines, and whoever removes images.                                *)
LEMMA OutsideKeeps ==
    ASSUME IInv, NEW e \in Engines, Exit(e) \/ RemoveImage(e)
    PROVE  IInv'
  <1> USE DEF IInv
  <1>1. CASE Exit(e)
    <2>1. /\ cont[e] = "running" /\ cont' = [cont EXCEPT ![e] = "exited"]
          /\ \/ reported' = reported \cup {e} /\ UNCHANGED faulty
             \/ faulty' = faulty \cup {e} /\ UNCHANGED reported
          /\ UNCHANGED <<server, pc, contID, contJSON, images>>
      BY <1>1 DEF Exit, Fails
    <2>2. WaitGroupExact'
      BY <2>1, ExactUnchanged DEF server
    <2>3. TypeOK' /\ Phases'
      BY <2>1 DEF TypeOK, Phases, server, Contents
    <2>4. OnCourse'
      BY <2>1 DEF OnCourse, TypeOK
    <2> QED
      BY <2>2, <2>3, <2>4
  <1>2. CASE RemoveImage(e)
    <2>1. /\ images' = images \ {e}
          /\ UNCHANGED <<server, pc, contID, contJSON, cont, reported, faulty>>
      BY <1>2 DEF RemoveImage
    <2>2. WaitGroupExact'
      BY <2>1, ExactUnchanged DEF server
    <2>3. TypeOK' /\ Phases' /\ OnCourse'
      BY <2>1 DEF TypeOK, Phases, OnCourse, server
    <2> QED
      BY <2>2, <2>3
  <1> QED
    BY <1>1, <1>2

-----------------------------------------------------------------------------
(* IInv is inductive.                                                      *)
LEMMA FanoutStep == IInv /\ [Next]_vars => IInv'
  <1> SUFFICES ASSUME IInv, [Next]_vars PROVE IInv'
    OBVIOUS
  <1>1. CASE ScanRun
    BY <1>1, ScanRunKeeps
  <1>2. ASSUME NEW e \in Engines, StartPlugin(e)
        PROVE  IInv'
    <2>1. CASE Ping(e) \/ Require(e) \/ Create(e) \/ StartContainer(e)
      BY <2>1, StartingKeeps
    <2>2. CASE OpenLogs(e) \/ Tail(e) \/ Inspect(e)
      BY <2>2, FollowingKeeps
    <2>3. CASE PullPanics(e) \/ LogsPanic(e)
      BY <2>3, PanicKeeps DEF PullPanics, LogsPanic
    <2>4. CASE Remove(e)
      BY <2>4, RemoveKeeps
    <2> QED
      BY <1>2, <2>1, <2>2, <2>3, <2>4 DEF StartPlugin
  <1>3. ASSUME NEW e \in Engines, Exit(e) \/ RemoveImage(e)
        PROVE  IInv'
    BY <1>3, OutsideKeeps
  <1>4. CASE UNCHANGED vars
    <2>1. WaitGroupExact'
      BY <1>4, ExactUnchanged DEF vars, IInv
    <2>2. TypeOK' /\ Phases' /\ OnCourse'
      BY <1>4 DEF IInv, TypeOK, Phases, OnCourse, vars
    <2> QED
      BY <2>1, <2>2 DEF IInv
  <1> QED
    BY <1>1, <1>2, <1>3, <1>4 DEF Next

(* Every reachable state of every instance satisfies IInv.                 *)
THEOREM FanoutInvariant == Spec => []IInv
  <1> QED
    BY FanoutInit, FanoutStep, PTL DEF Spec

(* The variables keep their types: in particular the WaitGroup never goes   *)
(* below zero, which sync.WaitGroup answers with a panic.                  *)
THEOREM FanoutTypeCorrect == Spec => []TypeOK
  <1>1. IInv => TypeOK
    BY DEF IInv
  <1> QED
    BY <1>1, FanoutInvariant, PTL

(* In every phase the WaitGroup counts exactly the goroutines of            *)
(* StartPlugin that have not called Done, whatever docker calls fail.      *)
THEOREM WaitGroupCorrect == Spec => []WaitGroupExact
  <1>1. IInv => WaitGroupExact
    BY DEF IInv
  <1> QED
    BY <1>1, FanoutInvariant, PTL

(* No file engine is started before every intel engine is through.         *)
THEOREM IntelBeforeFiles == Spec => []IntelFirst
  <1>1. IInv => IntelFirst
    <2> SUFFICES ASSUME IInv, NEW e \in Files, pc[e] # "idle", NEW i \in Intel
                 PROVE  pc[i] = "done"
      BY DEF IntelFirst
    <2> QED
      BY DEF IInv, TypeOK, Mains, Phases, Engines
  <1> QED
    BY <1>1, FanoutInvariant, PTL

(* A scan that has returned runs no goroutine any more and leaves no        *)
(* container behind but that of an engine one of whose docker calls failed. *)
THEOREM ReturnsClean == Spec => []ReturnedClean
  <1>1. IInv => ReturnedClean
    <2> SUFFICES ASSUME IInv, main \in {"returned", "failed"}, NEW e \in Engines
                 PROVE  /\ pc[e] \in {"idle", "done"}
                        /\ e \in faulty \/ cont[e] = "none"
      BY DEF ReturnedClean
    <2>1. pc[e] \in {"idle", "done"}
      BY DEF IInv, Phases, Engines
    <2>2. e \in faulty \/ cont[e] = "none"
      BY <2>1 DEF IInv, OnCourse
    <2> QED
      BY <2>1, <2>2
  <1> QED
    BY <1>1, FanoutInvariant, PTL

(* A scan that has returned holds the result of every engine it was meant   *)
(* for, unless one of its docker calls or the engine itself failed.        *)
THEOREM ResultsAreIn == Spec => []EveryResultIsIn
  <1>1. IInv => EveryResultIsIn
    <2> SUFFICES ASSUME IInv, main = "returned", NEW e \in Intel \cup fan
                 PROVE  e \in reported \/ e \in faulty
      BY DEF EveryResultIsIn
    <2>1. e \in Engines
      BY DEF IInv, TypeOK, Engines
    <2>2. pc[e] = "done"
      BY DEF IInv, Phases
    <2> QED
      BY <2>1, <2>2 DEF IInv, OnCourse
  <1> QED
    BY <1>1, FanoutInvariant, PTL

-----------------------------------------------------------------------------
(* A launch puts to work exactly the engines it is for, none of which has   *)
(* been there before, and takes none of the others' ends back.             *)
LEMMA LaunchMaps ==
    ASSUME NEW S \in SUBSET Engines, Launch(S),
           pc \in [Engines -> PCs],
           \A e \in S : pc[e] = "idle",
           \A e \in Engines : pc[e] \in {"idle", "done"}
    PROVE  InFlight' = S /\ Through' = Through /\ S \cap Through = {}
  BY DEF Launch, InFlight, Through

(* An engine other than e is where it was, and e goes on without ending: to *)
(* those who wait for the run nothing has happened.                        *)
LEMMA GoingOnMaps ==
    ASSUME TypeOK, NEW e \in Engines, NEW from, NEW to, Goto(e, from, to),
           from \notin {"idle", "done"}, to \notin {"idle", "done"}
    PROVE  InFlight' = InFlight /\ Through' = Through
  BY DEF Goto, TypeOK, InFlight, Through

(* Steps of scanRun itself.                                                *)
LEMMA ScanRunMaps == IInv /\ ScanRun => [Run!Next]_Run!run
  <1> SUFFICES ASSUME IInv, ScanRun PROVE [Run!Next]_Run!run
    OBVIOUS
  <1> USE DEF IInv
  <1>1. CASE StartIntel
    <2>1. \A e \in Engines : pc[e] = "idle"
      BY <1>1 DEF StartIntel, Phases
    <2>2. InFlight' = Intel /\ Through' = Through
      BY <1>1, <2>1, LaunchMaps DEF StartIntel, Engines, TypeOK
    <2>3. Run!StartIntel
      BY <1>1, <2>2 DEF StartIntel, Run!StartIntel, Run!Goto, Phase
    <2> QED
      BY <2>3 DEF Run!Next
  <1>2. CASE NotInstalled
    <2>1. InFlight' = InFlight /\ Through' = Through
      BY <1>2 DEF NotInstalled, InFlight, Through
    <2>2. Run!GiveUp
      BY <1>2, <2>1 DEF NotInstalled, Run!GiveUp, Run!Goto, Phase
    <2> QED
      BY <2>2 DEF Run!Next
  <1>3. CASE Wait("intel", "mime")
    <2>1. InFlight = {}
      BY <1>3, NobodyInFlight DEF Wait, InFlight
    <2>2. InFlight' = InFlight /\ Through' = Through
      BY <1>3 DEF Wait, InFlight, Through
    <2>3. Run!IntelDone
      BY <1>3, <2>1, <2>2 DEF Wait, Run!IntelDone, Run!Goto, Phase
    <2> QED
      BY <2>3 DEF Run!Next
  <1>4. ASSUME NEW S \in MimeSets, StartEngines(S)
        PROVE  [Run!Next]_Run!run
    <2>1. S \subseteq Files /\ S \in SUBSET Engines
      BY DEF Engines, Files
    <2>2. /\ \A e \in Files : pc[e] = "idle"
          /\ \A e \in Intel : pc[e] = "done"
      BY <1>4 DEF StartEngines, Phases
    <2>3. \A e \in Engines : pc[e] \in {"idle", "done"}
      BY <2>2 DEF Engines
    <2>4. InFlight' = S /\ Through' = Through /\ S \cap Through = {}
      BY <1>4, <2>1, <2>2, <2>3, LaunchMaps DEF StartEngines, TypeOK
    <2>5. Run!StartEngines(S)
      BY <1>4, <2>4 DEF StartEngines, Run!StartEngines, Run!Goto, Phase
    <2> QED
      BY <2>5 DEF Run!Next
  <1>5. CASE NoMime
    <2>1. InFlight' = InFlight /\ Through' = Through
      BY <1>5 DEF NoMime, InFlight, Through
    <2>2. Run!GiveUp
      BY <1>5, <2>1 DEF NoMime, Run!GiveUp, Run!Goto, Phase
    <2> QED
      BY <2>2 DEF Run!Next
  <1>6. CASE Wait("engines", "returned")
    <2>1. InFlight = {}
      BY <1>6, NobodyInFlight DEF Wait, InFlight
    <2>2. InFlight' = InFlight /\ Through' = Through
      BY <1>6 DEF Wait, InFlight, Through
    <2>3. Run!Return
      BY <1>6, <2>1, <2>2 DEF Wait, Run!Return, Run!Goto, Phase
    <2> QED
      BY <2>3 DEF Run!Next
  <1> QED
    BY <1>1, <1>2, <1>3, <1>4, <1>5, <1>6 DEF ScanRun

(* The deferred calls of StartPlugin end the engine; what comes before them *)
(* nobody sees.                                                            *)
LEMMA StartPluginMaps ==
    ASSUME IInv, NEW e \in Engines, StartPlugin(e)
    PROVE  [Run!Next]_Run!run
  <1> USE DEF IInv
  <1>1. CASE PullPanics(e) \/ LogsPanic(e)
    <2>1. UNCHANGED <<main, pc>>
      BY <1>1 DEF PullPanics, LogsPanic, Panic
    <2> QED
      BY <2>1 DEF Run!run, Phase, InFlight, Through
  <1>2. CASE Remove(e)
    <2>1. UNCHANGED main /\ e \in InFlight
      BY <1>2 DEF Remove, Goto, InFlight
    <2>2. InFlight' = InFlight \ {e} /\ Through' = Through \cup {e}
      BY <1>2 DEF Remove, Goto, TypeOK, InFlight, Through
    <2>3. Run!End(e)
      BY <2>1, <2>2 DEF Run!End, Phase
    <2> QED
      BY <2>1, <2>3 DEF Run!Next
  <1>3. CASE Ping(e) \/ Require(e) \/ Create(e) \/ StartContainer(e) \/ OpenLogs(e)
                \/ Tail(e) \/ Inspect(e)
    <2>1. UNCHANGED main
      BY <1>3 DEF Ping, Require, Create, StartContainer, OpenLogs, Tail, Inspect, server
    <2>2. PICK from, to \in PCs \ {"idle", "done"} : Goto(e, from, to)
      BY <1>3 DEF Ping, Require, Create, StartContainer, OpenLogs, Tail, Inspect, PCs
    <2>3. InFlight' = InFlight /\ Through' = Through
      BY <2>2, GoingOnMaps
    <2> QED
      BY <2>1, <2>3 DEF Run!run, Phase
  <1> QED
    BY <1>1, <1>2, <1>3 DEF StartPlugin

(* Every step is one of TwoPhaseRun or none there.                         *)
LEMMA FanoutMaps == IInv /\ [Next]_vars => [Run!Next]_Run!run
  <1> SUFFICES ASSUME IInv, [Next]_vars PROVE [Run!Next]_Run!run
    OBVIOUS
  <1>1. CASE ScanRun
    BY <1>1, ScanRunMaps
  <1>2. ASSUME NEW e \in Engines, StartPlugin(e)
        PROVE  [Run!Next]_Run!run
    BY <1>2, StartPluginMaps
  <1>3. ASSUME NEW e \in Engines, Exit(e) \/ RemoveImage(e)
        PROVE  [Run!Next]_Run!run
    <2>1. UNCHANGED <<main, pc>>
      BY <1>3 DEF Exit, RemoveImage, server
    <2> QED
      BY <2>1 DEF Run!run, Phase, InFlight, Through
  <1>4. CASE UNCHANGED vars
    BY <1>4 DEF vars, Run!run, Phase, InFlight, Through
  <1> QED
    BY <1>1, <1>2, <1>3, <1>4 DEF Next

(* Whatever docker calls fail and wherever a panic stops it, the run starts  *)
(* the intel engines, awaits them all, starts those of one mime type,       *)
(* awaits them and returns, or gives up between two phases.                *)
THEOREM FanoutImplements == Spec => ImplementsTwoPhaseRun
  <1>1. Init => Run!Init
    BY DEF Init, Run!Init, Phase, InFlight, Through
  <1> QED
    BY <1>1, FanoutInvariant, FanoutMaps, PTL DEF Spec, ImplementsTwoPhaseRun, Run!Spec
=============================================================================
