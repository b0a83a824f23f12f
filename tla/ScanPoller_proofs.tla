-------------------------- MODULE ScanPoller_proofs --------------------------
(***************************************************************************)
(* Machine-checked proofs, for any uploads, engines, thresholds and faults, *)
(* that the timer runs exactly while a scan is in progress and that a scan  *)
(* is dropped with every report that did not come late.  The argument is    *)
(* about one entry at a time: what a list that a tick awaits can be out of  *)
(* date about is decided by what happened since the request was answered,  *)
(* and a count of quiet polls never runs ahead of the silence it stands     *)
(* for.  That the dropzone is never left at `Scanning' for good is shown    *)
(* apart from it.                                                          *)
(***************************************************************************)
EXTENDS ScanPoller, TLAPS

-----------------------------------------------------------------------------
(* The types the argument needs, those of an awaited list included.         *)
Counters == /\ last \in [Uploads -> 0 .. Engines]
            /\ stable \in [Uploads -> 0 .. Done]
            /\ missing \in [Uploads -> 0 .. Absent]
            /\ age \in [Uploads -> 0 .. Hard + 1]
            /\ reported \in [Uploads -> 0 .. Engines]
            /\ silent \in [Uploads -> 0 .. Quiet]

Sets == /\ active \subseteq uploaded
        /\ listed \subseteq uploaded
        /\ uploaded \subseteq Uploads
        /\ doubtful \subseteq uploaded
        /\ sending \subseteq Uploads \ uploaded
        /\ refreshing \subseteq uploaded

Awaited == answer # Nothing =>
              /\ inFlight
              /\ DOMAIN answer \subseteq uploaded
              /\ \A u \in DOMAIN answer : answer[u] \in 0 .. Engines

Display == /\ timer \in BOOLEAN
           /\ inFlight \in BOOLEAN
           /\ page \in Uploads \cup {List, Landing}
           /\ view \in Uploads \cup Dropzones \cup {Other}
           /\ pending \subseteq Uploads \cup {List}
           /\ uploading \in BOOLEAN
           /\ events \in 0 .. MaxEvents

(* An upload that is not answered has no entry, no report and no age.       *)
Fresh(u) == u \notin uploaded =>
    /\ stable[u] = 0 /\ missing[u] = 0 /\ last[u] = 0
    /\ reported[u] = 0 /\ age[u] = 0 /\ silent[u] = 0

(* A scan that was never left out of a list, nor polled late, is listed,    *)
(* and is in the awaited list, unless its entry is new.                     *)
Prompt(u) ==
    u \in uploaded \ doubtful =>
       /\ u \in listed
       /\ u \in active => missing[u] <= 1
       /\ u \in active /\ answer # Nothing /\ (missing[u] = 1 \/ stable[u] = Done)
             => u \in DOMAIN answer

Types == Counters /\ Sets /\ Awaited /\ Display
Entries == \A u \in Uploads : Fresh(u) /\ Prompt(u)
IInv == Types /\ TimerWhileActive /\ Entries

-----------------------------------------------------------------------------
(* The constants are numbers.                                              *)
LEMMA Numbers == /\ Engines \in Nat /\ MaxEvents \in Nat
                 /\ Quiet \in Nat /\ Absent \in Nat /\ Settle \in Nat /\ Hard \in Nat
                 /\ Engines > 0 /\ Quiet > 0 /\ Absent > 1
                 /\ Quiet <= Settle /\ Settle < Hard
  BY EnginesAssumption, ThresholdAssumption, BoundAssumption

(* At first there is no entry, no timer and no scan.                        *)
LEMMA PollerInit == Init => IInv
  <1> SUFFICES ASSUME Init PROVE IInv
    OBVIOUS
  <1>1. Counters
    BY Numbers DEF Init, Counters, Done
  <1>2. Sets /\ Awaited /\ TimerWhileActive
    BY DEF Init, Sets, Awaited, TimerWhileActive
  <1>3. Display
    <2>1. view \in Uploads \cup Dropzones \cup {Other}
      BY DEF Init, Dropzones
    <2>2. events \in 0 .. MaxEvents
      BY Numbers DEF Init
    <2> QED
      BY <2>1, <2>2 DEF Init, Display
  <1>4. Entries
    BY DEF Init, Entries, Fresh, Prompt
  <1> QED
    BY <1>1, <1>2, <1>3, <1>4 DEF IInv, Types

(* What a period makes of the ages and of the silences.                     *)
LEMMA Periods ==
    ASSUME Counters, PeriodPasses
    PROVE  /\ age' \in [Uploads -> 0 .. Hard + 1] /\ silent' \in [Uploads -> 0 .. Quiet]
           /\ \A u \in Uploads :
                IF u \in uploaded
                  THEN /\ age'[u] = AtMost(age[u] + 1, Hard + 1)
                       /\ silent'[u] = AtMost(silent[u] + 1, Quiet)
                  ELSE age'[u] = 0 /\ silent'[u] = 0
  <1>1. \A u \in Uploads : /\ AtMost(age[u] + 1, Hard + 1) \in 0 .. Hard + 1
                           /\ AtMost(silent[u] + 1, Quiet) \in 0 .. Quiet
    BY Numbers DEF Counters, AtMost
  <1> QED
    BY <1>1, Numbers DEF PeriodPasses

-----------------------------------------------------------------------------
(* A step that concerns only what is on the screen and what is being sent   *)
(* leaves the entries as they are.                                         *)
LEMMA ScreenKeeps ==
    ASSUME IInv, UNCHANGED <<entries, age, timer, inFlight, answer, server, silent>>,
           Display', sending' \subseteq Uploads \ uploaded, refreshing' \subseteq uploaded
    PROVE  IInv'
  BY DEF IInv, Types, Counters, Sets, Awaited, Display, TimerWhileActive, Entries, Fresh,
         Prompt, entries, server, Done

(* The user's steps, and what is rendered of them.                         *)
LEMMA UserKeeps ==
    ASSUME IInv,
           \/ RenderList \/ Back
           \/ \E u \in Uploads : \/ Drop(u) \/ UploadFails(u) \/ Refresh(u)
                                 \/ RenderDetail(u) \/ Open(u)
    PROVE  IInv'
  <1>0. Display /\ sending \subseteq Uploads \ uploaded /\ refreshing \subseteq uploaded
    BY DEF IInv, Types, Sets
  <1>1. CASE RenderList
    <2>1. Display' /\ sending' \subseteq Uploads \ uploaded /\ refreshing' \subseteq uploaded
      BY <1>0, <1>1 DEF RenderList, Listing, Dropzone, Dropzones, Display, form
    <2> QED
      BY <2>1, <1>1, ScreenKeeps DEF RenderList, form, entries, server
  <1>2. CASE Back
    <2>1. Display' /\ sending' \subseteq Uploads \ uploaded /\ refreshing' \subseteq uploaded
      BY <1>0, <1>2, Numbers DEF Back, Event, Display, form
    <2> QED
      BY <2>1, <1>2, ScreenKeeps DEF Back, form, entries, server
  <1>3. ASSUME NEW u \in Uploads, Drop(u) PROVE IInv'
    <2>1. Display' /\ sending' \subseteq Uploads \ uploaded /\ refreshing' \subseteq uploaded
      BY <1>0, <1>3 DEF Drop, Dropzones, Display
    <2> QED
      BY <2>1, <1>3, ScreenKeeps DEF Drop, entries, server
  <1>4. ASSUME NEW u \in Uploads, UploadFails(u) PROVE IInv'
    <2>1. Display' /\ sending' \subseteq Uploads \ uploaded /\ refreshing' \subseteq uploaded
      BY <1>0, <1>4 DEF UploadFails, Dropzones, Display
    <2> QED
      BY <2>1, <1>4, ScreenKeeps DEF UploadFails, entries, server
  <1>5. ASSUME NEW u \in Uploads, Refresh(u) PROVE IInv'
    <2>1. sending' \subseteq Uploads \ uploaded /\ refreshing' \subseteq uploaded
      BY <1>0, <1>5 DEF Refresh
    <2>2. view' \in {view, "idle", "scanning"}
      BY <1>5 DEF Refresh, Listing, Dropzone
    <2>4. uploading' = uploading \/ uploading' = FALSE
      BY <1>5 DEF Refresh
    <2>5. Display'
      BY <1>0, <1>5, <2>2, <2>4 DEF Refresh, Dropzones, Display
    <2> QED
      BY <2>1, <2>5, <1>5, ScreenKeeps DEF Refresh, entries, server
  <1>6. ASSUME NEW u \in Uploads, RenderDetail(u) PROVE IInv'
    <2>1. Display' /\ sending' \subseteq Uploads \ uploaded /\ refreshing' \subseteq uploaded
      BY <1>0, <1>6 DEF RenderDetail, Display, form
    <2> QED
      BY <2>1, <1>6, ScreenKeeps DEF RenderDetail, form, entries, server
  <1>7. ASSUME NEW u \in Uploads, Open(u) PROVE IInv'
    <2>1. Display' /\ sending' \subseteq Uploads \ uploaded /\ refreshing' \subseteq uploaded
      BY <1>0, <1>7, Numbers DEF Open, Event, Display, form
    <2> QED
      BY <2>1, <1>7, ScreenKeeps DEF Open, form, entries, server
  <1> QED
    BY <1>1, <1>2, <1>3, <1>4, <1>5, <1>6, <1>7

(* An answered upload: a new entry, and the timer.                          *)
LEMMA UploadKeeps ==
    ASSUME IInv, NEW u \in Uploads, Upload(u)
    PROVE  IInv'
  <1> USE DEF IInv, Types
  <1>1. /\ u \in sending /\ sending' = sending \ {u} /\ uploading' = FALSE
        /\ refreshing' = refreshing \cup {u}
        /\ uploaded' = uploaded \cup {u} /\ listed' = listed \cup {u}
        /\ active' = active \cup {u} /\ timer' = TRUE
        /\ UNCHANGED <<last, stable, missing, age, inFlight, answer, page, view,
                       pending, reported, doubtful, silent, events>>
    BY DEF Upload, Answered, screen
  <1>2. u \notin uploaded /\ u \notin active /\ u \notin doubtful
    BY <1>1 DEF Sets
  <1>3. Counters' /\ Sets' /\ Awaited' /\ Display' /\ TimerWhileActive'
    BY <1>1 DEF Counters, Sets, Awaited, Display, TimerWhileActive
  <1>4. stable[u] = 0 /\ missing[u] = 0 /\ age[u] = 0
    BY <1>2 DEF Entries, Fresh
  <1>5. answer # Nothing => u \notin DOMAIN answer
    BY <1>2 DEF Awaited
  <1>6. Prompt(u)'
    BY <1>1, <1>4, <1>5, Numbers DEF Prompt, Done
  <1>7. ASSUME NEW v \in Uploads, v # u PROVE Prompt(v)'
    BY <1>1, <1>7 DEF Entries, Prompt, Done
  <1>8. ASSUME NEW v \in Uploads PROVE Fresh(v)'
    BY <1>1 DEF Entries, Fresh
  <1> QED
    BY <1>3, <1>6, <1>7, <1>8 DEF Entries

(* A poll begins while none is in flight: nothing is awaited yet.           *)
LEMMA PollKeeps ==
    ASSUME IInv, Poll
    PROVE  IInv'
  <1> USE DEF IInv, Types
  <1>1. ~inFlight /\ answer = Nothing /\ active # {}
    BY DEF Poll, Awaited, TimerWhileActive
  <1>2. /\ inFlight' = TRUE /\ PeriodPasses
        /\ stable' = [u \in Uploads |->
                        IF u \in active /\ age'[u] > Hard THEN Done ELSE stable[u]]
        /\ UNCHANGED <<timer, active, last, missing, answer, page, view, pending,
                       uploading, sending, refreshing, uploaded, listed, reported,
                       doubtful, events>>
    BY <1>1 DEF Poll, screen, form, server
  <1>3. stable' \in [Uploads -> 0 .. Done]
    BY <1>2, Numbers DEF Counters, Done
  <1>4. Counters' /\ Sets' /\ Awaited' /\ Display' /\ TimerWhileActive'
    BY <1>1, <1>2, <1>3, Periods DEF Counters, Sets, Awaited, Display, TimerWhileActive
  <1>5. ASSUME NEW u \in Uploads PROVE Fresh(u)'
    BY <1>2, Periods DEF Entries, Fresh, Sets
  <1>6. ASSUME NEW u \in Uploads PROVE Prompt(u)'
    BY <1>1, <1>2, Periods DEF Entries, Prompt
  <1> QED
    BY <1>4, <1>5, <1>6 DEF Entries

(* A period without a poll casts doubt on every entry.                     *)
LEMMA PassKeeps ==
    ASSUME IInv, Pass
    PROVE  IInv'
  <1> USE DEF IInv, Types
  <1>1. /\ PeriodPasses /\ doubtful' = doubtful \cup active
        /\ events < MaxEvents /\ events' = events + 1
        /\ UNCHANGED <<timer, inFlight, active, last, stable, missing, answer, page, view,
                       pending, uploading, sending, refreshing, uploaded, listed,
                       reported>>
    BY DEF Pass, Event, entries, screen, form
  <1>2. Counters' /\ Sets' /\ Awaited' /\ Display' /\ TimerWhileActive'
    BY <1>1, Periods, Numbers DEF Counters, Sets, Awaited, Display, TimerWhileActive
  <1>3. ASSUME NEW u \in Uploads PROVE Fresh(u)'
    BY <1>1, Periods DEF Entries, Fresh, Sets
  <1>4. ASSUME NEW u \in Uploads PROVE Prompt(u)'
    BY <1>1, Periods DEF Entries, Prompt
  <1> QED
    BY <1>2, <1>3, <1>4 DEF Entries

(* A list that is answered now holds what is listed, as it is.             *)
LEMMA AnswerKeeps ==
    ASSUME IInv, Answer
    PROVE  IInv'
  <1> USE DEF IInv, Types
  <1>1. /\ inFlight /\ answer' = [u \in listed |-> reported[u]]
        /\ UNCHANGED <<timer, inFlight, active, last, stable, missing, age, page, view,
                       pending, uploading, sending, refreshing, uploaded, listed,
                       reported, doubtful, silent, events>>
    BY DEF Answer, SearchScans, entries, screen, form, server
  <1>2. DOMAIN answer' = listed /\ \A u \in listed : answer'[u] = reported[u]
    BY <1>1
  <1>3. Awaited'
    BY <1>1, <1>2 DEF Awaited, Sets, Counters
  <1>4. Counters' /\ Sets' /\ Display' /\ TimerWhileActive'
    BY <1>1 DEF Counters, Sets, Display, TimerWhileActive
  <1>5. ASSUME NEW u \in Uploads PROVE Fresh(u)'
    BY <1>1 DEF Entries, Fresh
  <1>6. ASSUME NEW u \in Uploads PROVE Prompt(u)'
    BY <1>1, <1>2 DEF Entries, Prompt, Done
  <1> QED
    BY <1>3, <1>4, <1>5, <1>6 DEF Entries

(* A failed request ends the tick.                                         *)
LEMMA ApiFailsKeeps ==
    ASSUME IInv, ApiFails
    PROVE  IInv'
  BY DEF IInv, Types, Counters, Sets, Awaited, Display, TimerWhileActive, Entries, Fresh,
         Prompt, Done, ApiFails, entries, screen, form, server

-----------------------------------------------------------------------------
(* What looking at one entry makes of its counters.                        *)
LEMMA Looking ==
    ASSUME IInv, answer # Nothing, NEW u \in Uploads
    PROVE  /\ NewStable(u) \in 0 .. Done
           /\ (IF Changed(u) THEN answer[u] ELSE last[u]) \in 0 .. Engines
           /\ Unseen(u) /\ NewStable(u) # Done => missing[u] + 1 \in 0 .. Absent
  <1> USE DEF IInv, Types, Counters
  <1>1. NewStable(u) \in 0 .. Done
    BY Numbers DEF NewStable, Done, AtMost
  <1>2. (IF Changed(u) THEN answer[u] ELSE last[u]) \in 0 .. Engines
    BY DEF Changed, Listed, Awaited
  <1>3. Unseen(u) /\ NewStable(u) # Done => missing[u] + 1 \in 0 .. Absent
    BY Numbers DEF NewStable, Unseen, Changed
  <1> QED
    BY <1>1, <1>2, <1>3

(* The rest of a tick.                                                     *)
LEMMA ReceiveKeeps ==
    ASSUME IInv, Receive
    PROVE  IInv'
  <1> USE DEF IInv, Types
  <1>1. /\ answer # Nothing /\ answer' = Nothing
        /\ last' = [u \in Uploads |-> IF Changed(u) THEN answer[u] ELSE last[u]]
        /\ active' = {u \in active : NewStable(u) # Done}
        /\ stable' = [u \in Uploads |-> IF u \in active' THEN NewStable(u) ELSE 0]
        /\ missing' = [u \in Uploads |->
                          IF Unseen(u) /\ u \in active' THEN missing[u] + 1 ELSE 0]
        /\ inFlight' = FALSE /\ timer' = (active' # {})
        /\ UNCHANGED <<age, page, uploading, sending, refreshing, uploaded, listed,
                       reported, doubtful, silent, events>>
    BY DEF Receive, Look, form, server
  <1>2. Counters'
    <2>1. missing' \in [Uploads -> 0 .. Absent]
      BY <1>1, Looking, Numbers
    <2>2. stable' \in [Uploads -> 0 .. Done]
      BY <1>1, Looking, Numbers DEF Done
    <2> QED
      BY <1>1, <2>1, <2>2, Looking DEF Counters
  <1>3. Sets' /\ Awaited' /\ TimerWhileActive'
    BY <1>1 DEF Sets, Awaited, TimerWhileActive
  <1>4. Display'
    <2>1. /\ view' \in Uploads \cup Dropzones \cup {Other}
          /\ pending' \subseteq Uploads \cup {List}
      BY DEF Receive, Show, Display, Dropzone, Dropzones
    <2> QED
      BY <1>1, <2>1 DEF Display
  <1>5. ASSUME NEW u \in Uploads PROVE Fresh(u)'
    <2>1. SUFFICES ASSUME u \notin uploaded PROVE Fresh(u)'
      BY <1>1 DEF Fresh
    <2>2. u \notin active /\ Fresh(u)
      BY <2>1 DEF Sets, Entries
    <2>3. ~Changed(u) /\ u \notin active'
      BY <1>1, <2>2 DEF Changed
    <2> QED
      BY <1>1, <2>2, <2>3 DEF Fresh
  <1>6. ASSUME NEW u \in Uploads PROVE Prompt(u)'
    <2>1. SUFFICES ASSUME u \in uploaded \ doubtful, u \in active' PROVE missing'[u] <= 1
      BY <1>1, <2>1 DEF Prompt, Entries
    <2>2. Prompt(u) /\ missing[u] \in 0 .. Absent /\ u \in active
      BY <1>1, <2>1 DEF Entries, Counters
    <2> QED
      BY <1>1, <2>1, <2>2, Numbers DEF Prompt, Unseen, Listed
  <1> QED
    BY <1>2, <1>3, <1>4, <1>5, <1>6 DEF Entries

-----------------------------------------------------------------------------
(* The engines and the list of the server.                                 *)
LEMMA ServerKeeps ==
    ASSUME IInv, NEW u \in Uploads, Report(u) \/ Unlist(u) \/ Relist(u)
    PROVE  IInv'
  <1> USE DEF IInv, Types
  <1>1. CASE Report(u)
    <2>1. /\ u \in uploaded /\ reported[u] < Engines
          /\ reported' = [reported EXCEPT ![u] = reported[u] + 1]
          /\ silent' = [silent EXCEPT ![u] = 0]
          /\ doubtful \subseteq doubtful' /\ doubtful' \subseteq doubtful \cup {u}
          /\ UNCHANGED <<active, last, stable, missing, age, timer, inFlight, answer, page,
                         view, pending, uploading, sending, refreshing, uploaded,
                         listed, events>>
      BY <1>1 DEF Report, entries, screen, form
    <2>2. Counters' /\ Sets' /\ Awaited' /\ Display' /\ TimerWhileActive'
      BY <2>1, Numbers DEF Counters, Sets, Awaited, Display, TimerWhileActive
    <2>3. ASSUME NEW v \in Uploads PROVE Fresh(v)' /\ Prompt(v)'
      <3>1. Fresh(v)'
        BY <2>1 DEF Entries, Fresh
      <3>2. Prompt(v)'
        BY <2>1 DEF Entries, Prompt, Done
      <3> QED
        BY <3>1, <3>2
    <2> QED
      BY <2>2, <2>3 DEF Entries
  <1>2. CASE Unlist(u)
    BY <1>2, Numbers DEF Unlist, Event, Counters, Sets, Awaited, Display, TimerWhileActive,
                         Entries, Fresh, Prompt, Done, entries, screen, form
  <1>3. CASE Relist(u)
    BY <1>3 DEF Relist, Counters, Sets, Awaited, Display, TimerWhileActive,
                Entries, Fresh, Prompt, Done, entries, screen, form
  <1> QED
    BY <1>1, <1>2, <1>3

(* Every step keeps the invariant.                                         *)
LEMMA PollerNext == IInv /\ [Next]_vars => IInv'
  <1> SUFFICES ASSUME IInv, [Next]_vars PROVE IInv'
    OBVIOUS
  <1>1. CASE UNCHANGED vars
    BY <1>1 DEF IInv, Types, Counters, Sets, Awaited, Display, TimerWhileActive, Entries,
                Fresh, Prompt, Done, vars, entries, screen, form, server
  <1>2. CASE Next
    BY <1>2, UserKeeps, UploadKeeps, PollKeeps, PassKeeps, AnswerKeeps, ApiFailsKeeps,
       ReceiveKeeps, ServerKeeps
    DEF Next
  <1> QED
    BY <1>1, <1>2

-----------------------------------------------------------------------------
(* The strengthened invariant holds in every reachable state.              *)
THEOREM PollerInvariant == Spec => []IInv
  BY PollerInit, PollerNext, PTL DEF Spec

(* Every variable keeps its type (app.js:13-21, 607-686).                  *)
THEOREM PollerTypeCorrect == Spec => []TypeOK
  <1>1. IInv => TypeOK
    BY DEF IInv, Types, Counters, Sets, Awaited, Display, TypeOK
  <1> QED
    BY <1>1, PollerInvariant, PTL

(* The interval runs exactly while there is an entry to poll for, however   *)
(* uploads, ticks and failures interleave (app.js:618-619, 626, 681).      *)
THEOREM TimerIsExact == Spec => []TimerWhileActive
  <1>1. IInv => TimerWhileActive
    BY DEF IInv
  <1> QED
    BY <1>1, PollerInvariant, PTL

-----------------------------------------------------------------------------
(* The form is busy only while a file is on its way.                       *)
Busy == uploading => sending # {}
Passing == Frozen => List \in pending \/ uploading

SInv == Busy /\ Passing

(* What is rendered as the list is up to date with the entries.             *)
LEMMA ListingIsFresh ==
    ASSUME Listing, active' = active
    PROVE  ~Frozen'
  BY DEF Listing, Frozen, Dropzone

(* A step that leaves the form, and what Frozen is about, leaves Passing.   *)
LEMMA NothingShown ==
    ASSUME SInv, UNCHANGED <<page, view, pending, uploading, sending>>,
           active = {} \/ active' # {}
    PROVE  SInv'
  BY DEF SInv, Busy, Passing, Frozen, OnList

(* The steps of the form.                                                  *)
LEMMA FormPasses ==
    ASSUME SInv, NEW u \in Uploads,
           Drop(u) \/ Upload(u) \/ UploadFails(u) \/ Refresh(u)
    PROVE  SInv'
  <1>1. CASE Drop(u)
    BY <1>1 DEF Drop, SInv, Busy, Passing, Frozen
  <1>2. CASE Upload(u)
    BY <1>2 DEF Upload, Answered, SInv, Busy, Passing, Frozen
  <1>3. CASE UploadFails(u)
    BY <1>3 DEF UploadFails, SInv, Busy, Passing, Frozen, OnList, Dropzones, entries
  <1>4. CASE Refresh(u)
    <2>1. UNCHANGED <<active, page, pending, sending>>
      BY <1>4 DEF Refresh, entries
    <2>2. Busy'
      BY <1>4, <2>1 DEF Refresh, SInv, Busy
    <2>3. CASE Listing
      BY <2>1, <2>2, <2>3, ListingIsFresh DEF SInv, Passing
    <2>4. CASE ~OnScansList
      BY <2>1, <2>2, <2>4 DEF SInv, Passing, Frozen, OnScansList
    <2>5. CASE UNCHANGED <<uploading, view>>
      BY <2>1, <2>5, NothingShown
    <2> QED
      BY <1>4, <2>3, <2>4, <2>5 DEF Refresh
  <1> QED
    BY <1>1, <1>2, <1>3, <1>4

(* A page that is rendered, opened or left.                                *)
LEMMA PagesPass ==
    ASSUME SInv, RenderList \/ Back \/ \E u \in Uploads : RenderDetail(u) \/ Open(u)
    PROVE  SInv'
  <1>1. CASE RenderList
    <2>1. UNCHANGED <<active, uploading, sending>>
      BY <1>1 DEF RenderList, form, entries
    <2>2. ~Frozen'
      BY <1>1, <2>1, ListingIsFresh DEF RenderList, Frozen, Other
    <2> QED
      BY <2>1, <2>2 DEF SInv, Busy, Passing
  <1>2. CASE Back
    BY <1>2 DEF Back, SInv, Busy, Passing, form
  <1>3. ASSUME NEW u \in Uploads, RenderDetail(u) PROVE SInv'
    BY <1>3, PagesAssumption
       DEF RenderDetail, SInv, Busy, Passing, Frozen, Dropzones, Other, form
  <1>4. ASSUME NEW u \in Uploads, Open(u) PROVE SInv'
    BY <1>4, PagesAssumption DEF Open, SInv, Busy, Passing, Frozen, form
  <1> QED
    BY <1>1, <1>2, <1>3, <1>4

(* A tick that drops the last entry renders the list then and there, unless *)
(* a file is uploaded or another page is open.                             *)
LEMMA TickPasses ==
    ASSUME SInv, Receive
    PROVE  SInv'
  <1>1. /\ UNCHANGED <<page, uploading, sending>>
        /\ page = List /\ ~uploading => view' = Dropzone(active')
    BY DEF Receive, Show, form
  <1>2. Busy'
    BY <1>1 DEF SInv, Busy
  <1>3. Passing'
    BY <1>1 DEF Passing, Frozen, Dropzone
  <1> QED
    BY <1>2, <1>3 DEF SInv

(* Nothing else is seen on the screen.                                     *)
LEMMA PollerPasses == SInv /\ [Next]_vars => SInv'
  <1> SUFFICES ASSUME SInv, [Next]_vars PROVE SInv'
    OBVIOUS
  <1>1. CASE Poll \/ Pass \/ Answer \/ ApiFails
    <2>1. UNCHANGED <<active, page, view, pending, uploading, sending>>
      BY <1>1 DEF Poll, Pass, Answer, ApiFails, entries, screen, form
    <2> QED
      BY <2>1, NothingShown
  <1>2. ASSUME NEW u \in Uploads, Report(u) \/ Unlist(u) \/ Relist(u) PROVE SInv'
    <2>1. UNCHANGED <<active, page, view, pending, uploading, sending>>
      BY <1>2 DEF Report, Unlist, Relist, entries, screen, form
    <2> QED
      BY <2>1, NothingShown
  <1>3. CASE UNCHANGED vars
    BY <1>3, NothingShown DEF vars, entries, screen, form
  <1> QED
    BY <1>1, <1>2, <1>3, FormPasses, PagesPass, TickPasses DEF Next

(* The dropzone is left at `Scanning' without a scan in progress only while *)
(* something is under way that renders it anew (app.js:655-657).           *)
THEOREM FrozenNeverForGood == Spec => []FrozenInPassing
  <1>1. Init => SInv
    BY DEF Init, SInv, Busy, Passing, Frozen
  <1>2. SInv => FrozenInPassing
    BY DEF SInv, Busy, Passing, FrozenInPassing
  <1> QED
    BY <1>1, <1>2, PollerPasses, PTL DEF Spec

-----------------------------------------------------------------------------
(* The counts only go up: an entry has no more than the list that is        *)
(* awaited, which has no more than the server.                             *)
Counted(u) == /\ last[u] <= reported[u]
              /\ answer # Nothing /\ u \in DOMAIN answer
                    => last[u] <= answer[u] /\ answer[u] <= reported[u]

(* An entry that is given up but not dropped yet is old.                   *)
Old(u) == u \in active /\ stable[u] = Done => age[u] > Hard

RInv == \A u \in Uploads : Counted(u) /\ Old(u)

(* Steps that touch neither the entries nor their counts.                  *)
LEMMA NothingCounted ==
    ASSUME RInv, UNCHANGED <<active, last, stable, age, reported>>,
           answer' \in {answer, Nothing}
    PROVE  RInv'
  BY DEF RInv, Counted, Old, Done

(* The ages only go up.                                                    *)
LEMMA Ageing ==
    ASSUME IInv, PeriodPasses, NEW u \in Uploads, u \in uploaded
    PROVE  /\ age[u] > Settle => age'[u] > Settle
           /\ age[u] > Hard => age'[u] > Hard
  <1>1. age'[u] = AtMost(age[u] + 1, Hard + 1) /\ age[u] \in 0 .. Hard + 1
    BY Periods DEF IInv, Types, Counters
  <1> QED
    BY <1>1, Numbers DEF AtMost

(* Every step keeps the counts going up and the entries that are given up   *)
(* old.                                                                    *)
LEMMA CountingKeeps == IInv /\ RInv /\ [Next]_vars => RInv'
  <1> SUFFICES ASSUME IInv, RInv, [Next]_vars PROVE RInv'
    OBVIOUS
  <1>0. Types
    BY DEF IInv
  <1>1. CASE \/ ApiFails \/ RenderList \/ Back \/ UNCHANGED vars
             \/ \E u \in Uploads : \/ Drop(u) \/ UploadFails(u) \/ Refresh(u)
                                   \/ RenderDetail(u) \/ Open(u)
                                   \/ Unlist(u) \/ Relist(u)
    <2>1. UNCHANGED <<active, last, stable, age, reported, answer>>
      BY <1>1 DEF ApiFails, RenderList, Back, Drop, UploadFails, Refresh, RenderDetail, Open,
                  Unlist, Relist, vars, entries, server
    <2> QED
      BY <2>1, NothingCounted
  <1>2. ASSUME NEW u \in Uploads, Upload(u) PROVE RInv'
    <2>1. u \notin uploaded
      BY <1>0, <1>2 DEF Upload, Answered, Types, Sets
    <2>2. stable[u] # Done
      BY <2>1, Numbers DEF IInv, Entries, Fresh, Done
    <2>3. /\ active' = active \cup {u}
          /\ UNCHANGED <<last, stable, age, reported, answer>>
      BY <1>2 DEF Upload, Answered
    <2> QED
      BY <2>2, <2>3 DEF RInv, Counted, Old, Done
  <1>3. CASE Poll \/ Pass
    <2>1. UNCHANGED <<active, last, reported, answer>> /\ PeriodPasses
      BY <1>3 DEF Poll, Pass, entries, server
    <2>2. ASSUME NEW u \in Uploads PROVE Old(u)'
      <3>1. SUFFICES ASSUME u \in active, stable'[u] = Done PROVE age'[u] > Hard
        BY <2>1 DEF Old, Done
      <3>2. u \in uploaded
        BY <1>0, <3>1 DEF Types, Sets
      <3>3. CASE stable[u] = Done
        BY <2>1, <3>1, <3>2, <3>3, Ageing DEF RInv, Old
      <3>4. CASE stable[u] # Done
        BY <1>3, <3>1, <3>4 DEF Poll, Pass, entries
      <3> QED
        BY <3>3, <3>4
    <2> QED
      BY <2>1, <2>2 DEF RInv, Counted
  <1>4. CASE Answer
    <2>1. /\ answer' = [u \in listed |-> reported[u]]
          /\ UNCHANGED <<active, last, stable, age, reported>>
      BY <1>4 DEF Answer, SearchScans, entries, server
    <2>2. \A u \in Uploads : last[u] \in 0 .. Engines /\ reported[u] \in 0 .. Engines
      BY <1>0 DEF Types, Counters
    <2> QED
      BY <2>1, <2>2, Numbers DEF RInv, Counted, Old, Done
  <1>5. CASE Receive
    <2>1. /\ answer # Nothing /\ answer' = Nothing
          /\ last' = [u \in Uploads |-> IF Changed(u) THEN answer[u] ELSE last[u]]
          /\ stable' = [u \in Uploads |-> IF u \in active' THEN NewStable(u) ELSE 0]
          /\ active' = {u \in active : NewStable(u) # Done}
          /\ UNCHANGED <<age, reported>>
      BY <1>5 DEF Receive, Look, server
    <2> QED
      BY <2>1 DEF RInv, Counted, Old, Done, Changed, Listed
  <1>6. ASSUME NEW u \in Uploads, Report(u) PROVE RInv'
    <2>1. /\ reported' = [reported EXCEPT ![u] = @ + 1]
          /\ UNCHANGED <<active, last, stable, age, answer>>
      BY <1>6 DEF Report, entries
    <2>2. \A v \in Uploads : /\ last[v] \in 0 .. Engines /\ reported[v] \in 0 .. Engines
                             /\ answer # Nothing /\ v \in DOMAIN answer
                                  => answer[v] \in 0 .. Engines
      BY <1>0 DEF Types, Counters, Awaited
    <2>3. \A v \in Uploads : reported'[v] >= reported[v] /\ reported'[v] \in Nat
      BY <1>0, <2>1, <2>2, Numbers DEF Types, Counters
    <2>4. ASSUME NEW v \in Uploads PROVE Counted(v)' /\ Old(v)'
      BY <2>1, <2>2, <2>3, Numbers DEF RInv, Counted, Old, Done
    <2> QED
      BY <2>4 DEF RInv
  <1> QED
    BY <1>1, <1>2, <1>3, <1>4, <1>5, <1>6 DEF Next

(* An entry that is old and given up goes when the list has been looked at, *)
(* unless the list counts more engines for it.                             *)
LEMMA LookingAtOld ==
    ASSUME IInv, RInv, Receive, NEW u \in active, stable[u] = Done
    PROVE  u \notin active' \/ last'[u] > last[u]
  <1>1. /\ u \in Uploads /\ age[u] > Settle /\ last[u] \in 0 .. Engines
        /\ missing[u] \in 0 .. Absent
    BY Numbers DEF RInv, Old, IInv, Types, Sets, Counters
  <1>2. /\ answer # Nothing
        /\ last' = [v \in Uploads |-> IF Changed(v) THEN answer[v] ELSE last[v]]
        /\ active' = {v \in active : NewStable(v) # Done}
    BY DEF Receive, Look
  <1>3. CASE Changed(u)
    <2>1. /\ answer[u] # last[u] /\ last[u] <= answer[u] /\ answer[u] \in 0 .. Engines
      BY <1>1, <1>2, <1>3 DEF Changed, Listed, RInv, Counted, IInv, Types, Awaited
    <2> QED
      BY <1>1, <1>2, <1>3, <2>1, Numbers
  <1>4. CASE ~Changed(u)
    <2>1. NewStable(u) = Done
      BY <1>1, <1>4, Numbers DEF NewStable, Done
    <2> QED
      BY <1>2, <2>1
  <1> QED
    BY <1>3, <1>4

(* No entry is polled for ever: once it is given up for its age, every list *)
(* that is looked at drops it or has more engines reported than any before  *)
(* (app.js:627-628, 652-663).                                              *)
THEOREM OldEntriesGo == Spec => GivesUp
  <1>1. Init => RInv
    BY Numbers DEF Init, RInv, Counted, Old, Done
  <1>2. IInv /\ RInv /\ [Next]_vars
           => \A u \in active : stable[u] = Done /\ answer # Nothing /\ answer' = Nothing
                                  => u \notin active' \/ last'[u] > last[u]
    <2> SUFFICES ASSUME IInv, RInv, [Next]_vars, answer # Nothing, answer' = Nothing,
                        NEW u \in active, stable[u] = Done
                 PROVE  u \notin active' \/ last'[u] > last[u]
      OBVIOUS
    <2>1. Receive
      BY DEF Next, vars, Poll, Pass, Answer, ApiFails, RenderList, Back, Drop, Upload, Answered,
             UploadFails, Refresh, RenderDetail, Open, Report, Unlist, Relist
    <2> QED
      BY <2>1, LookingAtOld
  <1> QED
    BY <1>1, <1>2, CountingKeeps, PollerInvariant, PTL DEF Spec, GivesUp

-----------------------------------------------------------------------------
(* A count of quiet polls does not run ahead of the silence: an entry with   *)
(* every report in it has been silent for as many periods, one more while a *)
(* request is in flight, or else since the upload.                         *)
Calm(u) ==
    u \in active \ doubtful /\ stable[u] # Done /\ last[u] = reported[u] =>
       \/ inFlight /\ silent[u] >= AtMost(stable[u] + 1, Quiet)
       \/ ~inFlight /\ silent[u] + 1 >= AtMost(stable[u] + 1, Quiet)
       \/ last[u] = 0 /\ silent[u] >= AtMost(age[u], Quiet)

(* An entry that the awaited list will drop has every report, and the next  *)
(* one would be late.                                                      *)
Complete(u) == last[u] = reported[u] /\ Late(u)
Leaving(u) == u \in active \ doubtful /\ answer # Nothing /\ NewStable(u) = Done => Complete(u)

(* It is the same with one that has been dropped.                          *)
Gone(u) == u \in uploaded \ (active \cup doubtful) => Complete(u)

DInv == \A u \in Uploads : Calm(u) /\ Leaving(u) /\ Gone(u)

(* Steps that touch none of it.                                            *)
LEMMA NothingDropped ==
    ASSUME DInv, UNCHANGED <<active, last, stable, missing, age, inFlight, answer,
                             uploaded, reported, silent>>,
           doubtful \subseteq doubtful'
    PROVE  DInv'
  BY DEF DInv, Calm, Leaving, Gone, Complete, Late, NewStable, Changed, Unseen, Same, Listed,
         Done

(* The user's steps, and the list of the server.                           *)
LEMMA OthersKeepDrops ==
    ASSUME DInv,
           \/ RenderList \/ Back \/ UNCHANGED vars
           \/ \E u \in Uploads : \/ Drop(u) \/ UploadFails(u) \/ Refresh(u)
                                 \/ RenderDetail(u) \/ Open(u) \/ Unlist(u) \/ Relist(u)
    PROVE  DInv'
  <1>1. /\ UNCHANGED <<active, last, stable, missing, age, inFlight, answer, uploaded,
                       reported, silent>>
        /\ doubtful \subseteq doubtful'
    BY DEF RenderList, Back, Drop, UploadFails, Refresh, RenderDetail, Open, Unlist, Relist,
           vars, entries, server
  <1> QED
    BY <1>1, NothingDropped

(* An upload has been silent since it was answered.                        *)
LEMMA UploadKeepsDrops ==
    ASSUME IInv, DInv, NEW u \in Uploads, Upload(u)
    PROVE  DInv'
  <1>1. /\ u \in sending /\ uploaded' = uploaded \cup {u} /\ active' = active \cup {u}
        /\ UNCHANGED <<last, stable, missing, age, inFlight, answer, reported, doubtful,
                       silent>>
    BY DEF Upload, Answered
  <1>2. /\ u \notin uploaded /\ stable[u] = 0 /\ missing[u] = 0 /\ last[u] = 0
        /\ age[u] = 0 /\ silent[u] = 0
        /\ answer # Nothing => u \notin DOMAIN answer
    BY <1>1 DEF IInv, Types, Sets, Entries, Fresh, Awaited
  <1>3. Calm(u)'
    BY <1>1, <1>2, Numbers DEF Calm, AtMost
  <1>4. Leaving(u)' /\ Gone(u)'
    BY <1>1, <1>2, Numbers
    DEF Leaving, Gone, NewStable, Changed, Unseen, Same, Listed, Done
  <1>5. ASSUME NEW v \in Uploads, v # u PROVE Calm(v)' /\ Leaving(v)' /\ Gone(v)'
    BY <1>1, <1>5
    DEF DInv, Calm, Leaving, Gone, Complete, Late, NewStable, Changed, Unseen, Same, Listed,
        Done
  <1> QED
    BY <1>3, <1>4, <1>5 DEF DInv

(* A period adds to the silence, and to the age.                           *)
LEMMA PeriodKeepsDrops ==
    ASSUME IInv, RInv, DInv, Poll \/ Pass
    PROVE  DInv'
  <1>1. /\ PeriodPasses /\ UNCHANGED <<active, last, missing, answer, uploaded, reported>>
        /\ doubtful \subseteq doubtful'
    BY DEF Poll, Pass, entries, server
  <1>2. ASSUME NEW u \in Uploads, u \in uploaded
        PROVE  /\ age[u] \in 0 .. Hard + 1 /\ silent[u] \in 0 .. Quiet
               /\ stable[u] \in 0 .. Done
               /\ age'[u] = AtMost(age[u] + 1, Hard + 1)
               /\ silent'[u] = AtMost(silent[u] + 1, Quiet)
    BY <1>1, <1>2, Periods DEF IInv, Types, Counters
  <1>3. ASSUME NEW u \in Uploads, u \in uploaded PROVE Late(u) => Late(u)'
    BY <1>2, <1>3, Numbers DEF Late, AtMost
  <1>4. ASSUME NEW u \in Uploads PROVE Gone(u)'
    BY <1>1, <1>3 DEF DInv, Gone, Complete
  <1>5. CASE Poll
    <2>1. answer = Nothing /\ ~inFlight /\ doubtful' = doubtful
      BY <1>5 DEF Poll, IInv, Types, Awaited, server
    <2>2. active # {} => /\ inFlight'
                         /\ stable' = [u \in Uploads |-> IF u \in active /\ age'[u] > Hard
                                                          THEN Done ELSE stable[u]]
      BY <1>5 DEF Poll
    <2>3. ASSUME NEW u \in Uploads PROVE Calm(u)'
      <3>1. SUFFICES ASSUME u \in active \ doubtful, stable'[u] # Done, last[u] = reported[u]
                     PROVE  \/ silent'[u] >= AtMost(stable[u] + 1, Quiet)
                            \/ last[u] = 0 /\ silent'[u] >= AtMost(age'[u], Quiet)
        BY <1>1, <2>1, <2>2 DEF Calm, Done
      <3>2. u \in uploaded /\ stable[u] # Done
        BY <2>2, <3>1 DEF IInv, Types, Sets
      <3>3. \/ silent[u] + 1 >= AtMost(stable[u] + 1, Quiet)
            \/ last[u] = 0 /\ silent[u] >= AtMost(age[u], Quiet)
        BY <2>1, <3>1, <3>2 DEF DInv, Calm
      <3> QED
        BY <1>2, <3>2, <3>3, Numbers DEF AtMost, Done
    <2> QED
      BY <1>1, <1>4, <2>1, <2>3 DEF DInv, Leaving
  <1>6. CASE Pass
    <2>1. doubtful' = doubtful \cup active
      BY <1>6 DEF Pass
    <2>2. ASSUME NEW u \in Uploads PROVE Calm(u)' /\ Leaving(u)'
      BY <1>1, <2>1 DEF Calm, Leaving
    <2> QED
      BY <1>4, <2>2 DEF DInv
  <1> QED
    BY <1>5, <1>6

(* The list that is answered drops whom it finds silent for long enough.    *)
LEMMA AnswerKeepsDrops ==
    ASSUME IInv, RInv, DInv, Answer
    PROVE  DInv'
  <1>1. /\ inFlight /\ answer' = [u \in listed |-> reported[u]]
        /\ UNCHANGED <<active, last, stable, missing, age, inFlight, uploaded, reported,
                       doubtful, silent>>
    BY DEF Answer, SearchScans, entries, server
  <1>2. ASSUME NEW u \in Uploads PROVE Calm(u)' /\ Gone(u)'
    BY <1>1 DEF DInv, Calm, Gone, Complete, Late, Done
  <1>3. ASSUME NEW u \in Uploads PROVE Leaving(u)'
    <2>1. SUFFICES ASSUME u \in active \ doubtful, NewStable(u)' = Done PROVE Complete(u)
      BY <1>1 DEF Leaving, Complete, Late, Done
    <2>2. u \in uploaded /\ u \in listed /\ answer'[u] = reported[u] /\ u \in DOMAIN answer'
      BY <1>1, <2>1 DEF IInv, Types, Sets, Entries, Prompt
    <2>3. ~Changed(u)' /\ ~Unseen(u)'
      BY <2>1, <2>2, Numbers DEF NewStable, Done, Unseen, Listed
    <2>4. last[u] = reported[u]
      BY <1>1, <2>1, <2>2, <2>3 DEF Changed, Listed
    <2>5. /\ stable[u] \in 0 .. Done /\ age[u] \in 0 .. Hard + 1 /\ silent[u] \in 0 .. Quiet
      BY DEF IInv, Types, Counters
    <2>6. /\ stable[u] + 1 >= Quiet /\ age[u] > Settle
      BY <1>1, <2>1, <2>3, <2>5, Numbers DEF NewStable, Same, Changed, Unseen, Done, AtMost
    <2>7. CASE stable[u] = Done
      BY <2>1, <2>4, <2>6, <2>7 DEF RInv, Old, Complete, Late
    <2>8. CASE stable[u] # Done
      <3>1. \/ silent[u] >= AtMost(stable[u] + 1, Quiet)
            \/ silent[u] >= AtMost(age[u], Quiet)
        BY <1>1, <2>1, <2>4, <2>8 DEF DInv, Calm
      <3>2. silent[u] >= Quiet
        BY <2>5, <2>6, <3>1, Numbers DEF AtMost, Done
      <3> QED
        BY <2>4, <2>6, <3>2 DEF Complete, Late
    <2> QED
      BY <2>7, <2>8
  <1> QED
    BY <1>2, <1>3 DEF DInv

(* A failed request leaves the entries a period behind.                    *)
LEMMA ApiFailsKeepsDrops ==
    ASSUME IInv, DInv, ApiFails
    PROVE  DInv'
  <1>1. /\ inFlight /\ answer = Nothing /\ inFlight' = FALSE
        /\ UNCHANGED <<active, last, stable, missing, age, answer, uploaded, reported,
                       doubtful, silent>>
    BY DEF ApiFails, entries, server
  <1>2. ASSUME NEW u \in Uploads PROVE Calm(u)'
    <2>1. silent[u] \in 0 .. Quiet /\ stable[u] \in 0 .. Done
      BY DEF IInv, Types, Counters
    <2> QED
      BY <1>1, <2>1, Numbers DEF DInv, Calm, Done, AtMost
  <1> QED
    BY <1>1, <1>2 DEF DInv, Leaving, Gone, Complete, Late

(* Who is dropped was about to be; the others have one more quiet poll, or  *)
(* none.                                                                   *)
LEMMA ReceiveKeepsDrops ==
    ASSUME IInv, RInv, DInv, Receive
    PROVE  DInv'
  <1>1. /\ answer # Nothing /\ answer' = Nothing /\ inFlight' = FALSE
        /\ last' = [u \in Uploads |-> IF Changed(u) THEN answer[u] ELSE last[u]]
        /\ active' = {u \in active : NewStable(u) # Done}
        /\ stable' = [u \in Uploads |-> IF u \in active' THEN NewStable(u) ELSE 0]
        /\ UNCHANGED <<age, uploaded, reported, doubtful, silent>>
    BY DEF Receive, Look, server
  <1>2. ASSUME NEW u \in Uploads PROVE Gone(u)'
    <2>1. SUFFICES ASSUME u \in uploaded \ (active' \cup doubtful) PROVE Complete(u)'
      BY <1>1 DEF Gone
    <2>2. Complete(u)
      BY <1>1, <2>1 DEF DInv, Gone, Leaving
    <2>3. ~Changed(u)
      BY <1>1, <2>1, Numbers DEF NewStable, Changed, Done
    <2> QED
      BY <1>1, <2>2, <2>3 DEF Complete, Late
  <1>3. ASSUME NEW u \in Uploads PROVE Calm(u)'
    <2>1. SUFFICES ASSUME u \in active \ doubtful, NewStable(u) # Done,
                          last'[u] = reported[u]
                   PROVE  \/ silent[u] + 1 >= AtMost(NewStable(u) + 1, Quiet)
                          \/ last'[u] = 0 /\ silent[u] >= AtMost(age[u], Quiet)
      BY <1>1 DEF Calm, Done
    <2>2. /\ silent[u] \in 0 .. Quiet /\ stable[u] \in 0 .. Done /\ last[u] \in 0 .. Engines
          /\ missing[u] \in 0 .. Absent /\ inFlight
      BY <1>1 DEF IInv, Types, Counters, Awaited
    <2>3. CASE Changed(u)
      BY <2>2, <2>3, Numbers DEF NewStable, AtMost
    <2>4. CASE ~Changed(u)
      <3>1. last'[u] = last[u]
        BY <1>1, <2>4
      <3>2. stable[u] # Done
        <4>1. age[u] \in Nat /\ (stable[u] = Done => age[u] > Hard)
          BY <2>1 DEF IInv, Types, Counters, RInv, Old
        <4>2. stable[u] = Done => NewStable(u) = Done
          BY <2>1, <2>2, <2>4, <4>1, Numbers DEF NewStable, Same, Changed, Unseen, AtMost, Done
        <4> QED
          BY <2>1, <4>2
      <3>3. \/ silent[u] >= AtMost(stable[u] + 1, Quiet)
            \/ last[u] = 0 /\ silent[u] >= AtMost(age[u], Quiet)
        BY <2>1, <2>2, <3>1, <3>2 DEF DInv, Calm
      <3>4. NewStable(u) \in {stable[u], AtMost(stable[u] + 1, Quiet)}
        BY <2>1, <2>4 DEF NewStable
      <3>5. silent[u] >= AtMost(stable[u] + 1, Quiet)
               => silent[u] + 1 >= AtMost(NewStable(u) + 1, Quiet)
        BY <2>2, <3>2, <3>4, Numbers DEF AtMost, Done
      <3> QED
        BY <3>1, <3>3, <3>5
    <2> QED
      BY <2>3, <2>4
  <1> QED
    BY <1>1, <1>2, <1>3 DEF DInv, Leaving

(* A report on a scan that is dropped, or about to be, is late.             *)
LEMMA ReportKeepsDrops ==
    ASSUME IInv, RInv, DInv, NEW u \in Uploads, Report(u)
    PROVE  DInv'
  <1>1. /\ u \in uploaded
        /\ reported' = [reported EXCEPT ![u] = reported[u] + 1]
        /\ silent' = [silent EXCEPT ![u] = 0]
        /\ doubtful' = IF Late(u) THEN doubtful \cup {u} ELSE doubtful
        /\ UNCHANGED <<active, last, stable, missing, age, inFlight, answer, uploaded>>
    BY DEF Report, entries
  <1>2. /\ reported \in [Uploads -> 0 .. Engines] /\ silent \in [Uploads -> 0 .. Quiet]
        /\ last \in [Uploads -> 0 .. Engines]
    BY DEF IInv, Types, Counters
  <1>3. ASSUME NEW v \in Uploads, v # u PROVE Calm(v)' /\ Leaving(v)' /\ Gone(v)'
    BY <1>1, <1>2, <1>3
    DEF DInv, Calm, Leaving, Gone, Complete, Late, NewStable, Changed, Unseen, Same, Listed,
        Done
  <1>4. Calm(u)'
    <2>1. last[u] <= reported[u] /\ reported'[u] = reported[u] + 1
      BY <1>1, <1>2 DEF RInv, Counted
    <2>2. last'[u] # reported'[u]
      BY <1>1, <1>2, <2>1, Numbers
    <2> QED
      BY <2>2 DEF Calm
  <1>5. Leaving(u)'
    <2>1. SUFFICES ASSUME u \in active, u \notin doubtful', answer # Nothing,
                          NewStable(u) = Done
                   PROVE  FALSE
      BY <1>1 DEF Leaving, NewStable, Changed, Unseen, Same, Listed, Done
    <2> QED
      BY <1>1, <2>1 DEF DInv, Leaving, Complete
  <1>6. Gone(u)'
    BY <1>1 DEF DInv, Gone, Complete
  <1> QED
    BY <1>3, <1>4, <1>5, <1>6 DEF DInv

(* Every step keeps that only complete scans are dropped.                  *)
LEMMA DropsNext == IInv /\ RInv /\ DInv /\ [Next]_vars => DInv'
  <1> SUFFICES ASSUME IInv, RInv, DInv, [Next]_vars PROVE DInv'
    OBVIOUS
  <1> QED
    BY OthersKeepDrops, UploadKeepsDrops, PeriodKeepsDrops, AnswerKeepsDrops,
       ApiFailsKeepsDrops, ReceiveKeepsDrops, ReportKeepsDrops DEF Next

(* A scan that was listed and polled in time is dropped with the report of  *)
(* every engine, but for those that come after Settle and a silence of      *)
(* Quiet, or after Hard (app.js:649-651).                                   *)
THEOREM DropsAreFinal == Spec => []SettledIsFinal
  <1>1. Init => RInv /\ DInv
    BY Numbers DEF Init, RInv, Counted, Old, DInv, Calm, Leaving, Gone, Done
  <1>2. DInv /\ IInv => SettledIsFinal
    BY DEF DInv, Gone, Complete, SettledIsFinal, IInv, Types, Sets
  <1> QED
    BY <1>1, <1>2, DropsNext, CountingKeeps, PollerInvariant, PTL DEF Spec
=============================================================================
