------------------------------ MODULE ScanPoller ------------------------------
(***************************************************************************)
(* The web interface's scans in progress: uploadFile, ensurePolling, the    *)
(* router, the dropzone and what renderScans and renderScanDetail show      *)
(* (src/web/static/app.js), and the list they poll (handleScans,            *)
(* src/api/server.go, SearchScans, src/api/es.go).                         *)
(*                                                                         *)
(* Covered: the map state.active with the counters of its entries, the      *)
(* interval timer and its re-entrancy guard; the requests that a tick, an   *)
(* upload and the router await, during which everything else goes on, and  *)
(* whose answers are rendered whatever the location is by then.            *)
(*                                                                         *)
(* Abstracted: time is counted in periods of the interval (2.5s), and the   *)
(* thresholds 8 (Quiet, Absent), 75s (Settle) and 150s (Hard) are           *)
(* parameters.  A count of quiet polls stops at Quiet, where it means no    *)
(* more; the sentinel 99 is Done.  The request that a tick makes before it *)
(* renders a detail page, which makes it again, is left out.  External:     *)
(* which of the scans Elasticsearch finds among the newest 100.            *)
(***************************************************************************)
EXTENDS Integers, FiniteSets

CONSTANTS Uploads,      \* the files that may be uploaded
          Engines,      \* the number of engines that report on each
          Quiet, Absent, Settle, Hard,
          Faults,       \* what may go wrong: "api", "slow", "unlisted"
          MaxEvents,    \* a bound: late polls, lost scans, detail pages opened and
                        \*   moves between List and Landing
          Nothing       \* no answer yet

List    == "list"       \* the page of all scans, #/scans,
Landing == "landing"    \* and the same page as long as there is no hash
Other   == "other"      \* on the screen: nothing that the properties are about
Dropzones == {"idle", "bar", "scanning"}

ASSUME EnginesAssumption == Engines \in Nat \ {0}
ASSUME ThresholdAssumption == /\ {Quiet, Absent, Settle, Hard} \subseteq Nat \ {0}
                              /\ Quiet <= Settle /\ Settle < Hard /\ Absent > 1
ASSUME BoundAssumption == MaxEvents \in Nat
ASSUME PagesAssumption == ({List, Landing, Other} \cup Dropzones) \cap Uploads = {}
ASSUME FaultsAssumption == Faults \subseteq {"api", "slow", "unlisted"}

VARIABLES
    active,     \* the keys of state.active
    last,       \* last[u], stable[u], missing[u]: its fields; the first keeps
    stable,     \*   its value, which was shown, when the entry is deleted
    missing,
    age,        \* age[u]: Date.now() - startedAt
    timer,      \* state.pollTimer is set
    inFlight,   \* state.pollInFlight
    answer,     \* the list the tick awaits
    page,       \* the location: List, Landing or the upload whose detail is open
    view,       \* what is rendered: the list, by what its dropzone shows, the
                \*   detail page of an upload that says it is scanned, or Other
    pending,    \* the pages that are fetched to be rendered
    uploading,  \* state.uploading
    sending,    \* the uploads under way,
    refreshing, \*   and those that fetch the list after their answer
    uploaded,   \* the server: the scans it has,
    listed,     \*   those of them it lists,
    reported,   \*   and how many engines have reported
    silent,     \* history: the periods since a scan's last report, up to Quiet
    doubtful,   \* history: the scans ever not listed, polled late or of which
                \*   an engine reported late
    events      \* the events of MaxEvents so far

entries == <<active, last, stable, missing>>
screen  == <<page, view, pending>>
form    == <<uploading, sending, refreshing>>
server  == <<uploaded, listed, reported, doubtful>>
vars == <<entries, age, timer, inFlight, answer, screen, form, server, silent, events>>

-----------------------------------------------------------------------------
Done == Quiet + 1
AtMost(n, cap) == IF n < cap THEN n ELSE cap

Init == /\ active = {}
        /\ last = [u \in Uploads |-> 0]
        /\ stable = [u \in Uploads |-> 0]
        /\ missing = [u \in Uploads |-> 0]
        /\ age = [u \in Uploads |-> 0]
        /\ timer = FALSE
        /\ inFlight = FALSE
        /\ answer = Nothing
        /\ page \in {List, Landing}
        /\ view = "idle"
        /\ pending = {}
        /\ uploading = FALSE
        /\ sending = {}
        /\ refreshing = {}
        /\ uploaded = {}
        /\ listed = {}
        /\ reported = [u \in Uploads |-> 0]
        /\ silent = [u \in Uploads |-> 0]
        /\ doubtful = {}
        /\ events = 0

Event == events < MaxEvents /\ events' = events + 1

PeriodPasses ==
    /\ age' = [u \in Uploads |-> IF u \in uploaded THEN AtMost(age[u] + 1, Hard + 1) ELSE 0]
    /\ silent' = [u \in Uploads |-> IF u \in uploaded THEN AtMost(silent[u] + 1, Quiet) ELSE 0]

-----------------------------------------------------------------------------
(* dropzoneHTML, for the entries there are when the list is rendered.       *)
Dropzone(entered) == IF entered = {} THEN "idle" ELSE "scanning"
OnList == view \in Dropzones

(* uploadFile's onScansList: without a hash it is the list, as for route.   *)
OnScansList == page \in {List, Landing}

(* showUploadProgress, when a file is dropped on the rendered list.         *)
Drop(u) == /\ OnList
           /\ u \notin uploaded \cup sending
           /\ sending' = sending \cup {u}
           /\ uploading' = TRUE
           /\ view' = "bar"
           /\ UNCHANGED <<entries, age, timer, inFlight, answer, page, pending, refreshing,
                           server, silent, events>>

(* Mutant: an upload that fails leaves the dropzone as it is.               *)
UploadFailsQuietly(u) == /\ "api" \in Faults
                         /\ u \in sending
                         /\ sending' = sending \ {u}
                         /\ uploading' = FALSE
                         /\ UNCHANGED <<entries, age, timer, inFlight, answer, page, view,
                                        pending, refreshing, server, silent, events>>

(* resetDropzone changes the dropzone that is on the screen, if any.       *)
UploadFails(u) == /\ "api" \in Faults
                  /\ u \in sending
                  /\ sending' = sending \ {u}
                  /\ uploading' = FALSE
                  /\ view' = IF OnList THEN "idle" ELSE view
                  /\ UNCHANGED <<entries, age, timer, inFlight, answer, page, pending,
                                 refreshing, server, silent, events>>

Answered(u) == /\ u \in sending
               /\ sending' = sending \ {u}
               /\ uploading' = FALSE
               /\ refreshing' = refreshing \cup {u}
               /\ uploaded' = uploaded \cup {u}
               /\ listed' = listed \cup {u}
               /\ active' = active \cup {u}
               /\ UNCHANGED <<last, stable, missing, age, inFlight, answer, screen,
                              reported, doubtful, silent, events>>

(* Mutant: the entry is made and nobody polls for it.                       *)
UploadUnpolled(u) == Answered(u) /\ UNCHANGED timer

(* The upload is answered: its document exists and its entry is made.       *)
Upload(u) == Answered(u) /\ timer' = TRUE

Listing == view' = Dropzone(active)

(* The refresh after an upload: the list if it is still open, the dropzone *)
(* reset if not, nothing if the request fails.                             *)
Refresh(u) == /\ u \in refreshing
              /\ refreshing' = refreshing \ {u}
              /\ \/ OnScansList /\ Listing /\ UNCHANGED uploading
                 \/ /\ ~OnScansList
                    /\ uploading' = FALSE
                    /\ view' = IF OnList THEN "idle" ELSE view
                 \/ "api" \in Faults /\ UNCHANGED <<uploading, view>>
              /\ UNCHANGED <<entries, age, timer, inFlight, answer, page, pending,
                             sending, server, silent, events>>

(* The interval's callback, with the entries that are too old given up      *)
(* before the request is sent.                                             *)
Poll == /\ timer
        /\ ~inFlight
        /\ PeriodPasses
        /\ IF active = {}
             THEN timer' = FALSE /\ UNCHANGED <<inFlight, stable>>
             ELSE /\ inFlight' = TRUE
                  /\ stable' = [u \in Uploads |->
                                  IF u \in active /\ age'[u] > Hard THEN Done ELSE stable[u]]
                  /\ UNCHANGED timer
        /\ UNCHANGED <<active, last, missing, answer, screen, form, server, events>>

(* A period without a poll: the previous one is still in flight, or the     *)
(* browser holds back the timers of a tab that nobody looks at.            *)
Pass == /\ "slow" \in Faults
        /\ Event
        /\ timer
        /\ PeriodPasses
        /\ doubtful' = doubtful \cup active
        /\ UNCHANGED <<entries, timer, inFlight, answer, screen, form, uploaded, listed,
                       reported>>

(* The scans of the list with the number of engines that have reported.    *)
SearchScans == [u \in listed |-> reported[u]]

Answer == /\ inFlight
          /\ answer = Nothing
          /\ answer' = SearchScans
          /\ UNCHANGED <<entries, age, timer, inFlight, screen, form, server, silent, events>>

(* api.get throws: the tick is over, and no entry was looked at.            *)
ApiFails == /\ inFlight
            /\ answer = Nothing
            /\ "api" \in Faults
            /\ inFlight' = FALSE
            /\ UNCHANGED <<entries, age, timer, answer, screen, form, server, silent, events>>

(* What an answer says of an entry.                                        *)
Listed(u)  == u \in DOMAIN answer
Changed(u) == u \in active /\ Listed(u) /\ answer[u] # last[u]
Unseen(u)  == u \in active /\ ~Listed(u)
Same(u)    == u \in active /\ Listed(u) /\ answer[u] = last[u]

(* Mutant of the rule below: without the minimum age.                       *)
StableAgeless(u) == IF Changed(u) THEN 0
                    ELSE IF Unseen(u) /\ missing[u] + 1 >= Absent THEN Done
                    ELSE IF Same(u)
                      THEN IF stable[u] + 1 >= Quiet THEN Done ELSE stable[u] + 1
                    ELSE stable[u]

NewStable(u) == IF Changed(u) THEN 0
                ELSE IF Unseen(u) /\ missing[u] + 1 >= Absent THEN Done
                ELSE IF Same(u)
                  THEN IF stable[u] + 1 >= Quiet /\ age[u] > Settle THEN Done
                       ELSE AtMost(stable[u] + 1, Quiet)
                ELSE stable[u]

(* Every entry is looked at, and the finished ones go.                     *)
Look == /\ answer # Nothing
        /\ answer' = Nothing
        /\ last' = [u \in Uploads |-> IF Changed(u) THEN answer[u] ELSE last[u]]
        /\ active' = {u \in active : NewStable(u) # Done}
        /\ stable' = [u \in Uploads |-> IF u \in active' THEN NewStable(u) ELSE 0]
        /\ missing' = [u \in Uploads |->
                          IF Unseen(u) /\ u \in active' THEN missing[u] + 1 ELSE 0]

(* The list is rendered in every tick, unless a file is being uploaded, a   *)
(* detail page if an engine count changed, and nothing without a hash: the  *)
(* tick does not take that for the list, as route does.                    *)
Show(entered) ==
    LET list   == page = List /\ ~uploading
        detail == page \in Uploads /\ \E u \in active : Changed(u)
    IN /\ view' = IF list THEN Dropzone(entered) ELSE IF detail THEN Other ELSE view
       /\ pending' = IF detail THEN pending \cup {page} ELSE pending

(* Mutants: no finally, so that the guard stays set; the list rendered      *)
(* with the entries that are about to go.                                  *)
ReceiveKeepsGuard == /\ Look
                     /\ Show(active')
                     /\ UNCHANGED <<age, inFlight, timer, page, form, server, silent, events>>
ReceiveShowsOld == /\ Look
                   /\ Show(active)
                   /\ inFlight' = FALSE
                   /\ timer' = (active' # {})
                   /\ UNCHANGED <<age, page, form, server, silent, events>>

(* The rest of the tick; the timer is cleared when no entry is left.       *)
Receive == /\ Look
           /\ Show(active')
           /\ inFlight' = FALSE
           /\ timer' = (active' # {})
           /\ UNCHANGED <<age, page, form, server, silent, events>>

(* The fetched page is rendered, without a look at the location; the badge *)
(* of a detail page is worked out now.  A failure renders an error.        *)
RenderDetail(u) ==
    /\ u \in pending \ {List}
    /\ pending' = pending \ {u}
    /\ \/ view' = IF u \in active THEN u ELSE Other
       \/ view' = Other /\ "api" \in Faults
    /\ UNCHANGED <<entries, age, timer, inFlight, answer, page, form, server, silent, events>>

RenderList ==
    /\ List \in pending
    /\ pending' = pending \ {List}
    /\ \/ Listing
       \/ view' = Other /\ "api" \in Faults
    /\ UNCHANGED <<entries, age, timer, inFlight, answer, page, form, server, silent, events>>

(* The router: a detail page shows at once that it is loading, the list     *)
(* replaces what is on the screen when it has been fetched.                *)
Open(u) == /\ page # u
           /\ Event
           /\ u \in uploaded
           /\ page' = u
           /\ view' = Other
           /\ pending' = pending \cup {u}
           /\ UNCHANGED <<entries, age, timer, inFlight, answer, form, server, silent>>

(* A link leads to the list, and the history of the browser also to where   *)
(* there was no hash.                                                      *)
Back == /\ \/ page \in Uploads /\ page' = List /\ UNCHANGED events
           \/ page' \in {List, Landing} \ {page} /\ Event
        /\ pending' = pending \cup {List}
        /\ UNCHANGED <<entries, age, timer, inFlight, answer, view, form, server, silent>>

-----------------------------------------------------------------------------
(* External: the engines, and the list of the server.  A report is late    *)
(* that comes after Settle and a silence of Quiet, or after Hard.           *)
Late(u) == age[u] > Settle /\ (silent[u] >= Quiet \/ age[u] > Hard)

Report(u) == /\ u \in uploaded
             /\ reported[u] < Engines
             /\ reported' = [reported EXCEPT ![u] = @ + 1]
             /\ silent' = [silent EXCEPT ![u] = 0]
             /\ doubtful' = IF Late(u) THEN doubtful \cup {u} ELSE doubtful
             /\ UNCHANGED <<entries, age, timer, inFlight, answer, screen, form,
                            uploaded, listed, events>>

Unlist(u) == /\ "unlisted" \in Faults
             /\ Event
             /\ u \in listed
             /\ listed' = listed \ {u}
             /\ doubtful' = doubtful \cup {u}
             /\ UNCHANGED <<entries, age, timer, inFlight, answer, screen, form,
                            uploaded, reported, silent>>

Relist(u) == /\ u \in uploaded \ listed
             /\ listed' = listed \cup {u}
             /\ UNCHANGED <<entries, age, timer, inFlight, answer, screen, form,
                            uploaded, reported, doubtful, silent, events>>

Next == \/ Poll \/ Pass \/ Answer \/ ApiFails \/ Receive \/ RenderList \/ Back
        \/ \E u \in Uploads : \/ Drop(u) \/ Upload(u) \/ UploadFails(u) \/ Refresh(u)
                              \/ RenderDetail(u) \/ Open(u)
                              \/ Report(u) \/ Unlist(u) \/ Relist(u)

Spec == Init /\ [][Next]_vars

(* The interval fires, every request and upload ends, the continuation of   *)
(* a request runs.  The API may fail any number of times but not for good:  *)
(* no entry is deleted while it is down, so that the polling then goes on.  *)
(* The engines, what the user does, and the server's list, are not fair.    *)
FairSpec == /\ Spec
            /\ WF_vars(Poll) /\ SF_vars(Answer) /\ WF_vars(Receive) /\ WF_vars(RenderList)
            /\ WF_vars(\E u \in Uploads : Upload(u) \/ UploadFails(u))
            /\ WF_vars(\E u \in Uploads : Refresh(u) \/ RenderDetail(u))

-----------------------------------------------------------------------------
(* The types of the variables.                                             *)
TypeOK == /\ active \subseteq uploaded
          /\ last \in [Uploads -> 0 .. Engines]
          /\ stable \in [Uploads -> 0 .. Done]
          /\ missing \in [Uploads -> 0 .. Absent]
          /\ age \in [Uploads -> 0 .. Hard + 1]
          /\ timer \in BOOLEAN
          /\ inFlight \in BOOLEAN
          /\ answer = Nothing \/ DOMAIN answer \subseteq uploaded
          /\ page \in Uploads \cup {List, Landing}
          /\ view \in Uploads \cup Dropzones \cup {Other}
          /\ pending \subseteq Uploads \cup {List}
          /\ uploading \in BOOLEAN
          /\ sending \subseteq Uploads \ uploaded
          /\ refreshing \subseteq uploaded
          /\ listed \subseteq uploaded
          /\ uploaded \subseteq Uploads
          /\ reported \in [Uploads -> 0 .. Engines]
          /\ silent \in [Uploads -> 0 .. Quiet]
          /\ doubtful \subseteq uploaded
          /\ events \in 0 .. MaxEvents

(* The timer runs exactly while there is a scan to poll for, whatever is    *)
(* uploaded while a tick awaits its answer (app.js:618-619, 626, 681).     *)
TimerWhileActive == timer <=> active # {}

(* `Require 20s of quiet AND 75s elapsed' (app.js:649): a scan that was     *)
(* listed and polled in time is not dropped before an engine that reports   *)
(* by then, nor within a burst, whatever requests fail, wait or carry old   *)
(* counts.  The count that stands has every report, unless one came late.   *)
(* That none does, as app.js:650 goes on to say, the code cannot know: an   *)
(* engine may take 120s, and file engines begin after the others.          *)
SettledIsFinal ==
    \A u \in uploaded \ (active \cup doubtful) : last[u] = reported[u]

(* A scan does not poll forever (app.js:627-628).                          *)
PollingEnds == \A u \in Uploads : u \in active ~> u \notin active

(* What bounds it: a tick that finds an entry given up for its age drops it *)
(* or counts more engines than ever before, of which there are so many.    *)
GivesUp == [][\A u \in active : stable[u] = Done /\ answer # Nothing /\ answer' = Nothing
                                  => u \notin active' \/ last'[u] > last[u]]_vars

(* The list page does not go on to show `Scanning' in its dropzone when no *)
(* scan is in progress any more (app.js:655-657), whatever the user opened *)
(* or uploaded in between.  Only at #/scans: on the landing page, without a *)
(* hash, no tick renders the list (app.js:667), and it does go on.         *)
Frozen == page = List /\ view = "scanning" /\ active = {}
DropzoneSettles == Frozen ~> ~Frozen

(* Whenever it does show that, something is under way whose end renders the *)
(* dropzone anew: the list is fetched, or a file is uploaded.  No tick need *)
(* come for it, and none does, as the timer is cleared.                    *)
FrozenInPassing == Frozen => List \in pending \/ (uploading /\ sending # {})

(* `this page refreshes automatically' (app.js:377): the detail page does   *)
(* not go on to show a scan that was dropped as scanning.                  *)
Stuck(u) == page = u /\ view = u /\ u \notin active
DetailSettles == \A u \in Uploads : Stuck(u) ~> ~Stuck(u)
=============================================================================
