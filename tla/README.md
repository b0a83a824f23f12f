# Malice in TLA+

TLA+ models of Malice, a scanner that runs anti-virus engines as docker
containers over an uploaded sample, keeps their results in one Elasticsearch
document, and shows them in a web interface. The modules here model the parts
in which several actors meet: uploads, engine goroutines, concurrent scans,
settings requests, the polling browser, the folder watcher, commands that share
configuration files and images, docker, and the death of a process. Paths are
relative to the repository.

    cd tla
    tlc -workers 2 -config UploadAdmission.cfg MCUploadAdmission.tla
    tlapm UploadAdmission_proofs.tla

`PROJECT.json` lists the components, runs, mutants, theorems and hazards, and
says for every definition which lines of the code it models.

## The system

| Component | Code | State | Operations |
|---|---|---|---|
| Upload admission | `src/api/server.go` `handleUpload` | `scanSem`, a channel of capacity 2; per upload a flag `semHeld`, a temporary directory, a scan goroutine | `POST /api/scans`: take a slot or answer 429, receive the sample, `scanInitFunc`, hand the slot to the goroutine, `scanRunFunc`, clean up |
| Engine fan-out | `src/commands/scan.go` `scanRun`; `src/plugins/plugins.go` `RunIntelPlugins`, `StartPlugin`; docker client | two `WaitGroup`s, one container per engine | start the intel engines, wait, start the engines for the mime type, wait; per engine create, start, follow the logs, inspect, remove |
| Scan setup and verdict | `scan.go` `scanSetup`, `scanStore`, `APIScanInit`, `APIScanRun`; `copy.go`; `persist/file.go`; `plugins/list.go`; `server.go` `summarizeScan` | the malice volume (one file per SHA256), the scan document | copy the sample unless it is there, detect the mime type, store the document, choose engines, compute progress and verdict |
| Detection rule | `server.go` `isDetection`, and its twin in `app.js` | none | is an engine's result a detection, and how is its card labelled |
| Credential store | `src/secrets/secrets.go`; `server.go` `handleSettings`; `plugins.go` `getPluginEnv` | a map under a mutex, the file it is saved to | `Init`, `Set`, `Get`, `POST /api/settings`, the environment of an engine |
| Web interface | `src/web/static/app.js` | `state.active`, the interval timer, `pollInFlight`, `uploading`, the page and what is on it | upload, poll, settle or give up a scan, open a detail page, go back to the list |
| Database start | `scan.go`; `src/malice/database/database.go`; `container/list.go`, `start.go` | the one Elasticsearch container | is it running, start it, wait for a connection |
| Configuration files | `src/config/load.go`, `src/plugins/load.go`, `plugins.go`, `src/main.go` | `config.toml`, its backup, `plugins.toml`, the tables read from them | the loads of every start, the update, `plugin install`, `plugin remove` |
| Plugin images | `plugins.go`, `image/image.go`, `src/commands/plugin.go`, `lookup.go` | the images of the docker host | check, pull, build, update one or all, look up a hash |
| Folder watcher | `src/commands/watch.go`, `scan.go` | the kernel's queue of file events | scan a file when it is created |
| REST reads, Elasticsearch client, docker wrappers, command line | see `PROJECT.json` | none of their own | sequential calls |

How they meet: a handler of the upload admission calls `APIScanInit` (setup
and document) synchronously and starts a goroutine for `APIScanRun` (setup
again, then the fan-out). Setup starts the database and fills the volume, which
all scans of a sample share. Each engine gets its credential from the store
when it is started, and writes its result into the scan document from its
container. The web interface only sees what the API makes of that document. The
watcher runs the interactive form of the same scan, over the same images that
other commands update; every process reads the same configuration files.

What is hard about it: slots and WaitGroups that have to be exact over many
error paths, panics that no handler recovers, two setups for one upload, one
path in the volume for concurrent scans, a file and a map that have to agree
across failures and deaths, files that several processes rewrite without a
lock, a look at the images and a fetch that are two calls, and a browser that
decides from counts and clocks that a scan is over. `PROJECT.json` lists each of
these hazards at its line, with the properties that would catch it.

## The modules

A module `X` has its instances in `MCX`, its proofs in `X_proofs`; a run's
constants are in its `.cfg`. Operators introduced by a comment as a mutant or a
slip are no part of `Next`: each is a plausible bug which, put in the place of
the operator it is named after, breaks the property named in `PROJECT.json`,
under the very run that checks that property. `Faults` is in every module the
set of calls that may fail; a call outside it always works.

**SlotPool, UploadAdmission** (`src/api/server.go` 30-57, 199-311). `SlotPool` is
what `scanSem` promises: at most `Cap` holders, and nothing else.
`UploadAdmission` has one action per stretch of `handleUpload` between two
points at which it can fail or another upload can act: `Admit`, `Reject`,
`Parse`, `MkDir`, `Create`, `Copy`, `StartScan`/`InitFails`, `ReleaseSlot`,
`RemoveDir`, `Reply`, and for the goroutine `EndScan` and `SweepScan`. A slot is
given back before the directory is removed, as in the code. The process can die
at any point and be started again, with the channel empty and the directories
of the dead uploads still there.

**TwoPhaseRun, EngineFanout** (`scan.go`, `plugins.go`, `container/start.go`, `utils.go`,
`remove.go`, `image.go`). `TwoPhaseRun` is what `scanRun` promises: the intel
engines, then those of a mime type, each phase awaited and each engine run once.
`EngineFanout` implements it. One program counter for the scan, one for each engine's
goroutine; every docker call under `StartPlugin` is an action of its own and
can fail. Errors that the code only logs let the goroutine go on, with the
empty identifier or answer that the code then has. A nil reader closed by a
`defer` is a panic, which ends the process.

**Detection** (`server.go` 334-389, `app.js`). The two detection rules and
the label of a card, as operators on the fields of a result.

**ScanLifecycle** (`scan.go`, `copy.go`, `file.go`, `list.go`, `summarizeScan`).
A scan goes through the setup twice, as `APIScanInit` and `APIScanRun` make it
do. The stat and the copy of the sample are separate steps on one file for
all scans of that sample, and the copy is three: docker replaces the file,
fills it, ends. An engine is reduced to a report or a breakdown, its goroutine
being `EngineFanout`'s: every scan here implements the same `TwoPhaseRun`, so that
the two modules mean the same by an engine at work and a phase that is over.
What it reports is a result in the sense of `Detection`,
from which the verdict, the progress and the detail page are computed.

**CredentialStore, SecretsStore** (`secrets.go`, `handleSettings`,
`getPluginEnv`). `CredentialStore` is a table in memory and one on disk.
`SecretsStore` implements it step by step: the lock, the map, the temporary
file, the rename, the failure of each, the loop over a payload in any order
(a Go map), the two reads of `getPluginEnv`, death and restart. `Init` reads the
file line by line and may stop at any of them (`Prefixes`); its error is logged,
and the server goes on with the lines it has. Three histories hold what a client
could know: the value last acknowledged for each key (`acked`), the values that
failed `Set`s or starts have left behind since (`failed`), and the keys in which
memory may differ from the file (`unsaved`).

**ScanPoller** (`app.js`: the upload, the dropzone, the router, the two scan pages
and the polling; `server.go` `handleScans`; `es.go` `SearchScans`). Time passes
in periods of the polling interval. `Poll` sends the request, `Answer` or
`ApiFails` ends it on the server's side, `Receive` is the rest of the tick; in
between, uploads are dropped, answered or refused, pages are opened and left,
and what was fetched for them is rendered without a look at the location. There
are two places of the list: `List` is `#/scans`, and `Landing` is no hash at all,
which the router and the upload take for the list (`app.js:290`, `604`) and the
tick does not (`app.js:667`): there it renders nothing (`Show`). The engines are
external: each reports at any time or never, also after its scan was dropped.

**DatabaseStart** (`scan.go` 62-72, `database.go` 35-105, `list.go`, `start.go`).
Several scans look for the database and start it under one fixed container
name; one of them may come from the command line with `--logs`.

**ConfigFiles** (`src/main.go`, `config/load.go`, `plugins/load.go`,
`plugins.go`). Processes start, load `config.toml` twice and `plugins.toml` once,
ask whether to update, install, remove or serve. Which settings have not the
version of the binary is a parameter (`Outdated`): the embedded ones carry their
own, and are asked about like any other, also right after they were written
(`CheckVersion`). `ioutil.WriteFile` is a
truncation and a write; a process may die anywhere. The decoder's reuse of
the elements of a table that is there already is modelled, as is the element
that `DeletePlugin` shifts.

**PluginImages, FolderWatch** (`plugins.go`, `image.go`, `commands/plugin.go`,
`lookup.go`, `container/utils.go`; `watch.go`, `file.go`, `copy.go`).
`PluginImages` is the tags of the docker host and the commands that look at them
and fetch, one step for each look and each fetch, beside people who build and
remove images. `FolderWatch` extends it with one process that watches: files
that are created, moved in, filled, rewritten and deleted, a bounded queue of
events, and the interactive scan of each event, whose setup is `PluginImages`'.

## The runs

| Run | Instance | What it shows |
|---|---|---|
| `upload` | 3 uploads, 2 slots, 1 upload that hangs | Slots are counted exactly, owned once, and come back, as do the directories; a running scan has its whole sample; nothing stays behind unless the process dies; the path implements `SlotPool` |
| `fanout` | 1 intel engine, 2 for files, every call failing, an image missing or removed | WaitGroups are exact, nothing runs on after the return, a container is removed only when its engine is through, results are missing only where a call failed, goroutines and calls come to a `TwoPhaseRun`, the scan returns unless the process dies |
| `fanout_missing_image` | as above, only the pull fails | finding: the server dies |
| `secrets` | 2 posts over 3 keys, 1 engine, every step failing, a start that reads 0 to 3 lines, death at any point | Memory and file agree in every key whose last `Set` did not fail and whose line was read; the file holds for each key what was last acknowledged, or what a later failed `Set` of that key or a failed start left; an engine is handed an empty credential only if it was cleared meanwhile; every accepted post is answered, so that no lock is left held; the store implements `CredentialStore` |
| `lifecycle` | 2 scans of the same sample or of two, 3 engines, any 2 parts failing | One document for each upload; an engine misses the sample only beside a scan of the same one or after a failed copy; progress, verdict and detail page are what the results say; every scan is a `TwoPhaseRun`; every scan ends |
| `lifecycle_shared` | 2 scans of one sample, nothing fails | finding: an engine meets an incomplete sample |
| `poller` | 2 uploads, failing and late answers, a list that forgets, engines that report at any time or never, one event of `MaxEvents` | The timer runs exactly while a scan is active; the count a dropped scan keeps has every report but late ones; every scan is dropped in the end; the list at `#/scans` shows progress without a scan only while something renders it anew, and not for good |
| `poller_detail` | 1 upload, nothing fails | finding: the detail page keeps its banner |
| `database` | 3 scans, 1 of them with `--logs`, every call failing, too little memory | One scan creates the container; when no call failed and memory was enough, a scan gets past the database, or its creator waited 20s in vain and the container runs; those without `--logs` end |
| `database_stopped` | 3 scans, nothing fails | finding: a stopped database counts as running |
| `config` | 3 processes that serve, install or remove, each file missing, whole or not TOML, death at any point | Without an overlap `plugins.toml` is what the commands make one after the other; the user's settings are in the file or its backup, until an update moves a file that was replaced already over that backup; no engine is handed another one's environment |
| `watch` | a watcher and one other process, 2 files, a queue of 1, 3 images of which one is matched by another's name, every call failing | No update that looks first replaces an image people built; a file that is moved in and left alone is on its way or was scanned, and is scanned as a whole in the end |

Why the bounds are enough. The interesting cases of `upload` are a full pool
with one upload outside it, and a hung scan beside one that is not: 3 and 2. In
`fanout` the engines do not interact except through the WaitGroup and the
phases, so that one engine that ends first, one that is waited for, and one
intel engine show them. In `secrets` two posts contend for the lock and a
payload of two keys shows the loop; the third key is one that is not on the list,
and the values include one that `Set` refuses and two that `Init` trims. Two
scans of one sample are a reader and a writer of its file, and two scans one
after the other are the case in which the file is there already; with different
samples they are independent. `MaxFaults = 2` lets a failed copy meet another
failure in the same or the other scan. The results cover a sample that two
engines detect and one that is only known as good. The thresholds of
the poller (8 polls, 75s, 150s, at a period of 2.5s) are scaled down in their
order: a quiet window fits into the minimum age, and the hard timeout comes
after it. Ages stop just above it, and silences at the quiet window, beyond which they
decide nothing. `Quiet`, `Absent`, `Settle` and `Hard` are therefore parameters, and
`Done` stands for the code's 99; `MaxEvents` bounds the pages opened, the moves
between the landing page and `#/scans`, the polls that come late and the scans
that a list loses, and the proof has no such bound. Three scans at the database are
a creator, one that loses at the name, and a follower of the logs. Three
processes of `config` are a rewrite, a command that overlaps it, and one that
starts afterwards and reads what is left. Its `VIEW` identifies states that
differ only in what no step and no property reads any more: the table, the command and
the settings in memory of a process that has ended, and the settings of one that is done with
`config.toml`; what types they have is proved. In `watch` a queue of one event
is full with one file waiting and one being scanned, and `MaxEvents = 3` bounds
the writes, the failures and what people do beside it; without a bound the
files alone would go on for ever. What is not bounded in this list is finite as
it is.

`TypeOK` of every module is proved for all constants; of these, `secrets` and
`config` also check it, the other runs do not repeat it.

Deadlock is checked where a model has no proper end (`UploadAdmission`,
`SecretsStore`: a dead process can always be started again), and switched off in
the others, in which scans return and nothing more happens.

### Fairness

Only what the code's scheduling gives. Go runs every goroutine that can run, and
the browser every continuation and interval; these are weak fairness. Docker's
calls are taken to return where nothing else is said, and engines to exit; the
server itself sets no deadline for either, so `Hung` names uploads and engines
for which they do not. Nobody is obliged to send an upload, die, restart, leave
a page, answer a prompt, write a file or remove an image. `ScanPoller` takes the
API to answer again and again (strong fairness on `Answer`) although it may fail
in between, and nothing of the engines, which need never report, nor of the list,
which need never find again a scan it lost. `FolderWatch` is fair to the watcher's own steps as a whole
(`Scanning`), which are those of one goroutine.

## Findings

Four runs end in a counterexample, each to a sentence of the code's own comments or of
the page.

1. `fanout_missing_image`: an image that disappears between
   `InstalledPluginsCheck` and the engine's start, and cannot be pulled, ends
   the server. `image.Pull` (`image.go:40`) closes a nil body, in a
   goroutine that nothing recovers.
2. `lifecycle_shared`: the stat and the copy of `CopyToVolume` are two steps
   (`copy.go:68`). Of two concurrent uploads of one sample, one may take the
   other's half-written file for the sample, or replace it under the other's
   engines, which then report nothing.
3. `poller_detail`: the detail page is rendered again only by a tick in which a
   count changed (`app.js:670`), and the tick that drops a scan is not one.
4. `database_stopped`: `List` ignores its argument (`list.go:18`), so `Running`
   returns true for a stopped container and the database is not started.

The models also contain the following behaviours, which the properties except,
each in so many words:

- a failed `Inspect` leaves an engine's container behind (`plugins.go:73`;
  `ReturnedClean` excepts `faulty` engines);
- a `Set` whose write fails changes memory all the same (`secrets.go:121`), and
  the next successful `Set`, of whatever key, writes that value into the file, in
  the place of one that was acknowledged, although its client was answered 400
  (`failed` in `DiskHoldsAcked`);
- a secrets file that can be read in part only (a line above the scanner's limit,
  an error of the disk) is logged (`server.go:54`), the server goes on with the
  lines before it, and the next `Set` erases the rest (`Reads`; `unsaved` in
  `MirrorsUnlessUnsaved`);
- a mime detection that fails once and works the other time makes
  engines run that the API does not count (`server.go:402`; `ProgressCompletes`),
  and a failing copy or helper makes a clean verdict of a sample that no engine
  saw (`copy.go:131`; `Botched` in `NoBogusClean`);
- a scan is settled on a partial count when an engine reports after 75s and a
  whole quiet window, or when answers are several periods late, and
  while the API is down nothing is dropped, the hard timeout notwithstanding
  (`app.js:633`, `651`; the `doubtful` scans of `SettledIsFinal`, and an API that
  recovers in `PollingEnds`);
- on the landing page, without a hash, the list's dropzone freezes at `Scanning'
  when the last scan is dropped, until the user goes elsewhere or uploads a file: no tick
  renders it there, and the timer is cleared (`app.js:667`; `page = List` in
  `Frozen`);
- when Elasticsearch is not up within the 20s its starter waits, all of the first
  scans fail though no call did (`database.go:72`; `late` in `SomeoneGetsIn`);
- a machine with too little memory for Elasticsearch ends the web server by
  `log.Fatal` (`database.go:95`, action `Dump`);
- a rewrite of `plugins.toml` that overlaps another write, or is cut off, loses
  plugins (`plugins.go:202`; `muddled` in `Serial`), and a second update renames
  the embedded `config.toml` over the backup that has the user's
  (`src/config/load.go:85`; `overrun` in `UserConfigKept`). That takes no overlap: the
  embedded file says v0.3.28 whatever the binary's version is, so that the second load
  of a start, or the next start, asks again right after an update;
- an error of the image list is dropped in `UpdateEnabledPlugins`
  (`plugins.go:259`), so that every image counts as missing and one that was
  built on the host is replaced (`misled` in `KeepsLocal`);
- the watcher's scans are interactive: a file that has gone by the time of its
  event ends the watcher (`scan.go:43`), and a file that is written in place is
  scanned as it is at its Create event and not again (`MovedInIsScanned` is
  about files that are moved in).

And these disagreements of text and code, met on the way, have no run of their own:

- The comment at `src/commands/scan.go:106-109` says that a failed mime detection
  `leaves the field empty and the client falls back to the total engine count`.
  `summarizeScan` (`server.go:398-403`) counts the engines for an empty type, which
  are the wildcard and the intel engines and never none, so that the
  progress is of those. `ScanLifecycle` has what the code does (`Expected`).
- The comment at `app.js:649-650` says that the quiet window and the 75s are there
  `so every engine, including slow AV, has reported before the scan is marked done`.
  An engine has 120s (`config.toml:35`, `plugins.go:39`), those for files begin only
  when the intel ones are through, and the age counts from the answer to the upload: an
  engine may report later than that, and its scan has then been dropped with the
  partial count that the comment is about. `SettledIsFinal` is the part that the rule does
  ensure.
- The comment at `app.js:655-657` says that an entry is dropped `so the dropzone
  resets to idle instead of freezing`. At `#/scans` it does (`DropzoneSettles`); on
  the landing page, as told above, it freezes.
- `README.md:125` says of `malice plugin install <e>` `pull an engine image`, and
  `scan.go:83` tells the user to run it for a missing image; `cmdInstallPlugin`
  pulls nothing and appends an entry with the image `blacktop/test`.
- The comment at `src/config/load.go:123-125` says that a prompt `must be skipped
  in daemon/docker/CI contexts`; `stdinIsTTY` takes any character device for one, `/dev/null` included, so that a daemon
  with its input from there asks, and ends by `log.Fatal` at the end of the
  input. `ConfigFiles` has both outcomes of the prompt.
- The two detection rules differ for `nsrl`, `shadow-server` and `virustotal`: a
  result of theirs with `infected`, a threatening `status` or `hits` has a card
  that says `Detection` and does not count towards the verdict. The engines as
  they are set none of these fields: `Ambiguous` is the set of special engines that
  do, which the run and the theorem on `PageAgrees` take to be empty.

## What is proved

For every value of the constants that satisfies the named assumptions of the
modules, TLAPS checks the following; `PROJECT.json` has the full list. In each
proof module the lemmas treat one group of actions each, an invariance
theorem combines them, and the properties are its consequences.

| Module | Theorems |
|---|---|
| `UploadAdmission_proofs` | `TypeOK`, `SlotAccounting`, `ConcurrencyBound`, `ScanHasItsSample`, `AcceptedIffScanned`, `NothingLeftBehind`, `RejectOnlyWhenFull`, the refinement of `SlotPool` |
| `EngineFanout_proofs` | `TypeOK`, `WaitGroupExact`, `IntelFirst`, `ReturnedClean`, `EveryResultIsIn`, the refinement of `TwoPhaseRun` |
| `SecretsStore_proofs` | `TypeOK`, `MirrorsUnlessUnsaved`, `DiskHoldsAcked`, `EmptyOnlyIfCleared`, the refinement of `CredentialStore` |
| `ScanLifecycle_proofs` | `TypeOK`, `OneDocument`, `SeesWholeSample`, `ProgressCompletes`, `NoBogusClean`, `PageAgrees`, `PagePartsOnSpecialsOnly`, `CardsExplainVerdict`, `RulesAgree`, the refinement of `TwoPhaseRun` by every scan |
| `DatabaseStart_proofs` | `TypeOK`, `OneCreator`, `SomeoneGetsIn` |
| `ConfigFiles_proofs` | `TypeOK`, `Serial`, `UserConfigKept`, `CredentialsStayHome` |
| `FolderWatch_proofs` | `TypeOK`, `NotForgotten`, `KeepsLocal` |
| `ScanPoller_proofs` | `TypeOK`, `TimerWhileActive`, `SettledIsFinal`, `FrozenInPassing`, `GivesUp` |

**UploadAdmission.** That a slot is released once depends on where the handler
is, whether it has given its slot away and what the goroutine does, and that the
sample is there depends on the handler not being on a path that removes it.
`IInv` therefore says for each upload (`Local`) which combinations of `pc`,
`semHeld`, `scan`, `disk` and `status` occur, and adds `SlotAccounting`. `LocalNext`
treats one upload at a time; `SlotCount` says how the number of owners changes
when one upload becomes or ceases to be an owner, and `SlotNext` uses it to keep
the counter equal to that number.

**EngineFanout.** `WaitGroupExact` alone does not survive the start of a phase,
which adds as many to the counter as it starts goroutines: none of them may be
running. `Phases` says for each phase which engines are not started, started and
through; `OnCourse` ties the container and the result of an engine for which no
call has failed to its place in `StartPlugin`. The refinement takes an engine to be at work
from the launch of its goroutine to the call of `Done`: a `Done` is the abstract
`End`, every docker call before it a stutter, and the exactness of the WaitGroup
is what makes the end of `Wait` the abstract end of a phase.

**SecretsStore.** The lock is held by the one post inside `Set` (`LockHeld`), and
memory differs from what it was when the lock was taken in that post's key alone
(`OneKeyAhead`): without it a failed write could leave any key apart from the
file. `DiskHoldsAcked` is about both tables at once, since the next rename makes
the file what memory is: every value of memory, too, is the acknowledged one or
one that is accounted for in `failed`. What a failed `Set` or start leaves for a key is thus
carried along until a `Set` of that key succeeds, and what was acknowledged for a key is
never lost to a `Set` of another. `StillThere` is what an engine may rely on
between its two reads. The refinement maps the write of the map and the rename to
the steps of the abstract store, a partial load to an abstract one of the same
lines, and every other step to a stutter. Assumed of trimming: a value trimmed
twice is the value trimmed once.

**ScanLifecycle.** `Control` says what the round and the place of a scan mean for
its document and its engines; `Account` which engines run, have reported or have
broken down; `Sharing` what the file of a sample is while scans of the same one
stand where they do: whole, unless one of them is at its copy, they have met, or
a copy has failed. Assumed: no engine is called `copy` or `mime`, the names under
which failures of the other parts are recorded. `Account` also gives the
refinement: an engine is through when it has reported or broken down, and no
later engine is through when its phase begins. The scans share files, not
engines, so that `RunsNext` is a conjunction over the scans, and each scan by
itself is a behaviour of `TwoPhaseRun` (`EveryRunImplements`).

**Detection.** For every result, an engine that the server counts has a card that
says so, and for every engine but the three special ones the two rules agree.
What a scan's document holds is what its engines can have stored (`Genuine`). Hence
for any results whatever a threat has a card that says why, and a detection under
a clean verdict is on a card of an `Ambiguous` engine; and `PageAgrees` holds
in every state if there is no such engine. It does not hold for all results, for
the reason given under Findings: the hypothesis is a statement about the engines'
own code, which is not in this repository.

**DatabaseStart.** The container's name is taken from its creation on and nothing
frees it, so that one setup at most has created it: `Creator`. `Undisturbed` distinguishes, as long as no
call has failed, a database nobody has started, one that was there, and one
that a scan has created and is still to wait for, or has waited for in vain (`late`).
Assumed: there is a scan.

**ConfigFiles.** `Kept` says where the user's settings are as long as no update has
renamed a `config.toml` that was replaced already: in `config.toml` while nobody is
about to write it, and from the first rename on in the backup, which no process
replaces before the embedded file, or an empty one, is there to be renamed (`Replacing`). `Loaded` is what makes the reuse of decoded elements
harmless: every plugin of a readable table has its own credential or none, and
what a process between its two loads has in memory is how the table still begins,
unless a rewrite came between. Appending keeps this, and so does a longer text
left behind a shorter one. Removing the first of several plugins of a name needs
that a set of positions has a least one, which follows from the well-foundedness
of the strict subset ordering. `Serial` compares the table with all the commands
carried out so far, replayed (`Replay`). `Tidy` says what the table is while a process
stands between its truncation and its write, and what those that are about
to write have loaded: one that removes has either the table as it still is or a
rewrite beside it, in whose write it will be caught. That the replay of one command
more is that command carried out on the replay of the others cannot come from an
induction here; instead the invariant carries the recursive function itself (`Solves`),
extended by one point with every command. Assumed: at first every plugin's `env`
is its own (`CredentialsAssumption`), and a missing file or one that is not TOML
is no table (`FilesAssumption`).

**FolderWatch.** An image that an update found built on the host is there as long
as nobody removes it (`StillThere`), so that the look before a fetch, if it
finds nothing, was not at such an image (`Looked`). `TypeOK` needs that the stage of
a scan goes with where its process is (`Staged`), because the beginning of its setup is
`PluginImages`' and the rest is `FolderWatch`'s. `NotForgotten` is almost inductive by itself: it
needs only that what was moved in and not touched is whole (`MovedIsWhole`), and the proof
follows one file through each step, the rest of the queue moving up by one
when an event is taken. `MovedInIsScanned` adds to it that the watcher goes on.
Assumed: the lists of plugins are sequences of images (`ImagesAssumption`), and no file
is the value for `none' (`NamesAssumption`).

**ScanPoller.** `DropsAreFinal` is about one scan that was never left out of a list,
polled late or reported on late. `Prompt`: the list a tick awaits has it unless its
entry is newer, and one absence is not enough to drop it, so it goes by the quiet rule
or the hard timeout. `Calm`: the number of quiet polls does not run ahead of the
periods of silence since its last report, because there is one poll to a period and each
new count starts the polls over; so that, when the quiet rule applies, a whole window has
passed in silence after the last report and the scan is old enough. `Leaving` and `Gone`
carry on from there: a scan about to go, or gone, shows all reports there are
(`Complete`), and any that still comes is late (`Late`) and puts it among the doubtful.
Nothing is assumed of when engines report; of the thresholds, that a quiet window fits into
the minimum age and one absence is not the limit (`ThresholdAssumption`).
`FrozenInPassing` is a question of rendering and independent of it: a form is busy
only while an upload is sent (`Busy`), and a tick that drops the last entry renders
the list itself. `GivesUp` is the ranking behind `PollingEnds`: counts never go
down, from an entry to the awaited list to the server (`Counted`), and an entry that
is given up is old and stays old (`Old`), so that a list that has it and
counts no more engines drops it. There are only so many engines.

All safety properties of the runs are proved. Only model-checked are the liveness
properties, since the prover does not deal with fairness: `EverythingComesBack`,
`ScanReturns`, `PostAnswered`, `ScanEnds`, `PollingEnds`, `DropzoneSettles`,
`SetupEnds`, `MovedInIsScanned`. Of three of them the safety half is proved apart:
`GivesUp` of `PollingEnds`, `FrozenInPassing` of `DropzoneSettles`, `NotForgotten` of
`MovedInIsScanned`; what TLC adds is that the steps they wait for are taken.

## What is not modelled

- REST reads other than the scan list and a scan's detail, the routing and the
  token check: handlers without state. Of the Elasticsearch client, single
  stateless requests; their failure is a fault of `ScanLifecycle` and `ScanPoller`.
- The engines and settings pages of the web interface, toasts and all layout. A
  tick on a detail page fetches the scan before it renders it, which fetches it
  again: the first of the two requests is left out.
- Code without a caller: `container/run.go`, `container/create.go`,
  `waitExitOrRemoved`, `GetFileInfo`, `CopyToSamples`, `CopyFile`, `gzipSample`,
  `image.Search`, `UpdateAllPluginsFromSource`, `GetExitCode`.
- The network and volume helpers, thin wrappers of docker calls, whose outcomes
  are in the callers' modules; argument parsing, directories, the formatting of
  logs and tables.
- Generated data (`bindata.go`), deployment and build files.
- Composition of all modules into one: each hands over at one call or one
  document, named in the header of the module, and the product of their states
  is beyond TLC; the composition that matters for the watcher, whose scans use
  the images that others update, is `FolderWatch`.
