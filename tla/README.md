# A TLA+ model of the DayZ mod updater

This directory holds TLA+ specifications of the `dayzmods` daemon, the TLC
configurations that check them on small installations, and proofs, checked by
TLAPS, for installations of every size. Line numbers refer to the repository;
`PROJECT.json` gives, for every definition, the lines it models.

## 1. The system

The daemon keeps the mods of some DayZ servers up to date. It reads which mods
each server lists, asks the Steam Web API for their versions, downloads new
versions with SteamCMD into `local_mods_root`, mirrors them to the servers over
SFTP, and restarts the servers over RCON after a countdown. What it knows is in
one file, `state.json`.

| Component | Source | State it keeps | Operations | Correct when |
|---|---|---|---|---|
| Orchestrator | `internal/orchestrator` | which handler runs; the context | `Run`: one `select` over four tickers and `ctx.Done`; `runModlistPoll`, `runWorkshopPoll` (→ `runSteamCMDBatch` → `runSFTPSyncPhase`), `runRCONTick`, `flushState` | what is published arrives; marked servers get synced; a batch is not lost |
| State store | `internal/state` | `state.json` | `Load`, `Save`, `Update` (load, change a copy, save by rename), `SaveAtomic`, `normalize` | a reader sees one whole earlier or later state; an Update that fails changes nothing |
| Modlist poller | `internal/modlist` | `last_mod_ids`, `last_modset_hash`, names and folders of mods | fetch over SFTP with retries, parse, `ApplyPollResult` | a changed list marks the server; no listed mod lacks a folder |
| Workshop poller | `internal/workshop` | `workshop_updated_at`, `last_workshop_check_at` | `PollMetadata`, `fetchBatched`, HTTP retries | every mod that is due is found, once; a partial answer is an error |
| SteamCMD runner | `internal/steamcmd` | `local_mods_root`, staging and backup folders, `local_updated_at` | `UpdateMods`, retries, `MirrorWorkshopContent`, `MarkServersUsingModForPlanning` | `local_updated_at` never claims what the folder is not |
| SFTP engine | `internal/sftpsync` | remote mod folders, `synced_mods`, stages, deadline | `SyncServers` (goroutine per server), `syncServer` (goroutine per mod), `syncMod` (plan and execution), `dialSFTP` | `synced_mods` never claims what the remote folder is not; failures reach the result |
| RCON controller | `internal/rcon` | `needs_shutdown`, deadline, `next_announce_at` | `Tick`: announce, `#shutdown` | no restart before its deadline, and one after it |
| Command line, unit file | `cmd/dayzmods`, `examples` | none | signals cancel `ctx`; systemd restarts | nothing but `state.json` and the folders is relied on |
| Configuration | `internal/config` | read once | defaults, validation | (what it guarantees is assumed) |
| Legacy service | `internal/service`, `planner`, `steam`, `sftpsync/syncer.go`, `cmd/dayz-updater` | a `state.json` of its own | one cycle: fetch, plan, announce, sync, save | what it records as synced is on the server; a failing cycle loses no publication |
| Logging, placeholders, third-party stand-ins | `internal/logging`, `logx`, `localmods`, `syncer`, `util`, `third_party` | none | | not modelled |

How they interact: the orchestrator is one goroutine and runs one handler at a
time. A handler touches `state.json` only through `store.Update`, whose mutex
it holds while its function runs — for the SFTP phase and the RCON tick that is
the whole phase, all servers included. Inside a handler there is concurrency:
one goroutine per polled server, per Web API batch, per synced server and per
mod of a synced server, each behind a semaphore whose wait also ends on
`ctx.Done`. The handlers talk to each other only through the flags, stages and
times of `state.json`, and through the folders.

What is hard here:

* **Failure and discard.** An error of one server makes `Update` throw away the
  records of all of them, although the remote folders have changed.
* **Crashes** between two renames, in the middle of a sync, between a
  `#shutdown` and the save that records it.
* **Order.** Modlist changes, publications, downloads, syncs and restarts
  interleave over several cycles; `needs_mod_update`, `needs_shutdown` and
  `stage` are each written by several handlers.
* **Cancellation.** A stop in the middle of a sync leaves goroutines that did
  nothing and say nothing.
* **Liveness.** The select is random, a batch ends at its first error, the SFTP
  phase runs only after a non-empty batch, a new sync moves a deadline.
* **Files.** A remote folder is changed operation by operation on a server that
  has rules of its own; a run may be cut between any two, and only sizes and
  mtimes tell the next run what is left to do.
* **Waiting.** Slots, an error channel with room for one, dials that outlive
  their attempt, calls without a timeout.
* **Time.** Ticks that are slow, lost or repeated, and what players were told
  before the deadline moved.

`PROJECT.json` lists every hazard with its line and the property that catches
it, or the reason why none does.

## 2. The modules

| Module | What of the system | What is in it |
|---|---|---|
| `UpdaterState` | records of `state.json`; what each handler does to them | pure operators, no variables |
| `Updater` | the daemon, its goroutines, failures, crashes; the world around it | the state machine: `Init`, one action per step, `Next`, `Spec` |
| `UpdaterProperties` | | safety and action properties, fairness, liveness; the claims of the documentation the code does not keep |
| `UpdaterInvariant` | | the inductive invariants of the proofs, in named parts |
| `Rollout` | what the daemon promises about records and servers | the abstract rollout: polls, downloads, copies, sync rounds, restarts; no phases, goroutines, saves or crashes |
| `UpdaterProofs`, `UpdaterSyncProofs`, `UpdaterStageProofs` | | proofs about the daemon: types; downloads and syncs; stages, marks and restarts, and that it implements `Rollout` |
| `MCUpdater` | | small installations for TLC |
| `AtomicStore` | what `internal/state` promises | the abstract store: updates that happen at once or not at all |
| `StateStore`, `StateStoreProofs` | `Load`, `Save`, `Update`, `SaveAtomic`, `flushState`, `runModlistPoll`'s WaitGroup | goroutines, the mutex, temp files, failures, crashes; that it implements `AtomicStore` |
| `SftpSync`, `MCSftpSync`, `SftpSyncProofs` | `syncMod`: listings, `buildPlan`, every operation, `uploadAtomically` | one mod's folder file by file, and a server that may refuse |
| `RconCountdown`, `RconCountdownProofs` | `Tick` for one server, `RemainingMinutes`, `ShouldAnnounce`, the start of a countdown | second by second: announcements, the deadline, lost ticks |
| `FanOut`, `FanOutProofs` | `fetchBatched` and `FetchMetadata`, the slots of `runModlistPoll` and `fetchModlistHTML`, `SyncServers` up to `dialSFTP`, `runSteamCMDWithRetry` | one round of concurrent work with retries, timeouts, hangs and a stop |
| `LegacyService`, `LegacyServiceProofs` | `service.Run`, `runOnce`, `planner`, `steam/client.go` | the older program, cycle after cycle |

`Updater` composes the handlers: everything that goes through `state.json` or
the folders meets there. The other modules open up one of its steps, or of its
assumptions, where a step hides something that could go wrong:

* `StateStore` is why `Updater` may treat an Update as one step that happens or
  does not, and a flush as no step at all.
* `SftpSync` is why `Updater` may say that a sync of a mod leaves `Mixed` until
  it succeeds and an exact copy then (`SuccessMeansMirrored`).
* `RconCountdown` adds to `BeginRCONTick` … `EndRCONTick` the announcements,
  which change no flag.
* `FanOut` is what "fails after its retries" means in `PollServerFails`,
  `SteamCMDFails` and `DialServerFails`, and why a workshop poll that lost a
  batch is no poll (`AnswerIsWhole`).

### The daemon: state

`mods` and `servers` are `state.json` on disk. `st` is the copy of the servers
a long `Update` works on: the SFTP phase and the RCON tick change `st`, and
`EndSync` / `EndRCONTick` write it (or throw it away). The short Updates — a
polled modlist, a workshop poll, a saved download — are single steps, because
nothing the outside can see happens inside them. `phase` is the handler the
loop is in; `todo` holds the servers a modlist poll or an RCON tick still has to
visit; `batch`, `staged` and `backup` are the local variables of
`runSteamCMDBatch` and `MirrorWorkshopContent`; `job` and `modJob` are the
goroutines of `SyncServers` and `syncServer`. `local`, `remote` and `loaded`
are the folders under `local_mods_root`, those on the servers, and the remote
folders as they were when the game last started. `published` is the Steam
Workshop, `now` the clock.

A folder is `Missing`, `Mixed` (remote only: a sync changed it and did not
finish), or `[mod, version]`. A version is its publication time, so it can be
compared with the labels `workshop_updated_at` and `local_updated_at`. 0 is Go's
zero time, a nil pointer and a missing map entry, which the code treats alike.

### The daemon: steps

| Code | Actions |
|---|---|
| `runModlistPoll`, `ApplyPollResult` | `BeginModlistPoll`, `PollServer(s)`, `PollServerFails(s)`, `EndModlistPoll`: servers in any order, each an Update of its own |
| `runWorkshopPoll`, `PollMetadata` | `WorkshopPoll(found)`; an empty batch ends the handler |
| `runSteamCMDBatch`, `UpdateMods` | `SteamCMDFails`, `NothingDownloaded(m)`, `MirrorBackup(m)`, `MirrorSwap(m)`, `MirrorSwapFails(m)`, `SaveDownloadedMod(m)`, `SaveDownloadedModFails` |
| `SyncServers` | `BeginSync`, `SkipServer(s)`, `EndSync`, `SaveSyncFails` |
| `syncServer` | `RefuseServer(s)`, `NothingToSync(s)`, `DialServer(s)`, `DialServerFails(s)`, `SkipMod(s, m)`, `FinishServer(s)` |
| `syncMod` | `StartMod(s, m)`, `StartModFails(s, m)`, `SyncMod(s, m)`, `SyncModFails(s, m)` |
| `Tick` | `BeginRCONTick`, `StopRCONTick`, `LeaveServerUp(s)`, `ShutDownServer(s)`, `ShutDownReplyLost(s)`, `EndRCONTick`, `SaveRCONTickFails` |
| signals, systemd | `Signal`, `Stop`, `Start`, `Crash` |
| the world | `TickClock`, `PublishMod(m)`, `CalmDown` |

A step is split off wherever the world can see it or a crash can come in
between. `Crash` and every failing operation are possible while `~calm`;
`CalmDown`, which may come at any moment, ends that. It is there for the
liveness properties; safety holds on both sides of it.

### The daemon: what it promises

`Rollout` says what may happen to the records of `state.json` and to the servers
at all: a poll that changes a known list marks its server, a newer version marks
all servers that list the mod, only the folders of marked servers are touched, a
sync round trades marks for restarts, and a restart that is owed stays owed until
the server has loaded the folders it has. `Ledger` in `UpdaterProperties` is
`Rollout` with the variables of `Updater`: the disk's lists, labels, entries and
flags, and the servers' folders. Saves that fail, discarded Updates, crashes and
everything inside a handler are stutters. `Complete` is `~Graceful`: then a round
takes all marks or none and leaves no listed mod behind; a stop may cut it.

| `Rollout` | Steps of `Updater` that do it |
|---|---|
| `Poll` | `PollServer` |
| `Download` | `SaveDownloadedMod` |
| `CopyTo` | `StartMod`, `SyncMod` |
| `SyncRound` | `EndSync` (none, if a server failed) |
| `Restart` | `ShutDownServer`, `ShutDownReplyLost` |
| `RecordRestarts` | `EndRCONTick` |

### The daemon: what is abstracted

* Fetching and applying a modlist is one step: a poll may read any list of
  `Modlists`. Retry loops are "succeeds or fails".
* `WorkshopPoll(found)`: `found` are the ids that were due, were asked for and
  came back, so `last_workshop_check_at` is not kept. A poll that fails leaves
  everything as it was (its Update is discarded) and is not a step. An answer
  carries the published version; answers without a time are not modelled here
  (they are in `LegacyService`, which converts them the same way).
* The data race of `engine.go:62` against `:83` can end the process ("concurrent
  map read and map write"); that outcome is part of `Crash`.
* `DialServer` is not taken after `ctx` is done: that outcome equals a signal
  right after it.
* Titles, error texts, `last_success_sync_at` and `shutdown_sent_at` are written
  and never read, and left out. So are servers that were
  removed from the configuration. Announcements are in `RconCountdown`.
* A game server restarts only by the daemon's `#shutdown`.
* A modlist is the set of its ids. `modlist.go:71` and `:213` keep an id that is
  listed twice: the doubled row changes the hash, which marks the server once
  more, and starts two goroutines for one mod (`engine.go:106`, `:152`). No model
  has such a list.
* Two mods never share a folder (`FoldersAreDistinct`): colliding slugs are a
  hazard of their own.

### The store

`file` is `state.json`, `temps` counts the `state-*.tmp` files, `holder` is
`FileStore.mu`. A caller goes `idle` → `waiting` (for the mutex) → `reading` →
`running` (the callback) → `saving` → `writing` (a temp file exists) →
`renamed` → `idle`; a flush is a `load` that ends `loaded`, then a `save`. `loop`
is what `Run` does, `todo` the WaitGroup of a poll. Every step with the mutex
held may end in `Fail` instead, except after the rename; the deferred
`os.Remove`, whose error `SaveAtomic` drops (`store.go:125`), may fail as well,
which `unremoved` counts. `pollHangs` and `callbackHangs` are calls of the SFTP
client that never return (`modlist.go:136`, `engine.go:446`), the second with
the mutex held; they end with the process. `Crash` may come at any step. A State is abstracted to how many updates of each caller are in it, which
is what losing, splitting or doubling an update would change. The rename is
atomic and, as the code does not sync the file, a loss of power is not modelled.

### Files of one mod

`local` and `remote` map paths to kinds and entries. `epoch` numbers the
downloads: `MirrorWorkshopContent` copies each file anew, so it stands for the
content and the mtime of every local file, and all versions of a file have one
size — the case in which only the mtime tells them apart. A run starts with
`StartSync` (both listings and `BuildPlan`) and carries out its lists in the
order of `syncMod`: `DeleteTypeConflict`, `MakeDir`, then per upload
`CreateTemp`, `RenameTemp`, `SetMtime`, then `DeleteExtraFile`, `DeleteExtraDir`,
`FinishSync`. The server refuses what SFTP refuses (`OperationRefused`,
`RenameRefused`); whether its RENAME replaces a file is the variable `replaces`.
`Cut` ends a run anywhere. Entries of one depth come in any order, which
includes that of the paths. A local file never has the exact mtime the server's
clock gave to a file: those mtimes are `None`.

### Countdown, fan-out, legacy

`RconCountdown`: `disk` is the server's record, `mem` the copy of the SFTP phase
(`syncing`) or of the tick. `StartCountdown` computes the deadline when this
server's goroutine ends, `SaveCountdown` writes it after the join of all servers,
which may be later than the deadline; `LoseUpdate` is a save that fails, another
server's error or a crash. Each command ends `ok`, `replyLost` or `failed`. A
tick counts the minutes from its own start, players read them when the message
arrives: `told` remembers of a message the time before which its reader expects
no restart (`restartAfter`, counted from its arrival) and by how much the arrival
was later than the start of the tick (`late`). It keeps the messages that reach
furthest and is emptied when `#shutdown` arrives.

`FanOut`: `kind` says which of the four places is modelled; `at` is where each
job's goroutine is, `dials` what became of the goroutine behind each attempt,
`conns` the open connections, `errs` the error channel. `sync` ends with the
connection; what follows it is in `Updater`.

`LegacyService`: `disk` is the record, `st` the cycle's copy, saved once by
`SaveCycle`; `AbandonCycle` is any failure, stop or death. A folder under
`LocalPath` is not exchanged while it is being mirrored.

## 3. What TLC checks

| Run | Instance | Properties |
|---|---|---|
| `servers` | 2 servers (symmetric), 1 mod that comes on and off their lists, both slots free, crashes and failures; 2.66 million states | `TypeOK`, `SyncedModsAreWhole`, `LocalCopiesAreHonest`, `NoServerLeftBehind`, `QuietServersRunTheirMods`, `ImplementsRollout` |
| `signals` | 1 server, 2 mods, one slot, graceful stops, an API that may stay silent; 0.81 million states | `NoUnseenChange`, `StagesMatchFlags`, `IndInv`, `NoEarlyRestart` |
| `live` | 1 server, 2 mods, one slot, fair scheduling, no graceful stops; 93 thousand states | `CountdownMeansSynced`, `DueRestartsHappen`, `PublishedModsAreDownloaded`, `BatchesEndInSync` |
| `store` | 2 pollers and the main loop, 2 updates each, 2 crashes, 1 failing `os.Remove`; 105 thousand states | `StoreInv`, `LeftoversHaveACause`, `ImplementsAtomicStore`, `LoopKeepsSelecting` |
| `files` | every folder over the paths `a`, `a/x`, `a/x/f`, `b` against every other, 2 downloads, 2 cuts; 144 thousand states | `SyncInv`, `SuccessMeansMirrored`, `NoHalfFileInPlace`, `OrderIsAccepted`, `ListedEntriesStay`, `SyncsConverge` |
| `countdown` | a minute of 3 s, 5 s of grace, an announcement every 2 s, 13 s, 2 syncs; 290 thousand states | `CountdownInv`, `MinutesAreCeiling`, `NoEarlierThanSaid`, `AnnouncementsArePaced`, `PlayersStayWarned`, `CountdownsEnd` |
| `fanout` | 2 jobs, 2 tries, 1 slot, each of the four kinds; 22 thousand states | `FanOutInv`, `SlotsHold`, `AnswerIsWhole`, `OnlyLateDialsStayOpen`, `DialersEnd`, `RoundsEnd`, `StopsAreHeard` |
| `legacy` | 2 mods, each published twice; 66 thousand states | `LegacyInv`, `UpToDateIsWhole`, `PublicationsAreRecorded` |

What they show, in words. The daemon:

* `SyncedModsAreWhole` — an entry of `synced_mods` that equals the mod's
  `local_updated_at`, so that the next sync skips the mod, is never a lie: the
  remote folder is whole and not older. Discarded Updates and crashes only ever
  make the daemon do work twice.
* `LocalCopiesAreHonest` — the same for `local_updated_at` and the local folder,
  across swaps that fail or are cut.
* `NoServerLeftBehind` — a server that lists a mod in an older version than the
  local one is marked for a sync. Nothing is claimed for a mod never synced to
  the server: the first poll of a new server does not mark it
  (`modlist.go:285`).
* `QuietServersRunTheirMods` — end to end: a server with nothing pending runs
  whole copies, not older than its last syncs.
* `ImplementsRollout` — whatever fails, crashes or is discarded, the records and
  the servers change only as `Rollout` says. The mutant that keeps the partial
  result of a failed round breaks it.
* `NoUnseenChange` — no file changes under a running server without a restart to
  come: with no sync and no restart pending, the game runs exactly what is in
  its folders, also after stops that cut a sync.
* `StagesMatchFlags` — the saved stage and the two flags agree: `planning`,
  `syncing` and `error` come with a pending sync, `countdown` with a pending
  restart, and a pending restart has its deadline. That `error` is in fact never
  saved is a difference to the documentation, see section 4.
* `NoEarlyRestart` — no restart before the saved deadline.
* `CountdownMeansSynced` — without graceful stops, a countdown means that every
  listed mod is synced in the local version.
* `DueRestartsHappen`, `PublishedModsAreDownloaded`, `BatchesEndInSync` — due
  restarts happen, published versions arrive, and a batch that is not cut ends
  with every marked server synced.

The store:

* `ImplementsAtomicStore` — files, mutex, temp files, flush, failures and
  crashes behave as `AtomicStore`: an update that was reported as done is in
  `state.json` and stays, one that failed is not, and none is split or doubled.
  It holds although `flushState` reads and writes under two locks, because no
  poller runs while the loop flushes; the mutant that drops `wg.Wait` breaks it.
* `LeftoversHaveACause` — every temp file on disk is being written or has a crash
  or a failed `os.Remove` of its own: no other way out of a call leaves one.
* `LoopKeepsSelecting` — the loop comes back to its select again and again, unless
  a call of the SFTP client hangs: no failed file operation and no failed poll
  leaves the mutex or the WaitGroup behind. A poll that hangs in `sftp.NewClient`
  does stop the loop for good.

Files of one mod:

* `SuccessMeansMirrored` — a run that ends well leaves an exact copy of the
  local folder, whatever cut runs or hands had left there.
* `NoHalfFileInPlace` — under its own name a file is always one download's copy
  or what was there before.
* `OrderIsAccepted` — the server never refuses an operation for a missing
  parent or a directory that is not empty yet, except in the cases of `Blocked`:
  a file has to replace a directory with entries (its children are deleted
  last), a folder without directories has no remote root to go to, or the
  server's RENAME does not replace files.
* `ListedEntriesStay` — no path that both sides have in the same kind is ever
  missing on the way to the new version.
* `SyncsConverge` — with retries the mod gets synced, or one of those three cases
  holds.

Countdown:

* `NoEarlierThanSaid` — who reads "restart in n minutes" has more than n − 1 from
  then on, less the time the message took from the start of its tick, though
  later syncs move the deadline, countdowns are saved late, ticks are lost, and
  `#shutdown` may arrive twice. That delay cannot be left out: all servers of a
  tick share its `now` (`controller.go:44`), so behind a slow dial a message says
  2 minutes when 51 seconds are left.
* `MinutesAreCeiling` — `RemainingMinutes` against its definition: the least
  number of minutes that covers what is left.
* `AnnouncementsArePaced`, `PlayersStayWarned` — announcements keep their
  distance after an outage of RCON, and a tick is silent only when players of
  this countdown were told a moment ago.
* `CountdownsEnd` — also on a server that takes no `say`, unless a sync phase
  begins that never ends.

Fan-out:

* `SlotsHold`, `AnswerIsWhole`, `OnlyLateDialsStayOpen` — semaphores hold; a
  lost batch or a stop never makes a partial workshop answer pass for a whole
  one (the other kinds may end partial under a stop); connections are closed
  unless the attempt was given up before its dial came through.
* `DialersEnd`, `RoundsEnd`, `StopsAreHeard` — no goroutine blocks on a channel
  for good; a round ends unless `sftp.NewClient` or SteamCMD hangs; a stop ends
  every job except one that hangs in `sftp.NewClient`.

Legacy service:

* `UpToDateIsWhole` — a mod its record calls up to date is whole on the server,
  whichever cycle failed and lost which records. (How new the copy is depends on
  who fills `LocalPath`, which is not this program.)
* `PublicationsAreRecorded` — failing cycles lose no publication.

`StoreInv`, `SyncInv`, `CountdownInv`, `FanOutInv`, `LegacyInv` and `IndInv` are
the inductive invariants of section 5.

Every property of these runs has a mutant in `PROJECT.json`: a definition with a
plausible bug (marked `Mutant:` in the modules) under which TLC finds the
property violated in that same run.

### Bounds, and why they are enough

*The daemon.* `MaxNow` (2 or 3) is where the clock stops and `LastPublish` (2)
the last publication: one version published at the start and one later, so a
download, a sync, a countdown and a restart of the old version can each be
overtaken by the new one, with time left (3) for the deadline of a countdown
that begins at 2. `Grace` is 1: the deadline is ahead, reached, or passed.
Nothing bounds the number of polls, batches, syncs, ticks, crashes or signals;
the state space is finite because versions and clock are. Two servers with two
slots show interleaved goroutines and shared failure; two mods on one slot show
waiting, skipping, partial success and the order of a batch. More of either adds
no new kind of interaction, and the proofs below do not depend on the numbers at
all. A deadline after `MaxNow` is never reached, so `DueRestartsHappen` claims
nothing about it.

*The store.* `MaxUpdates` and `MaxCrashes` (2): an update lost, doubled or
overwritten by another caller's shows with two, and so do leftovers of two
crashes. `MaxUnremoved` (1) adds a leftover of a process that goes on. Polls, flushes, failures and graceful stops are not bounded.

*Files.* Depth three and a sibling: parents before children, children before
parents, a file in the place of a directory and the reverse. `MaxEpoch` 2 gives
a changed version, `MaxCuts` 2 a run over the leftovers of a run over leftovers;
with three temp names one is free at every upload. Refusals are not bounded.

*Countdown.* `Minute` 3, `Grace` 5 and `AnnounceEvery` 2 have no common
factor, so rounding shows; 13 seconds hold two full periods of grace one after
the other and a minute more for slow ticks and late saves, and `MaxSyncs` 2 a
deadline that is moved.

*Fan-out.* Two jobs on one slot make one wait; two tries make a retry and a last
attempt. `Jobs`, `MaxRetries` and `Slots` are the code's own parameters.

*Legacy.* `LastPublish` 2 as above; two mods make an order and a cycle that fails
between them.

TLC looks for deadlocks except where the system may really stop: in `files`
after the last download is synced, in `store` when calls hang and no crash is
left, in `countdown` when the clock stops, in `fanout` when the round has ended
or a call hangs for good.

### Fairness, and why the code justifies it

The daemon:

* `WF_vars(HandlerGoesOn)`: a handler that has begun goes on. Every operation
  has a timeout or is assumed to end. Not all do: see the hazards of
  `engine.go:168` and `:446`, and `LoopKeepsSelecting`.
* `SF_vars(BeginModlistPoll)`, `SF_vars(FullWorkshopPoll)`,
  `SF_vars(BeginRCONTick)`: a ticker's channel keeps one tick until it is
  received, and `select` picks at random among the ready cases. A case that is
  ready again and again is chosen in the end. Strong fairness is needed since
  other handlers keep leaving and entering the select. For the workshop poll the
  fair step is one in which the API answers for every id: once nothing fails,
  polls answer for whatever is due.
* `WF_vars(TickClock)` and `WF_vars(CalmDown)`: time passes up to the bound, and
  failures end at some moment that is not known. No property holds because a
  particular failure never happens.

The store: weak fairness of each goroutine's next step — a poll or a callback
ends or hangs, which of them is open — of the loop and of the restart by systemd (`Restart=always`); strong fairness of `Lock(c)`, as
`sync.Mutex` hands the lock to a waiter that has waited too long, and of
`HandlerDone`, as a handler makes finitely many Updates. `Fail` and `Crash` stay
possible throughout.

Files: `WF_vars(SyncStep)`, which is a mod that is not synced being tried again
and each call of a run returning; cuts end because they are bounded.

Countdown: weak fairness of time and of the tick, none of `SaveCountdown`, as a
server in the SFTP phase may hang; `SF_vars(SendShutdown("ok"))`,
a server that is asked to shut down again and again does so at some time; and
`SF_vars(SaveTick /\ ~mem.needsShutdown)`, not each of the ticks in which it did
is lost.

Fan-out: goroutines that can run do. A dial may take forever and a signal may
never come: neither has fairness.

Legacy: the ticker fires again (`WF_vars(Cycle)`), failures end at some moment,
and the API answers in full at some time (`SF_vars(FullAnswer)`).

## 4. Where code and documentation differ

Each of these runs checks one sentence of the documentation and ends in a
counterexample; `findings` in `PROJECT.json` quotes the sentence.

| Run | Claim | What the code does |
|---|---|---|
| `partial` | a failed sync keeps its successes in `synced_mods` and sets stage `error` | the error makes `Update` discard both (`store.go:108`); neither `error` nor `syncing` is ever saved |
| `stuck` | the next poll/sync cycle retries | the sync phase runs only after a download (`orchestrator.go:141`) |
| `cut` | a countdown is entered when the sync has finished | mods skipped by a stop count as no failure (`engine.go:160`) |
| `rename` | folders are stable | a new display name moves the folder of record (`modlist.go:294`) |

Differences met while modelling that have no run of their own:

* `docs/TECH_CONTEXT.md:444` advances `next_announce_at` by
  `announce_every_seconds`; the code sets it to the tick's time plus that
  (`controller.go:74`). The code's way is the better one: `AnnounceCatchingUp` in
  `RconCountdown` is the documented one, and it breaks `AnnouncementsArePaced`
  after an outage.
* `docs/TECH_CONTEXT.md:317` says that network errors are tried again. Timeouts
  are not: `DeadlineExceeded` ends the retry loop as a stop would
  (`workshop.go:101`, `modlist.go:93`). `DialTimesOut` and `CallFailsForGood` of
  `FanOut` model it.
* A restart sets the stage `idle` also when a sync is pending
  (`controller.go:86`); `StagesMatchFlags` therefore says nothing of
  `needs_mod_update` for `idle`.
* `private_key` is accepted by the configuration and the modlist poll; the sync
  engine knows only passwords (`engine.go:421`), and the error discards every
  server's sync. `RefuseServer` models it for the servers of `KeyAuth`.

## 5. What is proved

For every value of the constants that satisfies the named assumptions:

| Module | Theorem | States |
|---|---|---|
| `UpdaterProofs` | `TypeCorrect`, `TypeOKAlways` | `Spec => []TypeInv`, `Spec => []TypeOK` |
| `UpdaterSyncProofs` | `IndInvAlways`, `SyncedModsAreWholeAlways`, `LocalCopiesAreHonestAlways` | `[]` of each, if `FoldersAreStable` |
| `UpdaterStageProofs` | `StagesMatchFlagsAlways`, `NoEarlyRestartAlways` | without further hypothesis |
| | `RolloutIsImplemented`, `NoUnseenChangeAlways` | without further hypothesis; `Spec => Ledger!Spec`: the refinement |
| | `NoServerLeftBehindAlways`, `CountdownMeansSyncedAlways` | if `~Graceful` |
| | `QuietServersRunTheirModsAlways` | if `FoldersAreStable` and `~Graceful` |
| `StateStoreProofs` | `StoreInvAlways`, `LeftoversHaveACauseAlways` | any number of goroutines, updates, crashes, failures |
| | `StoreIsAtomic` | `Spec => Promise!Spec`: the refinement |
| `SftpSyncProofs` | `SyncInvAlways`, `SuccessMeansMirroredAlways`, `NoHalfFileInPlaceAlways`, `OrderIsAcceptedAlways`, `ListedEntriesStayAlways` | any tree of paths |
| `RconCountdownProofs` | `CountdownInvAlways`, `MinutesAreCeilingAlways`, `NoEarlierThanSaidAlways`, `AnnouncementsArePacedAlways`, `PlayersStayWarnedAlways` | any minute, grace and distance |
| `FanOutProofs` | `FanOutInvAlways`, `SlotsHoldAlways`, `AnswerIsWholeAlways`, `OnlyLateDialsStayOpenAlways` | any finite set of jobs, tries, slots |
| `LegacyServiceProofs` | `LegacyInvAlways`, `UpToDateIsWholeAlways` | any set of mods, any number of publications |

Assumptions (`ASSUME` in the modules): mods are natural numbers (so that a batch
has an order), folder markers are distinct from contents, lists name folders of
`Slugs`, no two mods share a folder, the empty hash is the hash of no list, the
times of the configuration are positive (its validation sees to that), paths are
sequences with their parents and temp names are new.

Two hypotheses are not assumptions, because the code does not ensure them:
`FoldersAreStable` (a mod has the same folder name in every list; the run
`rename` shows what happens without it) and `~Graceful` (no signal while a sync
is running; the run `cut` shows what happens with one).

The arguments:

* **Types.** `TypeOK` alone is not inductive: writing to `local[Folder(m)]` keeps
  the type of `local` only if `m` has a folder. `TypeInv` adds that listed mods
  and mods of the batch are named, and that the copy an Update works on has the
  same lists as the disk — only a modlist poll changes lists.
* **Names.** `NamesComeFromLists`: a folder name comes from some list; with
  stable folders no step ever renames (`NamesStep`), and with distinct ones two
  mods never share a folder (`FolderOfOneMod`).
* **The copy.** `CopyOfServers`: outside the SFTP phase and the RCON tick the
  copy is the disk, and inside them it is, for every server whose goroutine has
  not begun. This is what lets `DialServer` conclude from its copy what the disk
  says.
* **Downloads.** `LocalInv`: a folder holds a copy of the mod it belongs to that
  is as new as its label (`LocalFoldersFit`), also the one parked as backup
  (`SwapFits`). A swap may lose a folder because its mod is due anyway
  (`BatchIsDue`), so nobody relies on it.
* **Syncs.** `RemoteInv`: labels only grow and `synced_mods` never runs ahead of
  them (`SyncedNotAhead`), so a new label makes all entries stale at once.
  `JobsAreStale` is the heart: a folder is only touched while disk *and* copy
  know the mod to be stale. That is why discarding the copy (`EndSync` with an
  error), crashing, or saving it are all harmless.
* **Stages.** `StageInv` holds of the disk and of every record of the copy that
  may still be saved (`MayBeSaved`): a record in stage `syncing` or `error`
  belongs to a goroutine that is at work or has failed, and either keeps the
  phase from being saved.
* **Restarts.** `TickInv`: a server whose turn in a tick is to come is in the
  copy as on disk, and the tick's `now` is not after the clock; so the deadline
  the tick saw is the saved one, and reached.
* **Marks.** `HashInv`: a server never polled has no list and nothing synced, and
  one whose list keeps its hash keeps its list, so a poll that does not mark
  changes nothing. `MarkInv`: a goroutine that is at work has a goroutine per
  mod that was not synced when it dialed (`BusyServersSync`), and without
  graceful stops none of those is skipped (`NothingSkipped`): at the join either
  all are synced or the server failed. That gives `NoServerLeftBehind` and
  `CountdownMeansSynced`.
* **Restarts, end to end.** `QuietInv`: at the end of a countdown the server is
  either marked again or loads folders that are whole by `SyncedModsAreWhole`,
  and from then on only a sync, which marks first, changes them.
* **Rollout.** `RolloutInv` says what a save may write: in a round, an entry of the
  copy that differs from the disk's is the local label and belongs to a server
  whose goroutine has begun (`SyncedOrSame`); in a tick, a server that no longer
  owes a restart has loaded its folders (`RestartedOrSame`). With it and the
  invariants above, `EndSync` is a `SyncRound`, `EndRCONTick` a `RecordRestarts`,
  and each other step one of `Rollout`'s or a stutter. `NoUnseenChange` needs no
  more than `Rollout` itself: each of its steps keeps it.
* **The store.** `CopiesAreFresh`: the state a caller works on is the one on
  disk, or that with its own change added. `MutexHeldByOne` gives it inside one
  call and `RolesHold` between the two halves of a flush, as all pollers have
  returned. So the rename is exactly `Apply`, every other step of an update a
  stutter or `Ask` / `ReportDone` / `ReportFailed`, and a flush writes what is
  there.
* **Files.** `PlanCoversTheRest`: whatever the plan of the run does not mention
  (any more) is as in the local folder. It holds of a new plan because an mtime
  that is not the server's own tells the truth (`MtimesAreHonest`), every
  operation keeps it, and an empty plan then means an exact copy. What earlier
  runs left does not matter.
* **Files, in order.** `OrderInv`: the remote folder is a tree, and what the plan
  still deletes is there as it was listed. So a directory at the deepest level of
  what is left to delete has no entries, a directory or file whose parent is
  missing has one that comes first, and nothing is refused for its place
  (`OrderIsAccepted`). Deletions never name a path of the local folder but those
  of the wrong kind, so what both sides list stays (`ListedEntriesStay`).
* **Countdown.** `CountdownIsComplete`: the deadline on record keeps what was told
  (`KeepsPromises`: `restartAfter - late < deadline` for every message) and is at
  most a grace period away, so everything told is kept by any deadline a sync can
  compute from now on. `SyncHasCountdown` says the same of a deadline that is
  computed and not saved yet: no tick runs in between and tells anything new.
  `TickOwnsRecord` lets a tick that comes late go by the record of its beginning.
* **Fan-out.** `FanOutInv` speaks of one job at a time: an ended job leaves an
  answer, an error, or has heard a stop; an open connection belongs to an
  attempt that was begun. `SlotsHold` counts by `FS_AddElement` and its like.
* **Legacy.** `RecordIsBehind`: a folder that is not whole has a record older
  than what is published, because the record is only written with the last
  folder of the plan finished.

Only model-checked: liveness everywhere and whatever needs ENABLED (out of the
prover's reach), and the violations.

## 6. What is not modelled, and why

* *Configuration* is read once and only validated; what the rest of the code
  relies on appears as the ASSUMEs of the modules.
* *Logging*, the placeholder packages (`localmods`, `syncer`, `util`) and the
  stand-ins under `third_party` keep no state of the system. What the code sees
  of SSH, SFTP, RCON, SteamCMD and the Web API is in the modules that call them.
* *Text*: the HTML of a modlist, JSON, the characters of a slug, message texts.
  Two names with one slug (`modlist.go:265`) are excluded by
  `FoldersAreDistinct`; the code does not exclude them.
* *The daemon's answers without a time* (`workshop.go:248`): `LegacyService` has
  them, for the same conversion in `steam/client.go`; `Updater` has answers that
  are missing. `last_workshop_check_at` only decides which ids are asked for, and
  `WorkshopPoll(found)` allows every subset.
* *The first poll of a server* marks nothing (`modlist.go:285`); the properties
  are stated so as to claim nothing for mods never synced.
* *A hanging SFTP call* (`engine.go:168`, `:446`) stops the daemon for good: so it
  does in `StateStore` and `FanOut`. In `Updater` and `SftpSync` every operation
  ends, well or badly.
* *Loss of power*: `SaveAtomic` does not sync the file it renames. A crash is one
  of the process.
* *Same size and same mtime with other content*: the plan compares nothing else,
  and the model's downloads always differ in mtime.
