------------------------------ MODULE Updater ------------------------------
(***************************************************************************)
(* The dayzmods daemon: one goroutine selects among the tickers and runs   *)
(* the chosen handler to its end; a handler changes state.json only        *)
(* through store.Update (load, change a copy, save by rename).  Steps that *)
(* the outside world can see, or that a crash can come between, are steps  *)
(* of their own: each polled modlist, each SteamCMD item and its folder    *)
(* swap, each goroutine of the SFTP phase, each server of an RCON tick,    *)
(* and the save that ends a handler.                                       *)
(*                                                                         *)
(* mods and servers are state.json on disk.  st is the copy of the servers *)
(* a long Update (SFTP phase, RCON tick) works on; between Updates it      *)
(* equals servers.                                                         *)
(***************************************************************************)
EXTENDS UpdaterState, FiniteSets

CONSTANTS
    Modlists,       \* what a poll can read: functions from mod ids to folders
    Missing,        \* a folder that does not exist
    Mixed,          \* a remote folder an unfinished sync has left behind
    KeyAuth,        \* servers with sftp.auth.type = "private_key"
    ServersAtOnce,  \* concurrency.sftp_sync_parallelism_servers
    ModsAtOnce,     \* concurrency.sftp_sync_parallelism_mods_per_server
    Graceful,       \* whether SIGTERM / SIGINT is part of the behaviour
    FullAnswers,    \* whether the Web API answers for every id it is asked
    LastPublish,    \* bound: no mod author publishes after this time
    MaxNow          \* bound: where the clock stops

Content == [mod : Mods, version : Nat]

ASSUME ModlistsNameFolders ==
    \A list \in Modlists : /\ DOMAIN list \subseteq Mods
                           /\ \A m \in DOMAIN list : list[m] \in Slugs
\* No two mods of the installation slugify to one folder name.
ASSUME FoldersAreDistinct ==
    \A a, b \in Modlists : \A m \in DOMAIN a, n \in DOMAIN b :
        a[m] = b[n] => m = n
ASSUME FolderMarkers == /\ Missing # Mixed
                        /\ Missing \notin Content
                        /\ Mixed \notin Content
ASSUME KeyAuthServers == KeyAuth \subseteq Servers
ASSUME ParallelismIsPositive == /\ ServersAtOnce \in Nat \ {0}
                                /\ ModsAtOnce \in Nat \ {0}
ASSUME ModesAndBounds == /\ Graceful \in BOOLEAN
                         /\ FullAnswers \in BOOLEAN
                         /\ LastPublish \in Nat
                         /\ MaxNow \in Nat

VARIABLES
    \* the program
    phase,      \* which handler the select loop is in
    ctxDone,    \* ctx is cancelled
    mods,       \* state.json: State.Mods
    servers,    \* state.json: State.Servers
    st,         \* the servers of the Update in progress
    todo,       \* servers the modlist poll or the RCON tick still has to visit
    tickNow,    \* the now an RCON tick was started with
    batch,      \* modsToUpdate still to be downloaded
    staged,     \* version of the copy in cache/staging
    backup,     \* the old folder while MirrorWorkshopContent swaps
    job,        \* per server: its goroutine in SyncServers
    modJob,     \* per server and mod: its goroutine in syncServer
    \* the world
    now,
    published,  \* version (publication time) of each mod on the Workshop
    calm,       \* from here on no operation fails and nothing crashes
    local,      \* local_mods_root: folder -> content
    remote,     \* per server, remote_mods_root: folder -> content
    loaded      \* per server, remote as it was when the game last started

disk     == <<mods, servers>>
steamcmd == <<batch, staged, backup>>
jobs     == <<job, modJob>>
env      == <<now, published, calm>>
vars == <<phase, ctxDone, mods, servers, st, todo, tickNow, batch, staged,
          backup, job, modJob, now, published, calm, local, remote, loaded>>

Phases == {"select", "modlist", "steam", "swap", "mirrored", "sync", "rcon",
           "stopped"}
JobStates == {"none", "queued", "busy", "done", "failed"}
ModJobStates == {"none", "queued", "busy", "synced", "failed", "skipped"}

NoJobs    == [s \in Servers |-> "none"]
NoModJobs == [s \in Servers |-> [m \in Mods |-> "none"]]
Empty     == [f \in Slugs |-> Missing]

\* Every variable holds what the code can put there; the stages are those of
\* state.Stage (store.go:12-22).
TypeOK ==
    /\ phase \in Phases
    /\ ctxDone \in BOOLEAN
    /\ mods \in [Mods -> ModState]
    /\ servers \in [Servers -> ServerState]
    /\ st \in [Servers -> ServerState]
    /\ todo \subseteq Servers
    /\ tickNow \in Nat
    /\ batch \subseteq Mods
    /\ staged \in Nat
    /\ backup \in Content \cup {Missing}
    /\ job \in [Servers -> JobStates]
    /\ modJob \in [Servers -> [Mods -> ModJobStates]]
    /\ now \in Nat \ {0}
    /\ published \in [Mods -> Nat \ {0}]
    /\ calm \in BOOLEAN
    /\ local \in [Slugs -> Content \cup {Missing}]
    /\ remote \in [Servers -> [Slugs -> Content \cup {Missing, Mixed}]]
    /\ loaded \in [Servers -> [Slugs -> Content \cup {Missing, Mixed}]]

Init ==
    /\ phase = "select"
    /\ ctxDone = FALSE
    /\ mods = [m \in Mods |-> ZeroMod]
    /\ servers = [s \in Servers |-> ZeroServer]
    /\ st = servers
    /\ todo = {}
    /\ tickNow = 0
    /\ batch = {}
    /\ staged = 0
    /\ backup = Missing
    /\ job = NoJobs
    /\ modJob = NoModJobs
    /\ now = 1
    /\ published = [m \in Mods |-> 1]
    /\ calm = FALSE
    /\ local = Empty
    /\ remote = [s \in Servers |-> Empty]
    /\ loaded = [s \in Servers |-> Empty]

Folder(m) == mods[m].folderSlug

Fault == ~calm

-----------------------------------------------------------------------------
(* runModlistPoll: a goroutine per server; each applies what it fetched in *)
(* an Update of its own, and wg.Wait joins them.                           *)

BeginModlistPoll ==
    /\ phase = "select"
    /\ phase' = "modlist"
    /\ todo' = Servers
    /\ UNCHANGED <<ctxDone, disk, st, tickNow, steamcmd, jobs, env, local,
                   remote, loaded>>

PollServer(s) ==
    /\ phase = "modlist"
    /\ s \in todo
    /\ \E list \in Modlists :
          /\ servers' = [servers EXCEPT ![s] = ApplyPollResult(@, list)]
          /\ mods' = NameMods(mods, list)
    /\ st' = servers'
    /\ todo' = todo \ {s}
    /\ UNCHANGED <<phase, ctxDone, tickNow, steamcmd, jobs, env, local,
                   remote, loaded>>

\* ctx done while waiting for a slot, a fetch that fails in every attempt or
\* times out, or a failed Update.
PollServerFails(s) ==
    /\ phase = "modlist"
    /\ s \in todo
    /\ Fault \/ ctxDone
    /\ todo' = todo \ {s}
    /\ UNCHANGED <<phase, ctxDone, disk, st, tickNow, steamcmd, jobs, env,
                   local, remote, loaded>>

EndModlistPoll ==
    /\ phase = "modlist"
    /\ todo = {}
    /\ phase' = "select"
    /\ UNCHANGED <<ctxDone, disk, st, todo, tickNow, steamcmd, jobs, env,
                   local, remote, loaded>>

-----------------------------------------------------------------------------
(* runWorkshopPoll.  found are the ids that were due, were asked for and   *)
(* came back (an id that was never checked is always due); an empty result *)
(* ends the handler before the SFTP phase.  A poll that fails, because one *)
(* of the batches of fetchBatched did or because ctx is done, leaves       *)
(* everything as it was, so it is not a step.                              *)

WorkshopPoll(found) ==
    /\ phase = "select"
    /\ found \subseteq CandidateModIDs(servers)
    /\ ctxDone => found = {}
    /\ mods' = [m \in Mods |-> IF m \in found
                               THEN CheckedMod(mods[m], published[m])
                               ELSE mods[m]]
    /\ FullAnswers => \A m \in CandidateModIDs(servers) :
                          mods'[m].workshopUpdatedAt # 0
    /\ batch' = {m \in CandidateModIDs(servers) : NeedsLocalUpdate(mods'[m])}
    /\ phase' = IF batch' = {} THEN "select" ELSE "steam"
    /\ UNCHANGED <<ctxDone, servers, st, todo, tickNow, staged, backup, jobs,
                   env, local, remote, loaded>>

-----------------------------------------------------------------------------
(* runSteamCMDBatch and steamcmd.UpdateMods: one Update per mod, in sorted *)
(* order; the first error ends the batch and with it the whole handler.    *)

NextInBatch(m) == /\ m \in batch
                  /\ \A n \in batch : m <= n

EndBatchWithError ==
    /\ phase' = "select"
    /\ batch' = {}
    /\ staged' = 0
    /\ backup' = Missing

\* SteamCMD fails in every attempt, or MirrorWorkshopContent fails before it
\* has moved the folder in use.
SteamCMDFails ==
    /\ phase = "steam"
    /\ batch # {}
    /\ Fault \/ ctxDone
    /\ EndBatchWithError
    /\ UNCHANGED <<ctxDone, disk, st, todo, tickNow, jobs, env, local, remote,
                   loaded>>

\* Mutant: local_updated_at is written without the success marker.
NothingDownloadedYetLabelled(m) ==
    /\ phase = "steam"
    /\ NextInBatch(m)
    /\ Fault
    /\ batch' = batch \ {m}
    /\ mods' = [mods EXCEPT ![m] = DownloadedMod(@, now)]
    /\ UNCHANGED <<phase, ctxDone, servers, st, todo, tickNow, staged, backup,
                   jobs, env, local, remote, loaded>>

\* SteamCMD exits 0 without the success marker, or without the folder.
NothingDownloaded(m) ==
    /\ phase = "steam"
    /\ NextInBatch(m)
    /\ Fault
    /\ batch' = batch \ {m}
    /\ UNCHANGED <<phase, ctxDone, disk, st, todo, tickNow, staged, backup,
                   jobs, env, local, remote, loaded>>

\* The newest version is downloaded and copied to the staging folder, and
\* the folder in use is renamed away.
MirrorBackup(m) ==
    /\ phase = "steam"
    /\ NextInBatch(m)
    /\ phase' = "swap"
    /\ staged' = published[m]
    /\ backup' = local[Folder(m)]
    /\ local' = [local EXCEPT ![Folder(m)] = Missing]
    /\ UNCHANGED <<ctxDone, disk, st, todo, tickNow, batch, jobs, env, remote,
                   loaded>>

MirrorSwap(m) ==
    /\ phase = "swap"
    /\ NextInBatch(m)
    /\ phase' = "mirrored"
    /\ local' = [local EXCEPT ![Folder(m)] = [mod |-> m, version |-> staged]]
    /\ UNCHANGED <<ctxDone, disk, st, todo, tickNow, steamcmd, jobs, env,
                   remote, loaded>>

\* Mutant: the error of the swap is not looked at.
MirrorSwapErrorIgnored(m) ==
    /\ phase = "swap"
    /\ NextInBatch(m)
    /\ Fault
    /\ phase' = "mirrored"
    /\ UNCHANGED <<ctxDone, disk, st, todo, tickNow, steamcmd, jobs, env, local,
                   remote, loaded>>

\* The error of the rename that puts the backup back is not looked at.
MirrorSwapFails(m) ==
    /\ phase = "swap"
    /\ NextInBatch(m)
    /\ Fault
    /\ \E left \in {backup, Missing} :
          local' = [local EXCEPT ![Folder(m)] = left]
    /\ EndBatchWithError
    /\ UNCHANGED <<ctxDone, disk, st, todo, tickNow, jobs, env, remote, loaded>>

SaveDownloadedMod(m) ==
    /\ phase = "mirrored"
    /\ NextInBatch(m)
    /\ mods' = [mods EXCEPT ![m] = DownloadedMod(@, now)]
    /\ servers' = MarkServersUsingModForPlanning(servers, m)
    /\ st' = servers'
    /\ batch' = batch \ {m}
    /\ staged' = 0
    /\ backup' = Missing
    /\ phase' = "steam"
    /\ UNCHANGED <<ctxDone, todo, tickNow, jobs, env, local, remote, loaded>>

SaveDownloadedModFails ==
    /\ phase = "mirrored"
    /\ Fault
    /\ EndBatchWithError
    /\ UNCHANGED <<ctxDone, disk, st, todo, tickNow, jobs, env, local, remote,
                   loaded>>

-----------------------------------------------------------------------------
(* runSFTPSyncPhase: the whole of SyncServers is one Update.               *)

BeginSync ==
    /\ phase = "steam"
    /\ batch = {}
    /\ phase' = "sync"
    /\ job' = [s \in Servers |-> IF servers[s].needsModUpdate
                                 THEN "queued" ELSE "none"]
    /\ UNCHANGED <<ctxDone, disk, st, todo, tickNow, steamcmd, modJob, env,
                   local, remote, loaded>>

ServerSlotFree == Cardinality({s \in Servers : job[s] = "busy"}) < ServersAtOnce

EndServer(s, result, srv) ==
    /\ job' = [job EXCEPT ![s] = result]
    /\ st' = [st EXCEPT ![s] = srv]

\* The goroutine sees ctx.Done before it gets a slot, and just returns.
SkipServer(s) ==
    /\ phase = "sync"
    /\ job[s] = "queued"
    /\ ctxDone
    /\ job' = [job EXCEPT ![s] = "done"]
    /\ UNCHANGED <<phase, ctxDone, disk, st, todo, tickNow, steamcmd, modJob,
                   env, local, remote, loaded>>

\* A listed mod that was never downloaded is an error before any connection.
RefuseServer(s) ==
    /\ phase = "sync"
    /\ job[s] = "queued"
    /\ ServerSlotFree
    /\ NeverDownloaded(st[s], mods) # {}
    /\ EndServer(s, "failed", SyncError(st[s]))
    /\ UNCHANGED <<phase, ctxDone, disk, todo, tickNow, steamcmd, modJob, env,
                   local, remote, loaded>>

NothingToSync(s) ==
    /\ phase = "sync"
    /\ job[s] = "queued"
    /\ ServerSlotFree
    /\ NeverDownloaded(st[s], mods) = {}
    /\ ModsToSync(st[s], mods) = {}
    /\ EndServer(s, "done", StartCountdown(st[s], now))
    /\ UNCHANGED <<phase, ctxDone, disk, todo, tickNow, steamcmd, modJob, env,
                   local, remote, loaded>>

\* dialSFTP gives up after its retries; it knows no way to authenticate but
\* a password.
DialServerFails(s) ==
    /\ phase = "sync"
    /\ job[s] = "queued"
    /\ ServerSlotFree
    /\ Fault \/ ctxDone \/ s \in KeyAuth
    /\ NeverDownloaded(st[s], mods) = {}
    /\ ModsToSync(st[s], mods) # {}
    /\ EndServer(s, "failed", SyncError(st[s]))
    /\ UNCHANGED <<phase, ctxDone, disk, todo, tickNow, steamcmd, modJob, env,
                   local, remote, loaded>>

\* A connection that wins the select against a ctx cancelled before is as
\* good as a cancellation right after.
DialServer(s) ==
    /\ phase = "sync"
    /\ job[s] = "queued"
    /\ ServerSlotFree
    /\ ~ctxDone
    /\ s \notin KeyAuth
    /\ NeverDownloaded(st[s], mods) = {}
    /\ ModsToSync(st[s], mods) # {}
    /\ EndServer(s, "busy", [st[s] EXCEPT !.stage = "syncing"])
    /\ modJob' = [modJob EXCEPT ![s] =
                     [m \in Mods |-> IF m \in ModsToSync(st[s], mods)
                                     THEN "queued" ELSE "none"]]
    /\ UNCHANGED <<phase, ctxDone, disk, todo, tickNow, steamcmd, env, local,
                   remote, loaded>>

ModSlotFree(s) ==
    Cardinality({m \in Mods : modJob[s][m] = "busy"}) < ModsAtOnce

\* Mutant: synced_mods is written before the wait for a slot.
SkipModAsSynced(s, m) ==
    /\ phase = "sync"
    /\ modJob[s][m] = "queued"
    /\ ctxDone
    /\ modJob' = [modJob EXCEPT ![s][m] = "skipped"]
    /\ st' = [st EXCEPT ![s].syncedMods[m] = mods[m].localUpdatedAt]
    /\ UNCHANGED <<phase, ctxDone, disk, todo, tickNow, steamcmd, job, env,
                   local, remote, loaded>>

\* As SkipServer, for the goroutine of one mod: no error is recorded.
SkipMod(s, m) ==
    /\ phase = "sync"
    /\ modJob[s][m] = "queued"
    /\ ctxDone
    /\ modJob' = [modJob EXCEPT ![s][m] = "skipped"]
    /\ UNCHANGED <<phase, ctxDone, disk, st, todo, tickNow, steamcmd, job, env,
                   local, remote, loaded>>

\* syncMod has both trees and starts to change the remote folder.
StartMod(s, m) ==
    /\ phase = "sync"
    /\ modJob[s][m] = "queued"
    /\ ModSlotFree(s)
    /\ local[Folder(m)] # Missing
    /\ modJob' = [modJob EXCEPT ![s][m] = "busy"]
    /\ remote' = [remote EXCEPT ![s][Folder(m)] = Mixed]
    /\ UNCHANGED <<phase, ctxDone, disk, st, todo, tickNow, steamcmd, job, env,
                   local, loaded>>

\* buildLocalTree or buildRemoteTree fails; no local folder is an error.
StartModFails(s, m) ==
    /\ phase = "sync"
    /\ modJob[s][m] = "queued"
    /\ ModSlotFree(s)
    /\ Fault \/ ctxDone \/ local[Folder(m)] = Missing
    /\ modJob' = [modJob EXCEPT ![s][m] = "failed"]
    /\ UNCHANGED <<phase, ctxDone, disk, st, todo, tickNow, steamcmd, job, env,
                   local, remote, loaded>>

\* Mutant: the error of syncMod is not looked at.
SyncModErrorIgnored(s, m) ==
    /\ phase = "sync"
    /\ modJob[s][m] = "busy"
    /\ Fault \/ ctxDone
    /\ modJob' = [modJob EXCEPT ![s][m] = "synced"]
    /\ st' = [st EXCEPT ![s].syncedMods[m] = mods[m].localUpdatedAt]
    /\ UNCHANGED <<phase, ctxDone, disk, todo, tickNow, steamcmd, job, env,
                   local, remote, loaded>>

SyncModFails(s, m) ==
    /\ phase = "sync"
    /\ modJob[s][m] = "busy"
    /\ Fault \/ ctxDone
    /\ modJob' = [modJob EXCEPT ![s][m] = "failed"]
    /\ UNCHANGED <<phase, ctxDone, disk, st, todo, tickNow, steamcmd, job, env,
                   local, remote, loaded>>

\* Mutant: synced_mods takes the time of the Workshop, not the local one.
SyncModAsPublished(s, m) ==
    /\ phase = "sync"
    /\ modJob[s][m] = "busy"
    /\ modJob' = [modJob EXCEPT ![s][m] = "synced"]
    /\ remote' = [remote EXCEPT ![s][Folder(m)] = local[Folder(m)]]
    /\ st' = [st EXCEPT ![s].syncedMods[m] = mods[m].workshopUpdatedAt]
    /\ UNCHANGED <<phase, ctxDone, disk, todo, tickNow, steamcmd, job, env,
                   local, loaded>>

SyncMod(s, m) ==
    /\ phase = "sync"
    /\ modJob[s][m] = "busy"
    /\ modJob' = [modJob EXCEPT ![s][m] = "synced"]
    /\ remote' = [remote EXCEPT ![s][Folder(m)] = local[Folder(m)]]
    /\ st' = [st EXCEPT ![s].syncedMods[m] = mods[m].localUpdatedAt]
    /\ UNCHANGED <<phase, ctxDone, disk, todo, tickNow, steamcmd, job, env,
                   local, loaded>>

\* Mutant: a server fails only if every one of its mods does.
AllFailed(s) == \A m \in Mods : modJob[s][m] \in {"none", "failed"}

HadFailure(s) == \E m \in Mods : modJob[s][m] = "failed"

FinishServer(s) ==
    /\ phase = "sync"
    /\ job[s] = "busy"
    /\ \A m \in Mods : modJob[s][m] \notin {"queued", "busy"}
    /\ IF HadFailure(s)
       THEN EndServer(s, "failed", SyncError(st[s]))
       ELSE EndServer(s, "done", StartCountdown(st[s], now))
    /\ UNCHANGED <<phase, ctxDone, disk, todo, tickNow, steamcmd, modJob, env,
                   local, remote, loaded>>

AllServersJoined == \A s \in Servers : job[s] \notin {"queued", "busy"}

\* Mutant: an error does not discard the Update.
SyncResultDespiteErrors == st

\* What Update writes when fn returns: nothing if one server had an error.
SyncResult == IF \E s \in Servers : job[s] = "failed" THEN servers ELSE st

EndSync ==
    /\ phase = "sync"
    /\ AllServersJoined
    /\ servers' = SyncResult
    /\ st' = servers'
    /\ job' = NoJobs
    /\ modJob' = NoModJobs
    /\ phase' = "select"
    /\ UNCHANGED <<ctxDone, mods, todo, tickNow, steamcmd, env, local, remote,
                   loaded>>

SaveSyncFails ==
    /\ phase = "sync"
    /\ AllServersJoined
    /\ Fault
    /\ st' = servers
    /\ job' = NoJobs
    /\ modJob' = NoModJobs
    /\ phase' = "select"
    /\ UNCHANGED <<ctxDone, disk, todo, tickNow, steamcmd, env, local, remote,
                   loaded>>

-----------------------------------------------------------------------------
(* runRCONTick and Controller.Tick: one Update, one now for every server.  *)

\* Mutant: the tick goes by the stage, which a new plan overwrites.
BeginRCONTickByStage ==
    /\ phase = "select"
    /\ phase' = "rcon"
    /\ tickNow' = now
    /\ todo' = {s \in Servers : servers[s].stage = "countdown"}
    /\ UNCHANGED <<ctxDone, disk, st, steamcmd, jobs, env, local, remote,
                   loaded>>

BeginRCONTick ==
    /\ phase = "select"
    /\ phase' = "rcon"
    /\ tickNow' = now
    /\ todo' = {s \in Servers : servers[s].needsShutdown}
    /\ UNCHANGED <<ctxDone, disk, st, steamcmd, jobs, env, local, remote,
                   loaded>>

\* ctx is looked at before each server; one whose turn has come is dealt
\* with all the same.
StopRCONTick ==
    /\ phase = "rcon"
    /\ ctxDone
    /\ todo # {}
    /\ todo' = {}
    /\ UNCHANGED <<phase, ctxDone, disk, st, tickNow, steamcmd, jobs, env,
                   local, remote, loaded>>

\* Mutant: the error of #shutdown is not looked at.
LeaveServerUpYetDone(s) ==
    /\ phase = "rcon"
    /\ s \in todo
    /\ Fault \/ CountdownRunning(st[s], tickNow)
    /\ todo' = todo \ {s}
    /\ st' = [st EXCEPT ![s] = IF CountdownRunning(st[s], tickNow) THEN @
                               ELSE ShutdownSent(@)]
    /\ UNCHANGED <<phase, ctxDone, disk, tickNow, steamcmd, jobs, env, local,
                   remote, loaded>>

\* The countdown is still running, the dial fails, or #shutdown fails.
LeaveServerUp(s) ==
    /\ phase = "rcon"
    /\ s \in todo
    /\ Fault \/ CountdownRunning(st[s], tickNow)
    /\ todo' = todo \ {s}
    /\ UNCHANGED <<phase, ctxDone, disk, st, tickNow, steamcmd, jobs, env,
                   local, remote, loaded>>

\* The game server restarts with the mod folders it finds.
ShutDownServer(s) ==
    /\ phase = "rcon"
    /\ s \in todo
    /\ ~CountdownRunning(st[s], tickNow)
    /\ st' = [st EXCEPT ![s] = ShutdownSent(@)]
    /\ loaded' = [loaded EXCEPT ![s] = remote[s]]
    /\ todo' = todo \ {s}
    /\ UNCHANGED <<phase, ctxDone, disk, tickNow, steamcmd, jobs, env, local,
                   remote>>

\* #shutdown arrives and the answer does not, which reads as a failure: the
\* server restarts now, and once more at a later tick.
ShutDownReplyLost(s) ==
    /\ phase = "rcon"
    /\ s \in todo
    /\ Fault
    /\ ~CountdownRunning(st[s], tickNow)
    /\ loaded' = [loaded EXCEPT ![s] = remote[s]]
    /\ todo' = todo \ {s}
    /\ UNCHANGED <<phase, ctxDone, disk, st, tickNow, steamcmd, jobs, env, local,
                   remote>>

EndRCONTick ==
    /\ phase = "rcon"
    /\ todo = {}
    /\ servers' = st
    /\ tickNow' = 0
    /\ phase' = "select"
    /\ UNCHANGED <<ctxDone, mods, st, todo, steamcmd, jobs, env, local, remote,
                   loaded>>

SaveRCONTickFails ==
    /\ phase = "rcon"
    /\ todo = {}
    /\ Fault
    /\ st' = servers
    /\ tickNow' = 0
    /\ phase' = "select"
    /\ UNCHANGED <<ctxDone, disk, todo, steamcmd, jobs, env, local, remote,
                   loaded>>

-----------------------------------------------------------------------------
(* Life cycle.  flushState loads and saves the same state between two      *)
(* handlers, so here it changes nothing (StateStore opens it up).          *)

Signal ==
    /\ Graceful
    /\ phase # "stopped"
    /\ ~ctxDone
    /\ ctxDone' = TRUE
    /\ UNCHANGED <<phase, disk, st, todo, tickNow, steamcmd, jobs, env, local,
                   remote, loaded>>

Stop ==
    /\ phase = "select"
    /\ ctxDone
    /\ phase' = "stopped"
    /\ UNCHANGED <<ctxDone, disk, st, todo, tickNow, steamcmd, jobs, env,
                   local, remote, loaded>>

\* New and Run: nothing but state.json and the folders is remembered.
Boot ==
    /\ phase' = "select"
    /\ ctxDone' = FALSE
    /\ st' = servers
    /\ todo' = {}
    /\ tickNow' = 0
    /\ batch' = {}
    /\ staged' = 0
    /\ backup' = Missing
    /\ job' = NoJobs
    /\ modJob' = NoModJobs
    /\ UNCHANGED <<disk, env, local, remote, loaded>>

Start == phase = "stopped" /\ Boot

\* The process dies anywhere and the service manager starts it again.  The
\* unlocked read of st.Servers in SyncServers, which races with the locked
\* write of a finished goroutine, can also end the process: "concurrent map
\* read and map write" is fatal.
Crash == phase # "stopped" /\ Fault /\ Boot

-----------------------------------------------------------------------------
(* The world                                                               *)

TickClock ==
    /\ now < MaxNow
    /\ now' = now + 1
    /\ UNCHANGED <<phase, ctxDone, disk, st, todo, tickNow, steamcmd, jobs,
                   published, calm, local, remote, loaded>>

PublishMod(m) ==
    /\ published[m] < now
    /\ now <= LastPublish
    /\ published' = [published EXCEPT ![m] = now]
    /\ UNCHANGED <<phase, ctxDone, disk, st, todo, tickNow, steamcmd, jobs,
                   now, calm, local, remote, loaded>>

CalmDown ==
    /\ ~calm
    /\ calm' = TRUE
    /\ UNCHANGED <<phase, ctxDone, disk, st, todo, tickNow, steamcmd, jobs,
                   now, published, local, remote, loaded>>

-----------------------------------------------------------------------------
ModlistStep == \/ BeginModlistPoll
               \/ \E s \in Servers : PollServer(s) \/ PollServerFails(s)
               \/ EndModlistPoll

SteamStep == \/ SteamCMDFails
             \/ SaveDownloadedModFails
             \/ \E m \in Mods : \/ NothingDownloaded(m)
                                \/ MirrorBackup(m)
                                \/ MirrorSwap(m)
                                \/ MirrorSwapFails(m)
                                \/ SaveDownloadedMod(m)

SyncStep == \/ BeginSync
            \/ \E s \in Servers : \/ SkipServer(s)
                                  \/ RefuseServer(s)
                                  \/ NothingToSync(s)
                                  \/ DialServerFails(s)
                                  \/ DialServer(s)
                                  \/ FinishServer(s)
            \/ \E s \in Servers, m \in Mods : \/ SkipMod(s, m)
                                              \/ StartMod(s, m)
                                              \/ StartModFails(s, m)
                                              \/ SyncModFails(s, m)
                                              \/ SyncMod(s, m)
            \/ EndSync
            \/ SaveSyncFails

RCONStep == \/ BeginRCONTick
            \/ StopRCONTick
            \/ \E s \in Servers : \/ LeaveServerUp(s)
                                  \/ ShutDownServer(s)
                                  \/ ShutDownReplyLost(s)
            \/ EndRCONTick
            \/ SaveRCONTickFails

LifeStep == Signal \/ Stop \/ Start \/ Crash

Next == \/ ModlistStep
        \/ \E found \in SUBSET Mods : WorkshopPoll(found)
        \/ SteamStep
        \/ SyncStep
        \/ RCONStep
        \/ LifeStep
        \/ TickClock
        \/ \E m \in Mods : PublishMod(m)
        \/ CalmDown

Spec == Init /\ [][Next]_vars
=============================================================================
