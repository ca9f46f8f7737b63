-------------------------- MODULE UpdaterInvariant --------------------------
(***************************************************************************)
(* The inductive invariants behind the safety properties, in named parts.  *)
(* Each part is about what one handler leaves for another to rely on.      *)
(***************************************************************************)
EXTENDS UpdaterProperties

\* The display names, and so the folders, of mods never change.
FoldersAreStable ==
    \A a, b \in Modlists : \A m \in DOMAIN a \cap DOMAIN b : a[m] = b[m]

Named(m) == Folder(m) # NoSlug

-----------------------------------------------------------------------------
(* Types and names                                                         *)

\* The poll that lists a mod also names it, so whatever later handlers do
\* with a listed mod has a folder to do it in.
ListedModsAreNamed ==
    \A s \in Servers : \A m \in servers[s].lastModIDs : Named(m)

BatchIsNamed == \A m \in batch : Named(m)

\* No Update but a modlist poll's changes the list of a server.
CopyHasSameLists ==
    \A s \in Servers : st[s].lastModIDs = servers[s].lastModIDs

\* TypeOK with what it takes to be inductive: folders are written under names
\* (steamcmd.go:158, engine.go:166), so those names must exist.
TypeInv == TypeOK /\ ListedModsAreNamed /\ BatchIsNamed /\ CopyHasSameLists

NamesComeFromLists ==
    \A m \in Mods : Named(m) =>
        \E list \in Modlists : m \in DOMAIN list /\ list[m] = Folder(m)

-----------------------------------------------------------------------------
(* The copy an Update works on                                             *)

Downloading == phase \in {"steam", "swap", "mirrored"}

CopyOfServers ==
    /\ phase \notin {"sync", "rcon"} => st = servers
    /\ phase = "rcon" => \A s \in Servers :
                            st[s].syncedMods = servers[s].syncedMods
    /\ phase # "sync" => job = NoJobs /\ modJob = NoModJobs
    /\ phase = "sync" => \A s \in Servers :
                            job[s] \in {"none", "queued"} => st[s] = servers[s]
    /\ \A s \in Servers, m \in Mods :
          modJob[s][m] \in {"queued", "busy"} => job[s] = "busy"

-----------------------------------------------------------------------------
(* Downloads                                                               *)

BatchIsDue ==
    /\ batch # {} => Downloading
    /\ \A m \in batch : /\ NeedsLocalUpdate(mods[m])
                        /\ FullAnswers => mods[m].workshopUpdatedAt # 0

VersionsArePublished ==
    \A m \in Mods : mods[m].workshopUpdatedAt <= published[m]

LabelledModsAreNamed == \A m \in Mods : Label(m) # 0 => Named(m)

\* Content that may stand in the folder of the mod it is a copy of.
FitsFolder(c, f) ==
    c # Missing => /\ c \in Content
                   /\ Folder(c.mod) = f
                   /\ FullAnswers => c.version >= Label(c.mod)

LocalFoldersFit == \A f \in Slugs : FitsFolder(local[f], f)

SwapFits ==
    \A m \in batch : NextInBatch(m) =>
        /\ phase = "swap" =>
              /\ FitsFolder(backup, Folder(m))
              /\ FullAnswers => staged >= mods[m].workshopUpdatedAt
        /\ phase = "mirrored" =>
              local[Folder(m)] = [mod |-> m, version |-> staged]
        /\ phase = "mirrored" /\ FullAnswers =>
              staged >= mods[m].workshopUpdatedAt

UpToDateModsHaveFolders ==
    \A m \in Mods : ~NeedsLocalUpdate(mods[m]) => local[Folder(m)] # Missing

LocalInv == /\ BatchIsDue
            /\ VersionsArePublished
            /\ LabelledModsAreNamed
            /\ LocalFoldersFit
            /\ SwapFits
            /\ UpToDateModsHaveFolders

-----------------------------------------------------------------------------
(* Syncs                                                                   *)

\* synced_mods never runs ahead of local_updated_at, so a new label makes
\* every server's entry stale.
SyncedNotAhead ==
    \A s \in Servers, m \in Mods :
        /\ servers[s].syncedMods[m] <= Label(m)
        /\ st[s].syncedMods[m] <= Label(m)

\* SyncedModsAreWhole, for the copy as well.
SyncedIsWhole ==
    \A s \in Servers, m \in Mods :
        Label(m) # 0 /\ Label(m) \in {servers[s].syncedMods[m],
                                      st[s].syncedMods[m]}
            => Covers(remote[s][Folder(m)], m, Label(m))

\* Only folders of mods that both the disk and the copy know to be stale are
\* touched.
JobsAreStale ==
    \A s \in Servers, m \in Mods :
        modJob[s][m] \in {"queued", "busy"} =>
            /\ Label(m) \notin {0, servers[s].syncedMods[m],
                                st[s].syncedMods[m]}
            /\ modJob[s][m] = "busy" => local[Folder(m)] # Missing

RemoteInv == SyncedNotAhead /\ SyncedIsWhole /\ JobsAreStale

\* Why the records of state.json can be trusted after any failure: labels are
\* written after folders, entries of synced_mods after remote folders, and a
\* folder is only touched while its mod is known to be stale
\* (steamcmd.go:51-67, engine.go:120, 170-182, store.go:108).
IndInv == /\ TypeInv
          /\ NamesComeFromLists
          /\ CopyOfServers
          /\ LocalInv
          /\ RemoteInv

-----------------------------------------------------------------------------
(* Stages, marks and restarts                                              *)

\* Records of the copy that EndSync or EndRCONTick may write as they are: a
\* goroutine that is at work or has failed keeps the phase from being saved.
MayBeSaved(s) == job[s] \in {"none", "queued", "done"}

StageFits(srv) ==
    /\ srv.stage \in {"idle", "planning", "countdown"}
    /\ srv.stage = "planning" => srv.needsModUpdate
    /\ srv.stage = "idle" => ~srv.needsShutdown
    /\ srv.stage = "countdown" => srv.needsShutdown /\ ~srv.needsModUpdate
    /\ srv.needsShutdown => srv.shutdownDeadlineAt # 0

StageInv == \A s \in Servers : /\ StageFits(servers[s])
                               /\ MayBeSaved(s) => StageFits(st[s])

\* A server whose turn in the tick is still to come is as the disk says.
TickInv == phase = "rcon" => /\ tickNow <= now
                             /\ \A s \in todo : /\ servers[s].needsShutdown
                                                /\ st[s] = servers[s]

\* The hash is that of the list; before the first poll nothing has happened.
HashFits(srv) ==
    IF srv.lastModsetHash = NoHash
    THEN /\ srv.lastModIDs = {}
         /\ srv.stage = "idle"
         /\ ~srv.needsModUpdate
         /\ \A m \in Mods : srv.syncedMods[m] = 0
    ELSE srv.lastModsetHash = HashModset(srv.lastModIDs)

HashInv == \A s \in Servers : /\ HashFits(servers[s])
                              /\ HashFits(st[s])
                              /\ job[s] # "none" => st[s].lastModsetHash # NoHash

\* NoServerLeftBehind and CountdownMeansSynced of one record.
Marked(srv) ==
    \A m \in srv.lastModIDs :
        srv.syncedMods[m] \notin {0, Label(m)} => srv.needsModUpdate
CountsDown(srv) ==
    srv.stage = "countdown" =>
        \A m \in srv.lastModIDs : Label(m) # 0 /\ srv.syncedMods[m] = Label(m)

\* A goroutine at work has a goroutine for each mod that is not synced yet.
BusyServersSync ==
    \A s \in Servers : job[s] = "busy" =>
        \A m \in st[s].lastModIDs :
            /\ Label(m) # 0
            /\ modJob[s][m] \in {"none", "synced"} => st[s].syncedMods[m] = Label(m)

NothingSkipped == ~ctxDone /\ \A s \in Servers, m \in Mods : modJob[s][m] # "skipped"

\* Without graceful stops.
MarkInv == /\ NothingSkipped
           /\ BusyServersSync
           /\ \A s \in Servers :
                 /\ Marked(servers[s]) /\ CountsDown(servers[s])
                 /\ MayBeSaved(s) => Marked(st[s]) /\ CountsDown(st[s])

\* QuietServersRunTheirMods of one record.
RunsItsMods(s, srv) ==
    ~srv.needsModUpdate /\ ~srv.needsShutdown =>
        \A m \in srv.lastModIDs :
            srv.syncedMods[m] # 0 => Covers(loaded[s][Folder(m)], m, srv.syncedMods[m])

QuietInv == \A s \in Servers : /\ RunsItsMods(s, servers[s])
                               /\ MayBeSaved(s) => RunsItsMods(s, st[s])

-----------------------------------------------------------------------------
(* The rollout                                                             *)

\* What the SFTP phase has made of a record: it is as on disk, or it counts
\* down, and versions it records are local ones.
SyncedOrSame(s) ==
    /\ job[s] # "none" <=> servers[s].needsModUpdate
    /\ \A m \in Mods : st[s].syncedMods[m] \in {servers[s].syncedMods[m], Label(m)}
    /\ MayBeSaved(s) =>
          \/ st[s] = servers[s] /\ (job[s] = "done" => Graceful)
          \/ job[s] = "done" /\ ~st[s].needsModUpdate /\ st[s].needsShutdown

\* And an RCON tick: only a server that has restarted stops owing it.
RestartedOrSame(s) ==
    /\ st[s].needsModUpdate = servers[s].needsModUpdate
    /\ st[s].needsShutdown => servers[s].needsShutdown
    /\ servers[s].needsShutdown => st[s].needsShutdown \/ loaded[s] = remote[s]

RolloutInv ==
    \A s \in Servers : /\ st[s].lastModsetHash = servers[s].lastModsetHash
                       /\ phase = "sync" => SyncedOrSame(s)
                       /\ phase = "rcon" => RestartedOrSame(s)
=============================================================================
