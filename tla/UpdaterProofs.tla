--------------------------- MODULE UpdaterProofs ---------------------------
(***************************************************************************)
(* Proofs about Updater for every installation: any servers, mods, lists   *)
(* and bounds that the assumptions of UpdaterState and Updater allow.      *)
(***************************************************************************)
EXTENDS UpdaterInvariant, TLAPS

-----------------------------------------------------------------------------
(* What the handlers' functions return.                                    *)

\* The zero records are records of state.json.
LEMMA ZeroStateType == ZeroMod \in ModState /\ ZeroServer \in ServerState
  BY DEF ZeroMod, ZeroServer, ModState, ServerState, Stages

\* modlist.ApplyPollResult keeps the shape of a server and of a mod.
LEMMA PollType ==
  ASSUME NEW list \in Modlists, NEW srv \in ServerState,
         NEW ms \in [Mods -> ModState]
  PROVE  /\ ApplyPollResult(srv, list) \in ServerState
         /\ NameMods(ms, list) \in [Mods -> ModState]
<1>1. ApplyPollResult(srv, list) \in ServerState
  BY ModlistsNameFolders
     DEF ApplyPollResult, ModsetChanged, ServerState, Stages
<1>2. NameMods(ms, list) \in [Mods -> ModState]
  BY ModlistsNameFolders DEF NameMods, ModState
<1> QED BY <1>1, <1>2

\* workshop.PollMetadata keeps the shape of a mod.
LEMMA CheckType ==
  ASSUME NEW mod \in ModState, NEW t \in Nat
  PROVE  CheckedMod(mod, t) \in ModState
  BY DEF CheckedMod, ModState

\* steamcmd.UpdateMods keeps the shape of the mod and of the servers.
LEMMA DownloadType ==
  ASSUME NEW mod \in ModState, NEW t \in Nat, NEW m \in Mods,
         NEW ss \in [Servers -> ServerState]
  PROVE  /\ DownloadedMod(mod, t) \in ModState
         /\ MarkServersUsingModForPlanning(ss, m) \in [Servers -> ServerState]
<1>1. DownloadedMod(mod, t) \in ModState
  BY DEF DownloadedMod, ModState
<1>2. MarkServersUsingModForPlanning(ss, m) \in [Servers -> ServerState]
  BY DEF MarkServersUsingModForPlanning, ServerState, Stages
<1> QED BY <1>1, <1>2

\* So do the outcomes of a sync and of an RCON tick.
LEMMA OutcomeType ==
  ASSUME NEW srv \in ServerState, NEW t \in Nat
  PROVE  /\ StartCountdown(srv, t) \in ServerState
         /\ SyncError(srv) \in ServerState
         /\ ShutdownSent(srv) \in ServerState
         /\ [srv EXCEPT !.stage = "syncing"] \in ServerState
<1>1. StartCountdown(srv, t) \in ServerState
  <2>1. t + Grace \in Nat
    BY GraceIsPositive
  <2> QED BY <2>1 DEF StartCountdown, ServerState, Stages
<1>2. SyncError(srv) \in ServerState
  BY DEF SyncError, ServerState, Stages
<1>3. ShutdownSent(srv) \in ServerState
  BY DEF ShutdownSent, ServerState, Stages
<1>4. [srv EXCEPT !.stage = "syncing"] \in ServerState
  BY DEF ServerState, Stages
<1> QED BY <1>1, <1>2, <1>3, <1>4

\* They leave the list of the server as it is.
LEMMA OutcomeSameList ==
  ASSUME NEW srv \in ServerState, NEW t \in Nat
  PROVE  /\ StartCountdown(srv, t).lastModIDs = srv.lastModIDs
         /\ SyncError(srv).lastModIDs = srv.lastModIDs
         /\ ShutdownSent(srv).lastModIDs = srv.lastModIDs
         /\ [srv EXCEPT !.stage = "syncing"].lastModIDs = srv.lastModIDs
  BY DEF StartCountdown, SyncError, ShutdownSent, ServerState

\* A mod that is recorded as synced changes nothing else of its server.
LEMMA SyncedType ==
  ASSUME NEW srv \in ServerState, NEW t \in Nat, NEW m \in Mods
  PROVE  /\ [srv EXCEPT !.syncedMods[m] = t] \in ServerState
         /\ [srv EXCEPT !.syncedMods[m] = t].lastModIDs = srv.lastModIDs
<1>1. [srv EXCEPT !.syncedMods[m] = t] \in ServerState
  BY DEF ServerState
<1>2. [srv EXCEPT !.syncedMods[m] = t].lastModIDs = srv.lastModIDs
  BY DEF ServerState
<1> QED BY <1>1, <1>2

-----------------------------------------------------------------------------
(* Type correctness.  TypeOK needs to know that a mod in the batch has a   *)
(* folder, so TypeInv is what is inductive.                                *)

\* The first state is well typed.
LEMMA InitType == Init => TypeInv
<1> SUFFICES ASSUME Init PROVE TypeInv
  OBVIOUS
<1>1. TypeOK
  <2>1. /\ mods \in [Mods -> ModState]
        /\ servers \in [Servers -> ServerState]
        /\ st \in [Servers -> ServerState]
    BY ZeroStateType DEF Init
  <2>2. /\ job \in [Servers -> JobStates]
        /\ modJob \in [Servers -> [Mods -> ModJobStates]]
    BY DEF Init, NoJobs, NoModJobs, JobStates, ModJobStates
  <2>3. /\ local \in [Slugs -> Content \cup {Missing}]
        /\ remote \in [Servers -> [Slugs -> Content \cup {Missing, Mixed}]]
        /\ loaded \in [Servers -> [Slugs -> Content \cup {Missing, Mixed}]]
    BY DEF Init, Empty
  <2>4. /\ now \in Nat \ {0}
        /\ published \in [Mods -> Nat \ {0}]
    BY DEF Init
  <2>5. /\ phase \in Phases
        /\ ctxDone \in BOOLEAN /\ calm \in BOOLEAN
        /\ todo \subseteq Servers /\ batch \subseteq Mods
        /\ tickNow \in Nat /\ staged \in Nat
        /\ backup \in Content \cup {Missing}
    BY DEF Init, Phases
  <2> QED BY <2>1, <2>2, <2>3, <2>4, <2>5 DEF TypeOK
<1>2. ListedModsAreNamed /\ BatchIsNamed /\ CopyHasSameLists
  BY DEF Init, ListedModsAreNamed, BatchIsNamed, CopyHasSameLists, ZeroServer
<1> QED BY <1>1, <1>2 DEF TypeInv

\* Steps that change no record on disk and add nothing to the batch keep the
\* names.
LEMMA NamesKept ==
  ASSUME TypeInv, UNCHANGED disk, batch' \subseteq batch
  PROVE  ListedModsAreNamed' /\ BatchIsNamed'
  BY DEF TypeInv, ListedModsAreNamed, BatchIsNamed, Named, Folder, disk

\* Naming the mods of a list takes no name away.
LEMMA NamesGrow ==
  ASSUME NEW list \in Modlists, NEW ms \in [Mods -> ModState], NEW m \in Mods,
         m \in DOMAIN list \/ ms[m].folderSlug # NoSlug
  PROVE  NameMods(ms, list)[m].folderSlug # NoSlug
  BY ModlistsNameFolders, NoSlugIsNoFolder DEF NameMods, ModState

\* Every state a step of a modlist poll leads to.
LEMMA ModlistType == TypeInv /\ ModlistStep => TypeInv'
<1> SUFFICES ASSUME TypeInv, ModlistStep PROVE TypeInv'
  OBVIOUS
<1> USE DEF TypeInv, TypeOK, CopyHasSameLists, disk, steamcmd, jobs, env
<1>1. CASE BeginModlistPoll
  BY <1>1, NamesKept DEF BeginModlistPoll, Phases
<1>2. ASSUME NEW s \in Servers, PollServer(s) PROVE TypeInv'
  <2>1. PICK list \in Modlists :
           /\ servers' = [servers EXCEPT ![s] = ApplyPollResult(@, list)]
           /\ mods' = NameMods(mods, list)
    BY <1>2 DEF PollServer
  <2>2. ApplyPollResult(servers[s], list) \in ServerState
    BY PollType
  <2>3. mods' \in [Mods -> ModState]
    BY <2>1, PollType
  <2>4. servers' \in [Servers -> ServerState] /\ st' = servers'
    BY <1>2, <2>1, <2>2 DEF PollServer
  <2>5. \A m \in Mods : m \in DOMAIN list \/ Named(m) => Named(m)'
    BY <2>1, NamesGrow DEF Named, Folder
  <2>6. ApplyPollResult(servers[s], list).lastModIDs = DOMAIN list
    BY DEF ApplyPollResult, ServerState
  <2>7. ListedModsAreNamed'
    BY <2>1, <2>2, <2>4, <2>5, <2>6 DEF ListedModsAreNamed, ServerState
  <2>8. BatchIsNamed'
    BY <1>2, <2>5 DEF BatchIsNamed, PollServer
  <2> QED BY <1>2, <2>3, <2>4, <2>7, <2>8 DEF PollServer
<1>3. ASSUME NEW s \in Servers, PollServerFails(s) PROVE TypeInv'
  BY <1>3, NamesKept DEF PollServerFails
<1>4. CASE EndModlistPoll
  BY <1>4, NamesKept DEF EndModlistPoll, Phases
<1> QED BY <1>1, <1>2, <1>3, <1>4 DEF ModlistStep

\* Every state a workshop poll leads to.
LEMMA WorkshopType ==
  ASSUME TypeInv, NEW found \in SUBSET Mods, WorkshopPoll(found)
  PROVE  TypeInv'
<1> USE DEF TypeInv, TypeOK, CopyHasSameLists, disk, steamcmd, jobs, env
<1>1. \A m \in Mods : CheckedMod(mods[m], published[m]) \in ModState
  BY CheckType
<1>2. mods' \in [Mods -> ModState]
  BY <1>1 DEF WorkshopPoll
<1>3. batch' \subseteq CandidateModIDs(servers)
  BY DEF WorkshopPoll
<1>4. CandidateModIDs(servers) \subseteq Mods
  BY DEF CandidateModIDs, ServerState
<1>5. phase' \in Phases
  BY DEF WorkshopPoll, Phases
<1>6. \A m \in Mods : Named(m) => Named(m)'
  BY <1>1 DEF WorkshopPoll, Named, Folder, CheckedMod, ModState
<1>7. ListedModsAreNamed'
  BY <1>6 DEF ListedModsAreNamed, WorkshopPoll, ServerState
<1>8. \A m \in CandidateModIDs(servers) : Named(m)
  BY DEF CandidateModIDs, ListedModsAreNamed
<1>9. BatchIsNamed'
  BY <1>3, <1>4, <1>6, <1>8 DEF BatchIsNamed
<1> QED BY <1>2, <1>3, <1>4, <1>5, <1>7, <1>9 DEF WorkshopPoll

\* Every state a step of a SteamCMD batch leads to.
LEMMA SteamType == TypeInv /\ SteamStep => TypeInv'
<1> SUFFICES ASSUME TypeInv, SteamStep PROVE TypeInv'
  OBVIOUS
<1> USE DEF TypeInv, TypeOK, CopyHasSameLists, disk, steamcmd, jobs, env,
            EndBatchWithError, Phases
<1>1. CASE SteamCMDFails
  BY <1>1, NamesKept DEF SteamCMDFails
<1>2. CASE SaveDownloadedModFails
  BY <1>2, NamesKept DEF SaveDownloadedModFails
<1>3. ASSUME NEW m \in Mods, NothingDownloaded(m) PROVE TypeInv'
  BY <1>3, NamesKept DEF NothingDownloaded
<1>4. ASSUME NEW m \in Mods, MirrorBackup(m) PROVE TypeInv'
  <2>1. Folder(m) \in Slugs
    BY <1>4 DEF MirrorBackup, NextInBatch, BatchIsNamed, Named, Folder,
                ModState
  <2>2. local' \in [Slugs -> Content \cup {Missing}]
    BY <1>4 DEF MirrorBackup
  <2>3. backup' \in Content \cup {Missing}
    BY <1>4, <2>1 DEF MirrorBackup
  <2>4. ListedModsAreNamed' /\ BatchIsNamed'
    BY <1>4, NamesKept DEF MirrorBackup
  <2> QED BY <1>4, <2>2, <2>3, <2>4 DEF MirrorBackup
<1>5. ASSUME NEW m \in Mods, MirrorSwap(m) PROVE TypeInv'
  <2>1. [mod |-> m, version |-> staged] \in Content
    BY DEF Content
  <2>2. local' \in [Slugs -> Content \cup {Missing}]
    BY <1>5, <2>1 DEF MirrorSwap
  <2>3. ListedModsAreNamed' /\ BatchIsNamed'
    BY <1>5, NamesKept DEF MirrorSwap
  <2> QED BY <1>5, <2>2, <2>3 DEF MirrorSwap
<1>6. ASSUME NEW m \in Mods, MirrorSwapFails(m) PROVE TypeInv'
  <2>1. local' \in [Slugs -> Content \cup {Missing}]
    BY <1>6 DEF MirrorSwapFails
  <2>2. ListedModsAreNamed' /\ BatchIsNamed'
    BY <1>6, NamesKept DEF MirrorSwapFails
  <2> QED BY <1>6, <2>1, <2>2 DEF MirrorSwapFails
<1>7. ASSUME NEW m \in Mods, SaveDownloadedMod(m) PROVE TypeInv'
  <2>1. DownloadedMod(mods[m], now) \in ModState
    BY DownloadType
  <2>2. mods' \in [Mods -> ModState]
    BY <1>7, <2>1 DEF SaveDownloadedMod
  <2>3. servers' \in [Servers -> ServerState] /\ st' = servers'
    BY <1>7, DownloadType DEF SaveDownloadedMod
  <2>4. \A n \in Mods : Named(n)' = Named(n)
    BY <1>7, <2>1 DEF SaveDownloadedMod, Named, Folder, DownloadedMod, ModState
  <2>5. \A s \in Servers : servers'[s].lastModIDs = servers[s].lastModIDs
    <3>1. TAKE s \in Servers
    <3>2. servers[s] \in ServerState
      OBVIOUS
    <3>3. servers' = MarkServersUsingModForPlanning(servers, m)
      BY <1>7 DEF SaveDownloadedMod
    <3> QED BY <3>2, <3>3 DEF MarkServersUsingModForPlanning, ServerState
  <2>6. ListedModsAreNamed' /\ BatchIsNamed'
    BY <1>7, <2>4, <2>5
       DEF ListedModsAreNamed, BatchIsNamed, SaveDownloadedMod, ServerState
  <2> QED BY <1>7, <2>2, <2>3, <2>6 DEF SaveDownloadedMod
<1> QED BY <1>1, <1>2, <1>3, <1>4, <1>5, <1>6, <1>7 DEF SteamStep

\* The end of a server's sync is well typed.
LEMMA EndServerType ==
  ASSUME TypeInv, NEW s \in Servers, NEW result \in JobStates,
         NEW srv \in ServerState, srv.lastModIDs = servers[s].lastModIDs,
         EndServer(s, result, srv)
  PROVE  /\ job' \in [Servers -> JobStates]
         /\ st' \in [Servers -> ServerState]
         /\ \A r \in Servers : st'[r].lastModIDs = servers[r].lastModIDs
  BY DEF EndServer, TypeInv, TypeOK, CopyHasSameLists

\* Every state a step of the goroutine of one server leads to.
LEMMA SyncServerType ==
  ASSUME TypeInv, NEW s \in Servers,
         \/ SkipServer(s)
         \/ RefuseServer(s)
         \/ NothingToSync(s)
         \/ DialServerFails(s)
         \/ DialServer(s)
         \/ FinishServer(s)
  PROVE  TypeInv'
<1> USE DEF TypeInv, TypeOK, CopyHasSameLists, disk, steamcmd, env
<1>1. ListedModsAreNamed' /\ BatchIsNamed'
  BY NamesKept DEF SkipServer, RefuseServer, NothingToSync, DialServerFails,
                   DialServer, FinishServer
<1>2. /\ st[s] \in ServerState
      /\ st[s].lastModIDs = servers[s].lastModIDs
      /\ now \in Nat
  OBVIOUS
<1>3. /\ SyncError(st[s]) \in ServerState
      /\ SyncError(st[s]).lastModIDs = servers[s].lastModIDs
      /\ StartCountdown(st[s], now) \in ServerState
      /\ StartCountdown(st[s], now).lastModIDs = servers[s].lastModIDs
      /\ [st[s] EXCEPT !.stage = "syncing"] \in ServerState
      /\ [st[s] EXCEPT !.stage = "syncing"].lastModIDs = servers[s].lastModIDs
  BY <1>2, OutcomeType, OutcomeSameList
<1>4. {"done", "failed", "busy"} \subseteq JobStates
  BY DEF JobStates
<1>5. CASE SkipServer(s)
  BY <1>1, <1>4, <1>5 DEF SkipServer
<1>6. CASE RefuseServer(s)
  BY <1>1, <1>3, <1>4, <1>6, EndServerType DEF RefuseServer
<1>7. CASE NothingToSync(s)
  BY <1>1, <1>3, <1>4, <1>7, EndServerType DEF NothingToSync
<1>8. CASE DialServerFails(s)
  BY <1>1, <1>3, <1>4, <1>8, EndServerType DEF DialServerFails
<1>9. CASE DialServer(s)
  <2>1. modJob' \in [Servers -> [Mods -> ModJobStates]]
    BY <1>9 DEF DialServer, ModJobStates
  <2> QED BY <1>1, <1>3, <1>4, <1>9, <2>1, EndServerType DEF DialServer
<1>10. CASE FinishServer(s)
  BY <1>1, <1>3, <1>4, <1>10, EndServerType DEF FinishServer
<1> QED BY <1>5, <1>6, <1>7, <1>8, <1>9, <1>10

\* Every state a step of the goroutine of one mod leads to.
LEMMA SyncModType ==
  ASSUME TypeInv, NEW s \in Servers, NEW m \in Mods,
         \/ SkipMod(s, m)
         \/ StartMod(s, m)
         \/ StartModFails(s, m)
         \/ SyncModFails(s, m)
         \/ SyncMod(s, m)
  PROVE  TypeInv'
<1> USE DEF TypeInv, TypeOK, CopyHasSameLists, disk, steamcmd, env
<1>1. ListedModsAreNamed' /\ BatchIsNamed'
  BY NamesKept DEF SkipMod, StartMod, StartModFails, SyncModFails, SyncMod
<1>2. modJob' \in [Servers -> [Mods -> ModJobStates]]
  <2>1. \E x \in ModJobStates : modJob' = [modJob EXCEPT ![s][m] = x]
    BY DEF SkipMod, StartMod, StartModFails, SyncModFails, SyncMod,
           ModJobStates
  <2> QED BY <2>1
<1>3. CASE SkipMod(s, m)
  BY <1>1, <1>2, <1>3 DEF SkipMod
<1>4. CASE StartMod(s, m)
  <2>1. remote' \in [Servers -> [Slugs -> Content \cup {Missing, Mixed}]]
    BY <1>4 DEF StartMod
  <2> QED BY <1>1, <1>2, <1>4, <2>1 DEF StartMod
<1>5. CASE StartModFails(s, m)
  BY <1>1, <1>2, <1>5 DEF StartModFails
<1>6. CASE SyncModFails(s, m)
  BY <1>1, <1>2, <1>6 DEF SyncModFails
<1>7. CASE SyncMod(s, m)
  <2>1. Folder(m) \in Slugs => local[Folder(m)] \in Content \cup {Missing}
    OBVIOUS
  <2>2. remote' \in [Servers -> [Slugs -> Content \cup {Missing, Mixed}]]
    <3> DEFINE fs == [remote[s] EXCEPT ![Folder(m)] = local[Folder(m)]]
    <3>1. \A f \in Slugs : fs[f] \in Content \cup {Missing, Mixed}
      BY <2>1
    <3>2. fs \in [Slugs -> Content \cup {Missing, Mixed}]
      BY <3>1
    <3> QED BY <1>7, <3>2 DEF SyncMod
  <2>3. mods[m].localUpdatedAt \in Nat
    BY DEF ModState
  <2> DEFINE srv == [st[s] EXCEPT !.syncedMods[m] = mods[m].localUpdatedAt]
  <2>4. srv \in ServerState
    BY <2>3, SyncedType
  <2>5. srv.lastModIDs = servers[s].lastModIDs
    BY <2>3, SyncedType
  <2>6. /\ st' \in [Servers -> ServerState]
        /\ \A r \in Servers : st'[r].lastModIDs = servers[r].lastModIDs
    BY <1>7, <2>4, <2>5 DEF SyncMod
  <2> QED BY <1>1, <1>2, <1>7, <2>2, <2>6 DEF SyncMod
<1> QED BY <1>3, <1>4, <1>5, <1>6, <1>7

\* An Update that writes a copy with the same lists keeps the names.
LEMMA NamesKeptByCopy ==
  ASSUME TypeInv, mods' = mods, batch' = batch,
         \A s \in Servers : servers'[s].lastModIDs = servers[s].lastModIDs
  PROVE  ListedModsAreNamed' /\ BatchIsNamed'
  BY DEF TypeInv, ListedModsAreNamed, BatchIsNamed, Named, Folder

\* Every state a step of the SFTP phase leads to.
LEMMA SyncType == TypeInv /\ SyncStep => TypeInv'
<1> SUFFICES ASSUME TypeInv, SyncStep PROVE TypeInv'
  OBVIOUS
<1> USE DEF TypeInv, TypeOK, CopyHasSameLists, disk, steamcmd, env
<1>1. NoJobs \in [Servers -> JobStates]
      /\ NoModJobs \in [Servers -> [Mods -> ModJobStates]]
  BY DEF NoJobs, NoModJobs, JobStates, ModJobStates
<1>2. CASE BeginSync
  <2>1. job' \in [Servers -> JobStates]
    BY <1>2 DEF BeginSync, JobStates
  <2> QED BY <1>2, <2>1, NamesKept DEF BeginSync, Phases
<1>3. CASE EndSync
  <2>1. /\ servers' \in [Servers -> ServerState]
        /\ \A s \in Servers : servers'[s].lastModIDs = servers[s].lastModIDs
    BY <1>3 DEF EndSync, SyncResult
  <2>2. ListedModsAreNamed' /\ BatchIsNamed'
    BY <1>3, <2>1, NamesKeptByCopy DEF EndSync
  <2> QED BY <1>1, <1>3, <2>1, <2>2 DEF EndSync, Phases
<1>4. CASE SaveSyncFails
  BY <1>1, <1>4, NamesKept DEF SaveSyncFails, Phases
<1> QED BY <1>2, <1>3, <1>4, SyncServerType, SyncModType DEF SyncStep

\* Every state a step of an RCON tick leads to.
LEMMA RCONType == TypeInv /\ RCONStep => TypeInv'
<1> SUFFICES ASSUME TypeInv, RCONStep PROVE TypeInv'
  OBVIOUS
<1> USE DEF TypeInv, TypeOK, CopyHasSameLists, disk, steamcmd, jobs, env
<1>1. CASE BeginRCONTick
  BY <1>1, NamesKept DEF BeginRCONTick, Phases
<1>2. CASE StopRCONTick
  BY <1>2, NamesKept DEF StopRCONTick
<1>3. ASSUME NEW s \in Servers, LeaveServerUp(s) PROVE TypeInv'
  BY <1>3, NamesKept DEF LeaveServerUp
<1>4. ASSUME NEW s \in Servers, ShutDownServer(s) PROVE TypeInv'
  <2>1. st[s] \in ServerState
    OBVIOUS
  <2>2. /\ ShutdownSent(st[s]) \in ServerState
        /\ ShutdownSent(st[s]).lastModIDs = servers[s].lastModIDs
    BY <2>1, OutcomeType, OutcomeSameList
  <2>3. /\ st' \in [Servers -> ServerState]
        /\ \A r \in Servers : st'[r].lastModIDs = servers[r].lastModIDs
    BY <1>4, <2>2 DEF ShutDownServer
  <2>4. loaded' \in [Servers -> [Slugs -> Content \cup {Missing, Mixed}]]
    BY <1>4 DEF ShutDownServer
  <2>5. ListedModsAreNamed' /\ BatchIsNamed'
    BY <1>4, NamesKept DEF ShutDownServer
  <2> QED BY <1>4, <2>3, <2>4, <2>5 DEF ShutDownServer
<1>5. ASSUME NEW s \in Servers, ShutDownReplyLost(s) PROVE TypeInv'
  <2>1. loaded' \in [Servers -> [Slugs -> Content \cup {Missing, Mixed}]]
    BY <1>5 DEF ShutDownReplyLost
  <2> QED BY <1>5, <2>1, NamesKept DEF ShutDownReplyLost
<1>6. CASE EndRCONTick
  <2>1. ListedModsAreNamed' /\ BatchIsNamed'
    BY <1>6, NamesKeptByCopy DEF EndRCONTick
  <2> QED BY <1>6, <2>1 DEF EndRCONTick, Phases
<1>7. CASE SaveRCONTickFails
  BY <1>7, NamesKept DEF SaveRCONTickFails, Phases
<1> QED BY <1>1, <1>2, <1>3, <1>4, <1>5, <1>6, <1>7 DEF RCONStep

\* Every state that stopping, starting, crashing or the world lead to.
LEMMA OtherType ==
  TypeInv /\ (LifeStep \/ TickClock \/ (\E m \in Mods : PublishMod(m)) \/ CalmDown)
     => TypeInv'
<1> SUFFICES ASSUME TypeInv,
                    \/ LifeStep
                    \/ TickClock
                    \/ \E m \in Mods : PublishMod(m)
                    \/ CalmDown
             PROVE  TypeInv'
  OBVIOUS
<1> USE DEF TypeInv, TypeOK, CopyHasSameLists, disk, steamcmd, jobs, env
<1>1. CASE Signal
  BY <1>1, NamesKept DEF Signal
<1>2. CASE Stop
  BY <1>2, NamesKept DEF Stop, Phases
<1>3. CASE Boot
  <2>1. NoJobs \in [Servers -> JobStates]
        /\ NoModJobs \in [Servers -> [Mods -> ModJobStates]]
    BY DEF NoJobs, NoModJobs, JobStates, ModJobStates
  <2> QED BY <1>3, <2>1, NamesKept DEF Boot, Phases
<1>4. CASE TickClock
  BY <1>4, NamesKept DEF TickClock
<1>5. ASSUME NEW m \in Mods, PublishMod(m) PROVE TypeInv'
  BY <1>5, NamesKept DEF PublishMod
<1>6. CASE CalmDown
  BY <1>6, NamesKept DEF CalmDown
<1> QED BY <1>1, <1>2, <1>3, <1>4, <1>5, <1>6 DEF LifeStep, Start, Crash

\* A stuttering step changes no type.
LEMMA StutterType == TypeInv /\ UNCHANGED vars => TypeInv'
  BY NamesKept DEF TypeInv, TypeOK, CopyHasSameLists, vars, disk

\* TypeInv is inductive.
LEMMA TypeStep == TypeInv /\ [Next]_vars => TypeInv'
  BY ModlistType, WorkshopType, SteamType, SyncType, RCONType, OtherType,
     StutterType DEF Next

\* Whatever happens, the state keeps its shape: the folder of every mod a
\* handler works on is known, on disk and in the copy of an Update.
THEOREM TypeCorrect == Spec => []TypeInv
<1>1. Init => TypeInv
  BY InitType
<1>2. TypeInv /\ [Next]_vars => TypeInv'
  BY TypeStep
<1> QED BY <1>1, <1>2, PTL DEF Spec

\* The type invariant the runs check.
THEOREM TypeOKAlways == Spec => []TypeOK
<1>1. TypeInv => TypeOK
  BY DEF TypeInv
<1> QED BY <1>1, TypeCorrect, PTL
=============================================================================
