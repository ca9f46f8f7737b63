------------------------- MODULE UpdaterSyncProofs -------------------------
(***************************************************************************)
(* synced_mods and local_updated_at never lie, for every installation      *)
(* whose mods keep their folder names (FoldersAreStable): IndInv of        *)
(* UpdaterInvariant is inductive.  Its parts are proved one after the      *)
(* other, each with the help of those before.                              *)
(***************************************************************************)
EXTENDS UpdaterProofs

-----------------------------------------------------------------------------
(* Names                                                                   *)

\* The three steps that change the mods on disk.
LEMMA ModsChange ==
  ASSUME [Next]_vars
  PROVE  \/ mods' = mods
         \/ \E s \in Servers : PollServer(s)
         \/ \E found \in SUBSET Mods : WorkshopPoll(found)
         \/ \E m \in Mods : SaveDownloadedMod(m)
<1> USE DEF disk, EndServer, Boot
<1>1. ASSUME ModlistStep PROVE mods' = mods \/ \E s \in Servers : PollServer(s)
  BY <1>1 DEF ModlistStep, BeginModlistPoll, PollServerFails, EndModlistPoll
<1>2. ASSUME SteamStep
      PROVE  mods' = mods \/ \E m \in Mods : SaveDownloadedMod(m)
  BY <1>2 DEF SteamStep, SteamCMDFails, SaveDownloadedModFails,
              NothingDownloaded, MirrorBackup, MirrorSwap, MirrorSwapFails
<1>3. ASSUME SyncStep PROVE mods' = mods
  <2>1. ASSUME NEW s \in Servers, \/ SkipServer(s)
                                  \/ RefuseServer(s)
                                  \/ NothingToSync(s)
                                  \/ DialServerFails(s)
                                  \/ DialServer(s)
                                  \/ FinishServer(s)
        PROVE  mods' = mods
    BY <2>1 DEF SkipServer, RefuseServer, NothingToSync, DialServerFails,
                DialServer, FinishServer
  <2>2. ASSUME NEW s \in Servers, NEW m \in Mods, \/ SkipMod(s, m)
                                                  \/ StartMod(s, m)
                                                  \/ StartModFails(s, m)
                                                  \/ SyncModFails(s, m)
                                                  \/ SyncMod(s, m)
        PROVE  mods' = mods
    BY <2>2 DEF SkipMod, StartMod, StartModFails, SyncModFails, SyncMod
  <2> QED BY <1>3, <2>1, <2>2 DEF SyncStep, BeginSync, EndSync, SaveSyncFails
<1>4. ASSUME RCONStep PROVE mods' = mods
  BY <1>4 DEF RCONStep, BeginRCONTick, StopRCONTick, LeaveServerUp,
              ShutDownServer, ShutDownReplyLost, EndRCONTick, SaveRCONTickFails
<1>5. ASSUME LifeStep PROVE mods' = mods
  BY <1>5 DEF LifeStep, Signal, Stop, Start, Crash
<1>6. CASE UNCHANGED vars
  BY <1>6 DEF vars
<1> QED BY <1>1, <1>2, <1>3, <1>4, <1>5, <1>6
           DEF Next, TickClock, PublishMod, CalmDown

\* Once a mod has a folder it keeps it.
FoldersKept == \A m \in Mods : Named(m) => Folder(m)' = Folder(m)

\* No step renames a mod, and the new names come from lists again.
LEMMA NamesStep ==
  ASSUME FoldersAreStable, TypeInv, NamesComeFromLists, [Next]_vars
  PROVE  NamesComeFromLists' /\ FoldersKept
<1> USE DEF NamesComeFromLists, FoldersKept, Named, Folder, TypeInv, TypeOK
<1>1. CASE mods' = mods
  BY <1>1
<1>2. ASSUME NEW s \in Servers, PollServer(s)
      PROVE  NamesComeFromLists' /\ FoldersKept
  <2>1. PICK list \in Modlists : mods' = NameMods(mods, list)
    BY <1>2 DEF PollServer
  <2>2. ASSUME NEW m \in Mods, m \in DOMAIN list
        PROVE  mods'[m].folderSlug = list[m]
    BY <2>1, <2>2 DEF NameMods, ModState
  <2>3. ASSUME NEW m \in Mods, m \notin DOMAIN list
        PROVE  mods'[m] = mods[m]
    BY <2>1, <2>3 DEF NameMods
  <2>4. NamesComeFromLists'
    BY <2>2, <2>3
  <2>5. ASSUME NEW m \in Mods, Named(m), m \in DOMAIN list
        PROVE  list[m] = Folder(m)
    BY <2>5 DEF FoldersAreStable
  <2> QED BY <2>2, <2>3, <2>4, <2>5
<1>3. ASSUME NEW found \in SUBSET Mods, WorkshopPoll(found)
      PROVE  NamesComeFromLists' /\ FoldersKept
  <2>1. \A m \in Mods : mods'[m].folderSlug = mods[m].folderSlug
    BY <1>3 DEF WorkshopPoll, CheckedMod, ModState
  <2> QED BY <2>1
<1>4. ASSUME NEW n \in Mods, SaveDownloadedMod(n)
      PROVE  NamesComeFromLists' /\ FoldersKept
  <2>1. \A m \in Mods : mods'[m].folderSlug = mods[m].folderSlug
    BY <1>4 DEF SaveDownloadedMod, DownloadedMod, ModState
  <2> QED BY <2>1
<1> QED BY <1>1, <1>2, <1>3, <1>4, ModsChange

\* Mods with one folder are one mod.
LEMMA FolderOfOneMod ==
  ASSUME NamesComeFromLists, NEW m \in Mods, NEW n \in Mods,
         Named(m), Folder(m) = Folder(n)
  PROVE  m = n
<1>1. Named(n)
  BY DEF Named
<1>2. PICK a \in Modlists : m \in DOMAIN a /\ a[m] = Folder(m)
  BY DEF NamesComeFromLists
<1>3. PICK b \in Modlists : n \in DOMAIN b /\ b[n] = Folder(n)
  BY <1>1 DEF NamesComeFromLists
<1> QED BY <1>2, <1>3, FoldersAreDistinct

\* A named mod's folder is a folder.
LEMMA NamedHasFolder ==
  ASSUME TypeInv, NEW m \in Mods, Named(m)
  PROVE  Folder(m) \in Slugs
  BY DEF TypeInv, TypeOK, Named, Folder, ModState

-----------------------------------------------------------------------------
(* The copy an Update works on                                             *)

\* Between long Updates the copy is the disk; in them it differs only where
\* a handler has done its work.
LEMMA CopyStep ==
  ASSUME TypeInv, CopyOfServers, [Next]_vars
  PROVE  CopyOfServers'
<1> USE DEF CopyOfServers, disk, steamcmd, jobs, env
<1>0. \A s \in Servers, m \in Mods : NoModJobs[s][m] = "none"
  BY DEF NoModJobs
<1>1. ASSUME ModlistStep PROVE CopyOfServers'
  BY <1>1 DEF ModlistStep, BeginModlistPoll, PollServer, PollServerFails,
              EndModlistPoll
<1>2. ASSUME NEW found \in SUBSET Mods, WorkshopPoll(found)
      PROVE  CopyOfServers'
  BY <1>2 DEF WorkshopPoll
<1>3. ASSUME SteamStep PROVE CopyOfServers'
  BY <1>3 DEF SteamStep, SteamCMDFails, SaveDownloadedModFails,
              NothingDownloaded, MirrorBackup, MirrorSwap, MirrorSwapFails,
              SaveDownloadedMod, EndBatchWithError
<1>4. ASSUME SyncStep PROVE CopyOfServers'
  <2>1. CASE BeginSync
    BY <1>0, <2>1 DEF BeginSync
  <2>2. ASSUME NEW s \in Servers, \/ SkipServer(s)
                                  \/ RefuseServer(s)
                                  \/ NothingToSync(s)
                                  \/ DialServerFails(s)
                                  \/ DialServer(s)
                                  \/ FinishServer(s)
        PROVE  CopyOfServers'
    <3>1. /\ phase = "sync" /\ phase' = "sync"
          /\ servers' = servers
          /\ job' \in {[job EXCEPT ![s] = x] : x \in {"done", "failed", "busy"}}
          /\ \A r \in Servers \ {s} : st'[r] = st[r]
      BY <2>2 DEF SkipServer, RefuseServer, NothingToSync, DialServerFails,
                  DialServer, FinishServer, EndServer, TypeInv, TypeOK
    <3>2. /\ job \in [Servers -> JobStates]
          /\ modJob \in [Servers -> [Mods -> ModJobStates]]
      BY DEF TypeInv, TypeOK
    <3>3. \A r \in Servers, m \in Mods :
             modJob'[r][m] \in {"queued", "busy"} => job'[r] = "busy"
      BY <2>2, <3>2 DEF SkipServer, RefuseServer, NothingToSync,
            DialServerFails, DialServer, FinishServer, EndServer
    <3> QED BY <3>1, <3>2, <3>3
  <2>3. ASSUME NEW s \in Servers, NEW m \in Mods, \/ SkipMod(s, m)
                                                  \/ StartMod(s, m)
                                                  \/ StartModFails(s, m)
                                                  \/ SyncModFails(s, m)
                                                  \/ SyncMod(s, m)
        PROVE  CopyOfServers'
    <3>1. /\ phase = "sync" /\ phase' = "sync"
          /\ job' = job /\ servers' = servers
          /\ job[s] = "busy"
          /\ \A r \in Servers \ {s} : st'[r] = st[r]
      BY <2>3 DEF SkipMod, StartMod, StartModFails, SyncModFails, SyncMod,
                  TypeInv, TypeOK
    <3>2. \E x \in ModJobStates : modJob' = [modJob EXCEPT ![s][m] = x]
      BY <2>3 DEF SkipMod, StartMod, StartModFails, SyncModFails, SyncMod,
                  ModJobStates
    <3>3. \A r \in Servers, n \in Mods :
             modJob'[r][n] \in {"queued", "busy"} => job'[r] = "busy"
      BY <3>1, <3>2 DEF TypeInv, TypeOK
    <3> QED BY <3>1, <3>3
  <2>4. CASE EndSync
    BY <1>0, <2>4 DEF EndSync
  <2>5. CASE SaveSyncFails
    BY <1>0, <2>5 DEF SaveSyncFails
  <2> QED BY <1>4, <2>1, <2>2, <2>3, <2>4, <2>5 DEF SyncStep
<1>5. ASSUME RCONStep PROVE CopyOfServers'
  <2>1. CASE BeginRCONTick
    BY <2>1 DEF BeginRCONTick
  <2>2. ASSUME NEW s \in Servers, ShutDownServer(s) PROVE CopyOfServers'
    <3>1. st'[s].syncedMods = st[s].syncedMods
      BY <2>2 DEF ShutDownServer, ShutdownSent, TypeInv, TypeOK, ServerState
    <3>2. \A r \in Servers \ {s} : st'[r] = st[r]
      BY <2>2 DEF ShutDownServer, TypeInv, TypeOK
    <3> QED BY <2>2, <3>1, <3>2 DEF ShutDownServer
  <2>3. CASE \/ StopRCONTick
             \/ \E s \in Servers : LeaveServerUp(s) \/ ShutDownReplyLost(s)
    BY <2>3 DEF StopRCONTick, LeaveServerUp, ShutDownReplyLost
  <2>4. CASE EndRCONTick \/ SaveRCONTickFails
    BY <2>4 DEF EndRCONTick, SaveRCONTickFails
  <2> QED BY <1>5, <2>1, <2>2, <2>3, <2>4 DEF RCONStep
<1>6. ASSUME LifeStep PROVE CopyOfServers'
  BY <1>0, <1>6 DEF LifeStep, Signal, Stop, Start, Crash, Boot
<1>7. CASE TickClock \/ (\E m \in Mods : PublishMod(m)) \/ CalmDown
  BY <1>7 DEF TickClock, PublishMod, CalmDown
<1>8. CASE UNCHANGED vars
  BY <1>8 DEF vars
<1> QED BY <1>1, <1>2, <1>3, <1>4, <1>5, <1>6, <1>7, <1>8 DEF Next

-----------------------------------------------------------------------------
(* Downloads                                                               *)

\* Steps that leave the mods and the local folders alone, and the batch too
\* unless they end it.
LEMMA LocalFrame ==
  ASSUME TypeInv, LocalInv, mods' = mods, local' = local,
         \A m \in Mods : published'[m] \in Nat /\ published[m] <= published'[m],
         \/ batch' = {}
         \/ UNCHANGED <<phase, batch, staged, backup>>
  PROVE  LocalInv'
<1> USE DEF LocalInv, Label, Folder, Named
<1>1. BatchIsDue' /\ LabelledModsAreNamed'
  BY DEF BatchIsDue, LabelledModsAreNamed, Downloading
<1>2. VersionsArePublished'
  BY DEF VersionsArePublished, TypeInv, TypeOK, ModState
<1>3. LocalFoldersFit' /\ UpToDateModsHaveFolders'
  BY DEF LocalFoldersFit, UpToDateModsHaveFolders, FitsFolder
<1>4. SwapFits'
  BY DEF SwapFits, FitsFolder, NextInBatch
<1> QED BY <1>1, <1>2, <1>3, <1>4

\* The next mod of a batch is one mod.
LEMMA OneIsNext ==
  ASSUME TypeInv, NEW m \in Mods, NEW n \in Mods, NextInBatch(m), NextInBatch(n)
  PROVE  m = n
  BY ModsAreNaturals DEF NextInBatch

\* A polled modlist names mods, and moves no folder.
LEMMA LocalPoll ==
  ASSUME TypeInv, LocalInv, FoldersKept, NEW s \in Servers, PollServer(s)
  PROVE  LocalInv'
<1> USE DEF LocalInv, TypeInv, TypeOK
<1>1. batch = {} /\ batch' = {} /\ local' = local /\ published' = published
  BY DEF PollServer, BatchIsDue, Downloading, steamcmd, env
<1>2. \A m \in Mods :
         /\ mods'[m].localUpdatedAt = mods[m].localUpdatedAt
         /\ mods'[m].workshopUpdatedAt = mods[m].workshopUpdatedAt
  BY DEF PollServer, NameMods, ModState
<1>3. \A m \in Mods : Named(m) => Named(m)' /\ Folder(m)' = Folder(m)
  BY DEF FoldersKept, Named
<1>4. BatchIsDue' /\ SwapFits'
  BY <1>1 DEF BatchIsDue, SwapFits
<1>5. VersionsArePublished' /\ LabelledModsAreNamed'
  BY <1>1, <1>2, <1>3
     DEF VersionsArePublished, LabelledModsAreNamed, Label
<1>6. LocalFoldersFit'
  <2>1. SUFFICES ASSUME NEW f \in Slugs, local[f] # Missing
                 PROVE  FitsFolder(local[f], f)'
    BY <1>1 DEF LocalFoldersFit, FitsFolder
  <2>2. /\ local[f] \in Content
        /\ Folder(local[f].mod) = f
        /\ FullAnswers => local[f].version >= Label(local[f].mod)
    BY <2>1 DEF LocalFoldersFit, FitsFolder
  <2>3. local[f].mod \in Mods
    BY <2>2 DEF Content
  <2>4. Named(local[f].mod)
    BY <2>2, NoSlugIsNoFolder DEF Named
  <2> QED BY <1>1, <1>2, <1>3, <2>2, <2>3, <2>4 DEF FitsFolder, Label
<1>7. UpToDateModsHaveFolders'
  BY <1>1, <1>2, <1>3
     DEF UpToDateModsHaveFolders, LabelledModsAreNamed, Label, NeedsLocalUpdate
<1> QED BY <1>4, <1>5, <1>6, <1>7

\* A workshop poll starts a batch with the mods that are due.
LEMMA LocalWorkshop ==
  ASSUME TypeInv, LocalInv, NEW found \in SUBSET Mods, WorkshopPoll(found)
  PROVE  LocalInv'
<1> USE DEF LocalInv, TypeInv, TypeOK
<1>1. local' = local /\ published' = published /\ servers' = servers
  BY DEF WorkshopPoll, env
<1>2. \A m \in Mods :
         /\ mods'[m].localUpdatedAt = mods[m].localUpdatedAt
         /\ mods'[m].folderSlug = mods[m].folderSlug
         /\ mods'[m].workshopUpdatedAt <= published[m]
         /\ mods'[m].workshopUpdatedAt >= mods[m].workshopUpdatedAt
  BY DEF WorkshopPoll, CheckedMod, ModState, VersionsArePublished
<1>3. mods' \in [Mods -> ModState]
  BY WorkshopType
<1>4. CandidateModIDs(servers) \subseteq Mods
  BY DEF CandidateModIDs, ServerState
<1>5. BatchIsDue'
  BY <1>4 DEF BatchIsDue, Downloading, WorkshopPoll
<1>6. SwapFits'
  BY DEF SwapFits, WorkshopPoll
<1>7. VersionsArePublished' /\ LabelledModsAreNamed'
  BY <1>1, <1>2
     DEF VersionsArePublished, LabelledModsAreNamed, Label, Named, Folder
<1>8. LocalFoldersFit'
  BY <1>1, <1>2 DEF LocalFoldersFit, FitsFolder, Folder, Label, Content
<1>9. UpToDateModsHaveFolders'
  BY <1>1, <1>2, <1>3
     DEF UpToDateModsHaveFolders, NeedsLocalUpdate, Folder, ModState
<1> QED BY <1>5, <1>6, <1>7, <1>8, <1>9

\* Renaming the folder in use away loses nothing that is not due anyway.
LEMMA LocalBackup ==
  ASSUME TypeInv, NamesComeFromLists, LocalInv, NEW m \in Mods, MirrorBackup(m)
  PROVE  LocalInv'
<1> USE DEF LocalInv, TypeInv, TypeOK
<1>1. /\ m \in batch /\ Named(m) /\ Folder(m) \in Slugs
      /\ phase' = "swap"
      /\ UNCHANGED <<mods, published, batch>>
      /\ staged' = published[m]
      /\ backup' = local[Folder(m)]
      /\ local' = [local EXCEPT ![Folder(m)] = Missing]
  BY NamedHasFolder
     DEF MirrorBackup, NextInBatch, BatchIsNamed, disk, env
<1>2. BatchIsDue' /\ VersionsArePublished' /\ LabelledModsAreNamed'
  BY <1>1 DEF BatchIsDue, VersionsArePublished, LabelledModsAreNamed, Label,
              Named, Folder, Downloading
<1>3. LocalFoldersFit'
  BY <1>1 DEF LocalFoldersFit, FitsFolder, Label, Folder
<1>4. SwapFits'
  <2>1. FitsFolder(backup, Folder(m))'
    BY <1>1 DEF LocalFoldersFit, FitsFolder, Folder, Label
  <2>2. staged' >= mods[m].workshopUpdatedAt
    BY <1>1 DEF VersionsArePublished, ModState
  <2>3. \A n \in batch' : NextInBatch(n)' => n = m
    BY <1>1, OneIsNext DEF NextInBatch, MirrorBackup
  <2> QED BY <1>1, <2>1, <2>2, <2>3 DEF SwapFits
<1>5. UpToDateModsHaveFolders'
  <2>1. SUFFICES ASSUME NEW n \in Mods, ~NeedsLocalUpdate(mods[n])
                 PROVE  local'[Folder(n)] # Missing
    BY <1>1 DEF UpToDateModsHaveFolders, Folder
  <2>2. n # m
    BY <1>1, <2>1 DEF BatchIsDue
  <2>3. Folder(n) # Folder(m)
    BY <1>1, <2>2, FolderOfOneMod
  <2>4. Folder(n) \in Slugs
    BY <2>1, NamedHasFolder DEF LabelledModsAreNamed, NeedsLocalUpdate, Label
  <2> QED BY <1>1, <2>1, <2>3, <2>4 DEF UpToDateModsHaveFolders
<1> QED BY <1>2, <1>3, <1>4, <1>5

\* A missing folder is no content.
LEMMA ContentIsNotMissing == \A c \in Content : c # Missing
  BY FolderMarkers

\* What the swap puts in place fits, and is not older than the label the mod
\* has and the one it is about to get.
LEMMA LocalSwap ==
  ASSUME TypeInv, NamesComeFromLists, LocalInv, NEW m \in Mods, MirrorSwap(m)
  PROVE  LocalInv'
<1> USE DEF LocalInv, TypeInv, TypeOK
<1> DEFINE new == [mod |-> m, version |-> staged]
<1>1. /\ m \in batch /\ Named(m) /\ Folder(m) \in Slugs
      /\ phase = "swap" /\ phase' = "mirrored"
      /\ UNCHANGED <<mods, published, batch, staged>>
      /\ local' = [local EXCEPT ![Folder(m)] = new]
      /\ NextInBatch(m)
  BY NamedHasFolder
     DEF MirrorSwap, NextInBatch, BatchIsNamed, disk, env, steamcmd
<1>2. new \in Content /\ new.mod = m /\ new.version = staged /\ new # Missing
  BY ContentIsNotMissing DEF Content
<1>3. FullAnswers => staged >= mods[m].workshopUpdatedAt
  BY <1>1 DEF SwapFits
<1>4. FullAnswers => staged >= Label(m)
  BY <1>1, <1>3 DEF BatchIsDue, NeedsLocalUpdate, Label, ModState
<1>5. BatchIsDue' /\ VersionsArePublished' /\ LabelledModsAreNamed'
  BY <1>1 DEF BatchIsDue, VersionsArePublished, LabelledModsAreNamed, Label,
              Named, Folder, Downloading
<1>6. LocalFoldersFit'
  <2>1. FitsFolder(new, Folder(m))
    BY <1>2, <1>4 DEF FitsFolder
  <2>2. \A f \in Slugs : FitsFolder(local'[f], f)
    BY <1>1, <2>1 DEF LocalFoldersFit
  <2> QED BY <1>1, <2>2 DEF LocalFoldersFit, FitsFolder, Folder, Label
<1>7. SwapFits'
  <2>1. \A n \in batch' : NextInBatch(n)' => n = m
    BY <1>1, OneIsNext DEF NextInBatch
  <2> QED BY <1>1, <1>3, <2>1 DEF SwapFits, Folder
<1>8. UpToDateModsHaveFolders'
  BY <1>1, <1>2 DEF UpToDateModsHaveFolders, Folder
<1> QED BY <1>5, <1>6, <1>7, <1>8

\* A failed swap leaves what was there before, or nothing; the label of the
\* mod was due to change, so nobody relies on the folder.
LEMMA LocalSwapFails ==
  ASSUME TypeInv, NamesComeFromLists, LocalInv,
         NEW m \in Mods, MirrorSwapFails(m)
  PROVE  LocalInv'
<1> USE DEF LocalInv, TypeInv, TypeOK
<1>1. PICK left \in {backup, Missing} :
         local' = [local EXCEPT ![Folder(m)] = left]
  BY DEF MirrorSwapFails
<1>2. /\ m \in batch /\ Named(m) /\ Folder(m) \in Slugs
      /\ phase = "swap" /\ batch' = {}
      /\ UNCHANGED <<mods, published>>
      /\ NextInBatch(m)
  BY NamedHasFolder
     DEF MirrorSwapFails, NextInBatch, BatchIsNamed, EndBatchWithError, disk,
         env
<1>3. BatchIsDue' /\ SwapFits' /\ VersionsArePublished' /\ LabelledModsAreNamed'
  BY <1>2 DEF BatchIsDue, SwapFits, VersionsArePublished,
              LabelledModsAreNamed, Label, Named, Folder
<1>4. LocalFoldersFit'
  <2>1. FitsFolder(left, Folder(m))
    BY <1>2 DEF SwapFits, FitsFolder
  <2>2. \A f \in Slugs : FitsFolder(local'[f], f)
    BY <1>1, <2>1 DEF LocalFoldersFit
  <2> QED BY <1>2, <2>2 DEF LocalFoldersFit, FitsFolder, Folder, Label
<1>5. UpToDateModsHaveFolders'
  <2>1. SUFFICES ASSUME NEW n \in Mods, ~NeedsLocalUpdate(mods[n])
                 PROVE  local'[Folder(n)] # Missing
    BY <1>2 DEF UpToDateModsHaveFolders, Folder
  <2>2. n # m
    BY <1>2, <2>1 DEF BatchIsDue
  <2>3. Folder(n) # Folder(m)
    BY <1>2, <2>2, FolderOfOneMod
  <2>4. Folder(n) \in Slugs
    BY <2>1, NamedHasFolder DEF LabelledModsAreNamed, NeedsLocalUpdate, Label
  <2> QED BY <1>1, <2>1, <2>3, <2>4 DEF UpToDateModsHaveFolders
<1> QED BY <1>3, <1>4, <1>5

\* A saved download has a label the folder lives up to.
LEMMA LocalSave ==
  ASSUME TypeInv, NamesComeFromLists, LocalInv,
         NEW m \in Mods, SaveDownloadedMod(m)
  PROVE  LocalInv'
<1> USE DEF LocalInv, TypeInv, TypeOK
<1> DEFINE new == [mod |-> m, version |-> staged]
<1>1. /\ m \in batch /\ Named(m) /\ Folder(m) \in Slugs
      /\ phase' = "steam" /\ batch' = batch \ {m}
      /\ UNCHANGED <<published, local, now>>
      /\ mods' = [mods EXCEPT ![m] = DownloadedMod(@, now)]
      /\ local[Folder(m)] = new
      /\ FullAnswers => staged >= mods[m].workshopUpdatedAt
  BY NamedHasFolder
     DEF SaveDownloadedMod, NextInBatch, BatchIsNamed, SwapFits, env
<1>2. new \in Content /\ new.mod = m /\ new.version = staged /\ new # Missing
  BY ContentIsNotMissing DEF Content
<1>3. \A n \in Mods : /\ mods'[n].folderSlug = mods[n].folderSlug
                      /\ mods'[n].workshopUpdatedAt = mods[n].workshopUpdatedAt
                      /\ n # m => mods'[n] = mods[n]
  BY <1>1 DEF DownloadedMod, ModState
<1>4. FullAnswers => /\ mods'[m].localUpdatedAt = mods[m].workshopUpdatedAt
                     /\ staged >= mods'[m].localUpdatedAt
  BY <1>1 DEF BatchIsDue, DownloadedMod, ModState
<1>5. BatchIsDue' /\ SwapFits' /\ VersionsArePublished'
  BY <1>1, <1>3 DEF BatchIsDue, SwapFits, VersionsArePublished, Downloading
<1>6. LabelledModsAreNamed'
  BY <1>1, <1>3 DEF LabelledModsAreNamed, Label, Named, Folder
<1>7. LocalFoldersFit'
  <2>1. SUFFICES ASSUME NEW f \in Slugs, local[f] # Missing
                 PROVE  FitsFolder(local[f], f)'
    BY <1>1 DEF LocalFoldersFit, FitsFolder
  <2>2. FitsFolder(local[f], f) /\ local[f] \in Content /\ local[f].mod \in Mods
    BY <2>1 DEF LocalFoldersFit, FitsFolder, Content
  <2>3. CASE local[f].mod = m
    <3>1. f = Folder(m)
      BY <2>1, <2>2, <2>3 DEF FitsFolder
    <3> QED BY <1>1, <1>2, <1>3, <1>4, <3>1 DEF FitsFolder, Folder, Label
  <2>4. CASE local[f].mod # m
    BY <1>1, <1>3, <2>1, <2>2, <2>4 DEF FitsFolder, Folder, Label
  <2> QED BY <2>3, <2>4
<1>8. UpToDateModsHaveFolders'
  <2>1. SUFFICES ASSUME NEW n \in Mods, ~NeedsLocalUpdate(mods'[n])
                 PROVE  local[Folder(n)] # Missing
    BY <1>1, <1>3 DEF UpToDateModsHaveFolders, Folder
  <2> QED BY <1>1, <1>2, <1>3, <2>1 DEF UpToDateModsHaveFolders
<1> QED BY <1>5, <1>6, <1>7, <1>8

\* The steps that change the local folders.
LEMMA LocalChange ==
  ASSUME [Next]_vars
  PROVE  \/ local' = local
         \/ \E m \in Mods : \/ MirrorBackup(m)
                            \/ MirrorSwap(m)
                            \/ MirrorSwapFails(m)
<1> USE DEF Boot, disk
<1>1. ModlistStep => local' = local
  BY DEF ModlistStep, BeginModlistPoll, PollServer, PollServerFails,
         EndModlistPoll
<1>2. SteamStep => \/ local' = local
                   \/ \E m \in Mods : \/ MirrorBackup(m)
                                      \/ MirrorSwap(m)
                                      \/ MirrorSwapFails(m)
  BY DEF SteamStep, SteamCMDFails, SaveDownloadedModFails, NothingDownloaded,
         SaveDownloadedMod
<1>3. SyncStep => local' = local
  BY DEF SyncStep, BeginSync, SkipServer, RefuseServer, NothingToSync,
         DialServerFails, DialServer, FinishServer, SkipMod, StartMod,
         StartModFails, SyncModFails, SyncMod, EndSync, SaveSyncFails
<1>4. RCONStep => local' = local
  BY DEF RCONStep, BeginRCONTick, StopRCONTick, LeaveServerUp, ShutDownServer,
         ShutDownReplyLost, EndRCONTick, SaveRCONTickFails
<1>5. LifeStep => local' = local
  BY DEF LifeStep, Signal, Stop, Start, Crash
<1> QED BY <1>1, <1>2, <1>3, <1>4, <1>5
           DEF Next, WorkshopPoll, TickClock, PublishMod, CalmDown, vars

\* Outside of a download the batch is empty and stays so.
LEMMA BatchChange ==
  ASSUME TypeInv, BatchIsDue, [Next]_vars
  PROVE  \/ batch' = {}
         \/ UNCHANGED <<phase, batch, staged, backup>>
         \/ \E found \in SUBSET Mods : WorkshopPoll(found)
         \/ \E m \in Mods : \/ NothingDownloaded(m)
                            \/ MirrorBackup(m)
                            \/ MirrorSwap(m)
                            \/ SaveDownloadedMod(m)
<1> USE DEF BatchIsDue, Downloading, steamcmd, EndBatchWithError, Boot
<1>1. ModlistStep => batch' = {}
  BY DEF ModlistStep, BeginModlistPoll, PollServer, PollServerFails,
         EndModlistPoll
<1>2. SteamStep => \/ batch' = {}
                   \/ \E m \in Mods : \/ NothingDownloaded(m)
                                      \/ MirrorBackup(m)
                                      \/ MirrorSwap(m)
                                      \/ SaveDownloadedMod(m)
  BY DEF SteamStep, SteamCMDFails, SaveDownloadedModFails, MirrorSwapFails
<1>3. SyncStep => batch' = {}
  BY DEF SyncStep, BeginSync, SkipServer, RefuseServer, NothingToSync,
         DialServerFails, DialServer, FinishServer, SkipMod, StartMod,
         StartModFails, SyncModFails, SyncMod, EndSync, SaveSyncFails
<1>4. RCONStep => batch' = {}
  BY DEF RCONStep, BeginRCONTick, StopRCONTick, LeaveServerUp, ShutDownServer,
         ShutDownReplyLost, EndRCONTick, SaveRCONTickFails
<1>5. LifeStep => batch' = {} \/ UNCHANGED <<phase, batch, staged, backup>>
  BY DEF LifeStep, Signal, Stop, Start, Crash
<1> QED BY <1>1, <1>2, <1>3, <1>4, <1>5
           DEF Next, TickClock, PublishMod, CalmDown, vars

\* The Workshop only moves forward.
LEMMA PublishedGrows ==
  ASSUME TypeInv, [Next]_vars
  PROVE  \A m \in Mods : published'[m] \in Nat /\ published[m] <= published'[m]
<1> USE DEF TypeInv, TypeOK, env, Boot
<1>1. \/ published' = published
      \/ \E m \in Mods : PublishMod(m)
  <2>1. ModlistStep => published' = published
    BY DEF ModlistStep, BeginModlistPoll, PollServer, PollServerFails,
           EndModlistPoll
  <2>2. SteamStep => published' = published
    BY DEF SteamStep, SteamCMDFails, SaveDownloadedModFails,
           NothingDownloaded, MirrorBackup, MirrorSwap, MirrorSwapFails,
           SaveDownloadedMod
  <2>3. SyncStep => published' = published
    BY DEF SyncStep, BeginSync, SkipServer, RefuseServer, NothingToSync,
           DialServerFails, DialServer, FinishServer, SkipMod, StartMod,
           StartModFails, SyncModFails, SyncMod, EndSync, SaveSyncFails
  <2>4. RCONStep => published' = published
    BY DEF RCONStep, BeginRCONTick, StopRCONTick, LeaveServerUp,
           ShutDownServer, ShutDownReplyLost, EndRCONTick, SaveRCONTickFails
  <2>5. LifeStep => published' = published
    BY DEF LifeStep, Signal, Stop, Start, Crash
  <2> QED BY <2>1, <2>2, <2>3, <2>4, <2>5
             DEF Next, WorkshopPoll, TickClock, CalmDown, vars
<1>2. ASSUME published' = published
      PROVE  \A m \in Mods : /\ published'[m] \in Nat
                             /\ published[m] <= published'[m]
  BY <1>2
<1>3. ASSUME NEW n \in Mods, PublishMod(n)
      PROVE  \A m \in Mods : /\ published'[m] \in Nat
                             /\ published[m] <= published'[m]
  BY <1>3 DEF PublishMod
<1> QED BY <1>1, <1>2, <1>3

\* Whatever the daemon and the world do, local_updated_at stays true of the
\* local folders.
LEMMA LocalStep ==
  ASSUME FoldersAreStable, TypeInv, NamesComeFromLists, LocalInv, [Next]_vars
  PROVE  LocalInv'
<1>1. BatchIsDue /\ FoldersKept
  BY NamesStep DEF LocalInv
<1>2. CASE \E s \in Servers : PollServer(s)
  BY <1>1, <1>2, LocalPoll
<1>3. CASE \E found \in SUBSET Mods : WorkshopPoll(found)
  BY <1>3, LocalWorkshop
<1>4. CASE \E m \in Mods : MirrorBackup(m)
  BY <1>4, LocalBackup
<1>5. CASE \E m \in Mods : MirrorSwap(m)
  BY <1>5, LocalSwap
<1>6. CASE \E m \in Mods : MirrorSwapFails(m)
  BY <1>6, LocalSwapFails
<1>7. CASE \E m \in Mods : SaveDownloadedMod(m)
  BY <1>7, LocalSave
<1>8. ASSUME NEW m \in Mods, NothingDownloaded(m) PROVE LocalInv'
  <2>1. /\ phase = "steam" /\ batch' = batch \ {m}
        /\ UNCHANGED <<phase, mods, local, published>>
    BY <1>8 DEF NothingDownloaded, disk, env
  <2> QED BY <2>1
    DEF LocalInv, BatchIsDue, VersionsArePublished, LabelledModsAreNamed,
        LocalFoldersFit, SwapFits, UpToDateModsHaveFolders, FitsFolder,
        Downloading, Label, Named, Folder
<1>9. ASSUME mods' = mods, local' = local,
             \/ batch' = {}
             \/ UNCHANGED <<phase, batch, staged, backup>>
      PROVE  LocalInv'
  BY <1>9, PublishedGrows, LocalFrame
<1> QED BY <1>1, <1>2, <1>3, <1>4, <1>5, <1>6, <1>7, <1>8, <1>9,
           ModsChange, LocalChange, BatchChange

-----------------------------------------------------------------------------
(* Syncs                                                                   *)

\* Steps that write no new entry of synced_mods, start no sync and touch
\* neither labels nor remote folders.
LEMMA RemoteFrame ==
  ASSUME TypeInv, RemoteInv, mods' = mods, remote' = remote,
         \A s \in Servers :
            /\ servers'[s].syncedMods \in {servers[s].syncedMods,
                                           st[s].syncedMods}
            /\ st'[s].syncedMods \in {servers[s].syncedMods, st[s].syncedMods},
         \/ modJob' = NoModJobs
         \/ /\ local' = local
            /\ \A s \in Servers, m \in Mods :
                  modJob'[s][m] \in {"queued", "busy"}
                      => modJob'[s][m] = modJob[s][m]
  PROVE  RemoteInv'
<1> USE DEF RemoteInv, Label, Folder
<1>1. SyncedNotAhead'
  BY DEF SyncedNotAhead
<1>2. SyncedIsWhole'
  BY DEF SyncedIsWhole, Covers
<1>3. JobsAreStale'
  <2>1. \A s \in Servers, m \in Mods : NoModJobs[s][m] = "none"
    BY DEF NoModJobs
  <2> QED BY <2>1 DEF JobsAreStale
<1> QED BY <1>1, <1>2, <1>3

\* A poll of the modlist or of the Workshop changes neither labels nor
\* folders.
LEMMA RemotePoll ==
  ASSUME TypeInv, CopyOfServers, LocalInv, RemoteInv, FoldersKept,
         \/ \E s \in Servers : PollServer(s)
         \/ \E found \in SUBSET Mods : WorkshopPoll(found)
  PROVE  RemoteInv'
<1> USE DEF RemoteInv, TypeInv, TypeOK, jobs, disk
<1>1. remote' = remote /\ modJob' = NoModJobs
  BY DEF PollServer, WorkshopPoll, CopyOfServers
<1>2. \A m \in Mods : mods'[m].localUpdatedAt = mods[m].localUpdatedAt
  <2>1. ASSUME NEW list \in Modlists, mods' = NameMods(mods, list), NEW m \in Mods
        PROVE  mods'[m].localUpdatedAt = mods[m].localUpdatedAt
    BY <2>1 DEF NameMods, ModState
  <2>2. ASSUME NEW found \in SUBSET Mods, WorkshopPoll(found), NEW m \in Mods
        PROVE  mods'[m].localUpdatedAt = mods[m].localUpdatedAt
    BY <2>2 DEF WorkshopPoll, CheckedMod, ModState
  <2> QED BY <2>1, <2>2 DEF PollServer
<1>3. \A s \in Servers : /\ servers'[s].syncedMods = servers[s].syncedMods
                         /\ st'[s].syncedMods = servers[s].syncedMods
  <2>1. st = servers
    BY DEF CopyOfServers, PollServer, WorkshopPoll
  <2>2. ASSUME NEW r \in Servers, PollServer(r), NEW s \in Servers
        PROVE  servers'[s].syncedMods = servers[s].syncedMods
    <3>1. PICK list \in Modlists :
             servers' = [servers EXCEPT ![r] = ApplyPollResult(@, list)]
      BY <2>2 DEF PollServer
    <3>2. servers[r] \in ServerState
      OBVIOUS
    <3>3. ApplyPollResult(servers[r], list).syncedMods = servers[r].syncedMods
      BY <3>2 DEF ApplyPollResult, ServerState
    <3> QED BY <3>1, <3>3
  <2> QED BY <2>1, <2>2 DEF PollServer, WorkshopPoll
<1>4. SyncedNotAhead'
  BY <1>2, <1>3 DEF SyncedNotAhead, Label
<1>5. SyncedIsWhole'
  <2>1. \A m \in Mods : Label(m) # 0 => Folder(m)' = Folder(m)
    BY DEF LocalInv, LabelledModsAreNamed, FoldersKept
  <2>2. \A m \in Mods : Label(m)' = Label(m)
    BY <1>2 DEF Label
  <2>3. \A s \in Servers, m \in Mods :
           /\ servers'[s].syncedMods[m] = servers[s].syncedMods[m]
           /\ st'[s].syncedMods[m] = servers[s].syncedMods[m]
    BY <1>3
  <2>4. SUFFICES ASSUME NEW s \in Servers, NEW m \in Mods, Label(m) # 0,
                        Label(m) = servers[s].syncedMods[m]
                 PROVE  Covers(remote[s][Folder(m)], m, Label(m))'
    BY <2>2, <2>3 DEF SyncedIsWhole
  <2>5. Covers(remote[s][Folder(m)], m, Label(m))
    BY <2>4 DEF SyncedIsWhole
  <2> QED BY <1>1, <2>1, <2>2, <2>4, <2>5 DEF Covers
<1>6. JobsAreStale'
  BY <1>1 DEF JobsAreStale, NoModJobs
<1> QED BY <1>4, <1>5, <1>6

\* A new label makes every entry of synced_mods for that mod stale.
LEMMA RemoteSave ==
  ASSUME TypeInv, CopyOfServers, LocalInv, RemoteInv,
         NEW m \in Mods, SaveDownloadedMod(m)
  PROVE  RemoteInv'
<1> USE DEF RemoteInv, TypeInv, TypeOK
<1>1. /\ m \in batch
      /\ remote' = remote /\ modJob' = NoModJobs
      /\ mods' = [mods EXCEPT ![m] = DownloadedMod(@, now)]
      /\ servers' = MarkServersUsingModForPlanning(servers, m)
      /\ st' = servers'
  BY DEF SaveDownloadedMod, NextInBatch, CopyOfServers, jobs
<1>2. \A n \in Mods : /\ mods'[n].folderSlug = mods[n].folderSlug
                      /\ n # m => mods'[n] = mods[n]
  BY <1>1 DEF DownloadedMod, ModState
<1>3. mods'[m].localUpdatedAt > mods[m].localUpdatedAt
  <2>1. NeedsLocalUpdate(mods[m])
    BY <1>1 DEF LocalInv, BatchIsDue
  <2> QED BY <1>1, <2>1 DEF DownloadedMod, NeedsLocalUpdate, ModState
<1>4. mods \in [Mods -> ModState] /\ mods' \in [Mods -> ModState]
  BY DownloadType, <1>1
<1>5. \A s \in Servers : servers'[s].syncedMods = servers[s].syncedMods
  <2>1. \A s \in Servers : servers[s] \in ServerState
    OBVIOUS
  <2> QED BY <1>1, <2>1 DEF MarkServersUsingModForPlanning, ServerState
<1>6. \A s \in Servers, n \in Mods : servers[s].syncedMods[n] \in Nat
  BY DEF ServerState
<1>7. ASSUME NEW s \in Servers, NEW n \in Mods
      PROVE  /\ servers'[s].syncedMods[n] <= Label(n)'
             /\ servers'[s].syncedMods[n] = Label(n)' => n # m
  <2>1. servers[s].syncedMods[n] <= mods[n].localUpdatedAt
    BY DEF SyncedNotAhead, Label
  <2>2. mods[n].localUpdatedAt \in Nat /\ mods'[n].localUpdatedAt \in Nat
    BY <1>4 DEF ModState
  <2> QED BY <1>2, <1>3, <1>5, <1>6, <2>1, <2>2 DEF Label
<1>8. SyncedNotAhead'
  BY <1>1, <1>7 DEF SyncedNotAhead
<1>9. SyncedIsWhole'
  <2>1. SUFFICES ASSUME NEW s \in Servers, NEW n \in Mods, Label(n)' # 0,
                        Label(n)' = servers'[s].syncedMods[n]
                 PROVE  Covers(remote[s][Folder(n)], n, Label(n))'
    BY <1>1 DEF SyncedIsWhole
  <2>2. n # m
    BY <1>7, <2>1
  <2>3. Label(n)' = Label(n) /\ Folder(n)' = Folder(n)
    BY <1>2, <2>2 DEF Label, Folder
  <2>4. Label(n) # 0 /\ Label(n) = servers[s].syncedMods[n]
    BY <1>5, <2>1, <2>3
  <2>5. Covers(remote[s][Folder(n)], n, Label(n))
    BY <2>4 DEF SyncedIsWhole
  <2> QED BY <1>1, <2>3, <2>5 DEF Covers
<1>10. JobsAreStale'
  BY <1>1 DEF JobsAreStale, NoModJobs
<1> QED BY <1>8, <1>9, <1>10

\* Syncs are started for stale mods only.
LEMMA RemoteDial ==
  ASSUME TypeInv, CopyOfServers, LocalInv, RemoteInv,
         NEW s \in Servers, DialServer(s)
  PROVE  RemoteInv'
<1> USE DEF RemoteInv, TypeInv, TypeOK
<1>1. /\ UNCHANGED <<mods, servers, local, remote>>
      /\ st' = [st EXCEPT ![s].stage = "syncing"]
      /\ modJob' = [modJob EXCEPT ![s] =
                       [m \in Mods |-> IF m \in ModsToSync(st[s], mods)
                                       THEN "queued" ELSE "none"]]
      /\ NeverDownloaded(st[s], mods) = {}
      /\ st[s] = servers[s]
  BY DEF DialServer, EndServer, CopyOfServers, disk
<1>2. \A r \in Servers : st'[r].syncedMods = st[r].syncedMods
  BY <1>1 DEF ServerState
<1>3. SyncedNotAhead' /\ SyncedIsWhole'
  BY <1>1, <1>2 DEF SyncedNotAhead, SyncedIsWhole, Covers, Label, Folder
<1>4. ASSUME NEW m \in Mods, modJob'[s][m] \in {"queued", "busy"}
      PROVE  /\ modJob'[s][m] = "queued"
             /\ Label(m) \notin {0, st[s].syncedMods[m]}
  <2>1. m \in ModsToSync(st[s], mods) /\ modJob'[s][m] = "queued"
    BY <1>1, <1>4
  <2> QED BY <1>1, <2>1 DEF ModsToSync, NeverDownloaded, Label
<1>5. \A r \in Servers \ {s} : modJob'[r] = modJob[r]
  BY <1>1
<1>6. JobsAreStale'
  BY <1>1, <1>2, <1>4, <1>5 DEF JobsAreStale, Label, Folder
<1> QED BY <1>3, <1>6

\* A sync that begins spoils only the folder of a mod known to be stale.
LEMMA RemoteStart ==
  ASSUME TypeInv, NamesComeFromLists, LocalInv, RemoteInv,
         NEW s \in Servers, NEW m \in Mods, StartMod(s, m)
  PROVE  RemoteInv'
<1> USE DEF RemoteInv, TypeInv, TypeOK
<1>1. /\ UNCHANGED <<mods, servers, st, local>>
      /\ modJob[s][m] = "queued"
      /\ local[Folder(m)] # Missing
      /\ modJob' = [modJob EXCEPT ![s][m] = "busy"]
      /\ remote' = [remote EXCEPT ![s][Folder(m)] = Mixed]
  BY DEF StartMod, disk
<1>2. SyncedNotAhead'
  BY <1>1 DEF SyncedNotAhead, Label
<1>3. SyncedIsWhole'
  <2>1. SUFFICES ASSUME NEW r \in Servers, NEW n \in Mods, Label(n) # 0,
                        Label(n) \in {servers[r].syncedMods[n],
                                      st[r].syncedMods[n]}
                 PROVE  remote'[r][Folder(n)] = remote[r][Folder(n)]
    BY <1>1 DEF SyncedIsWhole, Covers, Label, Folder
  <2>2. CASE r # s
    BY <1>1, <2>2
  <2>3. CASE r = s
    <3>1. n # m
      BY <1>1, <2>1, <2>3 DEF JobsAreStale
    <3>2. Folder(n) # Folder(m)
      BY <2>1, <3>1, FolderOfOneMod DEF LocalInv, LabelledModsAreNamed
    <3> QED BY <1>1, <2>3, <3>2
  <2> QED BY <2>2, <2>3
<1>4. JobsAreStale'
  <2>1. \A r \in Servers, n \in Mods :
           modJob'[r][n] = modJob[r][n] \/ (r = s /\ n = m)
    BY <1>1
  <2> QED BY <1>1, <2>1 DEF JobsAreStale, Label, Folder
<1> QED BY <1>2, <1>3, <1>4

\* A sync that ends leaves a whole copy of the local folder, which is as new
\* as the entry it writes.
LEMMA RemoteEnd ==
  ASSUME TypeInv, NamesComeFromLists, LocalInv, RemoteInv,
         NEW s \in Servers, NEW m \in Mods, SyncMod(s, m)
  PROVE  RemoteInv'
<1> USE DEF RemoteInv, TypeInv, TypeOK
<1>1. /\ UNCHANGED <<mods, servers, local>>
      /\ modJob[s][m] = "busy"
      /\ modJob' = [modJob EXCEPT ![s][m] = "synced"]
      /\ remote' = [remote EXCEPT ![s][Folder(m)] = local[Folder(m)]]
      /\ st' = [st EXCEPT ![s].syncedMods[m] = mods[m].localUpdatedAt]
  BY DEF SyncMod, disk
<1>2. Label(m) # 0 /\ local[Folder(m)] # Missing /\ Named(m)
  BY <1>1 DEF JobsAreStale, LocalInv, LabelledModsAreNamed
<1>3. Folder(m) \in Slugs
  BY <1>2, NamedHasFolder
<1>4. Covers(local[Folder(m)], m, Label(m))
  <2>1. FitsFolder(local[Folder(m)], Folder(m))
    BY <1>3 DEF LocalInv, LocalFoldersFit
  <2>2. local[Folder(m)].mod \in Mods
    BY <1>2, <2>1 DEF FitsFolder, Content
  <2>3. local[Folder(m)].mod = m
    BY <1>2, <2>1, <2>2, FolderOfOneMod DEF FitsFolder
  <2> QED BY <1>2, <2>1, <2>3 DEF FitsFolder, Covers
<1>5. ASSUME NEW r \in Servers, NEW n \in Mods
      PROVE  st'[r].syncedMods[n] = IF r = s /\ n = m
                                    THEN mods[m].localUpdatedAt
                                    ELSE st[r].syncedMods[n]
  BY <1>1 DEF ServerState
<1>6. SyncedNotAhead'
  BY <1>1, <1>5 DEF SyncedNotAhead, Label, ModState
<1>7. SyncedIsWhole'
  <2>1. SUFFICES ASSUME NEW r \in Servers, NEW n \in Mods, Label(n) # 0,
                        Label(n) \in {servers[r].syncedMods[n],
                                      st'[r].syncedMods[n]}
                 PROVE  Covers(remote'[r][Folder(n)], n, Label(n))
    BY <1>1 DEF SyncedIsWhole, Covers, Label, Folder
  <2>2. CASE r = s /\ n = m
    BY <1>1, <1>3, <1>4, <2>2
  <2>3. CASE ~(r = s /\ n = m)
    <3>1. Covers(remote[r][Folder(n)], n, Label(n))
      BY <1>5, <2>1, <2>3 DEF SyncedIsWhole
    <3>2. r # s \/ Folder(n) # Folder(m)
      BY <2>1, <2>3, FolderOfOneMod DEF LocalInv, LabelledModsAreNamed
    <3> QED BY <1>1, <3>1, <3>2
  <2> QED BY <2>2, <2>3
<1>8. JobsAreStale'
  <2>1. \A r \in Servers, n \in Mods :
           \/ r = s /\ n = m /\ modJob'[r][n] = "synced"
           \/ ~(r = s /\ n = m) /\ modJob'[r][n] = modJob[r][n]
    BY <1>1
  <2> QED BY <1>1, <1>5, <2>1 DEF JobsAreStale, Label, Folder
<1> QED BY <1>6, <1>7, <1>8

\* Every step of a sync phase keeps RemoteInv.
LEMMA RemoteSync ==
  ASSUME TypeInv, NamesComeFromLists, CopyOfServers, LocalInv, RemoteInv,
         SyncStep
  PROVE  RemoteInv'
<1> USE DEF TypeInv, TypeOK, disk, steamcmd, jobs, env, EndServer
<1>1. CASE BeginSync
  BY <1>1, RemoteFrame DEF BeginSync
<1>2. ASSUME NEW s \in Servers, \/ SkipServer(s)
                                \/ RefuseServer(s)
                                \/ NothingToSync(s)
                                \/ DialServerFails(s)
                                \/ FinishServer(s)
      PROVE  RemoteInv'
  <2>1. UNCHANGED <<mods, servers, local, remote, modJob>>
    BY <1>2 DEF SkipServer, RefuseServer, NothingToSync, DialServerFails,
                FinishServer
  <2>2. \/ st' = st
        \/ st' = [st EXCEPT ![s] = SyncError(st[s])]
        \/ st' = [st EXCEPT ![s] = StartCountdown(st[s], now)]
    BY <1>2 DEF SkipServer, RefuseServer, NothingToSync, DialServerFails,
                FinishServer
  <2>3. SyncError(st[s]).syncedMods = st[s].syncedMods
    BY DEF SyncError, ServerState
  <2>4. StartCountdown(st[s], now).syncedMods = st[s].syncedMods
    BY DEF StartCountdown, ServerState
  <2>5. \A r \in Servers : st'[r].syncedMods = st[r].syncedMods
    BY <2>2, <2>3, <2>4
  <2> QED BY <2>1, <2>5, RemoteFrame
<1>3. ASSUME NEW s \in Servers, NEW m \in Mods, \/ SkipMod(s, m)
                                                \/ StartModFails(s, m)
                                                \/ SyncModFails(s, m)
      PROVE  RemoteInv'
  <2>1. UNCHANGED <<mods, servers, st, local, remote>>
    BY <1>3 DEF SkipMod, StartModFails, SyncModFails
  <2>2. \E x \in {"skipped", "failed"} : modJob' = [modJob EXCEPT ![s][m] = x]
    BY <1>3 DEF SkipMod, StartModFails, SyncModFails
  <2>3. \A r \in Servers, n \in Mods :
           modJob'[r][n] \in {"queued", "busy"}
               => modJob'[r][n] = modJob[r][n]
    BY <2>2
  <2> QED BY <2>1, <2>3, RemoteFrame
<1>4. CASE EndSync
  BY <1>4, RemoteFrame DEF EndSync, SyncResult
<1>5. CASE SaveSyncFails
  BY <1>5, RemoteFrame DEF SaveSyncFails
<1> QED BY <1>1, <1>2, <1>3, <1>4, <1>5, RemoteDial, RemoteStart, RemoteEnd
           DEF SyncStep

\* Every step of the daemon and the world keeps RemoteInv.
LEMMA RemoteStep ==
  ASSUME FoldersAreStable, TypeInv, NamesComeFromLists, CopyOfServers,
         LocalInv, RemoteInv, [Next]_vars
  PROVE  RemoteInv'
<1> USE DEF TypeInv, TypeOK, disk, steamcmd, jobs, env
<1>1. ASSUME ModlistStep PROVE RemoteInv'
  <2>1. CASE \E s \in Servers : PollServer(s)
    BY <2>1, NamesStep, RemotePoll
  <2>2. CASE \/ BeginModlistPoll
             \/ \E s \in Servers : PollServerFails(s)
             \/ EndModlistPoll
    BY <2>2, RemoteFrame DEF BeginModlistPoll, PollServerFails, EndModlistPoll
  <2> QED BY <1>1, <2>1, <2>2 DEF ModlistStep
<1>2. ASSUME NEW found \in SUBSET Mods, WorkshopPoll(found) PROVE RemoteInv'
  BY <1>2, NamesStep, RemotePoll
<1>3. ASSUME SteamStep PROVE RemoteInv'
  <2>1. CASE \E m \in Mods : SaveDownloadedMod(m)
    BY <2>1, RemoteSave
  <2>2. CASE \/ SteamCMDFails
             \/ SaveDownloadedModFails
             \/ \E m \in Mods : \/ NothingDownloaded(m)
                                \/ MirrorBackup(m)
                                \/ MirrorSwap(m)
                                \/ MirrorSwapFails(m)
    <3>1. phase # "sync" /\ UNCHANGED <<mods, servers, st, remote, modJob>>
      BY <2>2 DEF SteamCMDFails, SaveDownloadedModFails, NothingDownloaded,
                  MirrorBackup, MirrorSwap, MirrorSwapFails
    <3> QED BY <3>1, RemoteFrame DEF CopyOfServers
  <2> QED BY <1>3, <2>1, <2>2 DEF SteamStep
<1>4. ASSUME SyncStep PROVE RemoteInv'
  BY <1>4, RemoteSync
<1>5. ASSUME RCONStep PROVE RemoteInv'
  <2>1. ASSUME NEW s \in Servers, ShutDownServer(s) PROVE RemoteInv'
    <3>1. /\ UNCHANGED <<mods, servers, local, remote, modJob>>
          /\ st' = [st EXCEPT ![s] = ShutdownSent(@)]
      BY <2>1 DEF ShutDownServer
    <3>2. ShutdownSent(st[s]).syncedMods = st[s].syncedMods
      BY DEF ShutdownSent, ServerState
    <3>3. \A r \in Servers : st'[r].syncedMods = st[r].syncedMods
      BY <3>1, <3>2
    <3> QED BY <3>1, <3>3, RemoteFrame
  <2>2. CASE \/ BeginRCONTick
             \/ StopRCONTick
             \/ \E s \in Servers : LeaveServerUp(s) \/ ShutDownReplyLost(s)
             \/ EndRCONTick
             \/ SaveRCONTickFails
    BY <2>2, RemoteFrame DEF BeginRCONTick, StopRCONTick, LeaveServerUp,
                             ShutDownReplyLost, EndRCONTick, SaveRCONTickFails
  <2> QED BY <1>5, <2>1, <2>2 DEF RCONStep
<1>6. ASSUME LifeStep PROVE RemoteInv'
  BY <1>6, RemoteFrame DEF LifeStep, Signal, Stop, Start, Crash, Boot
<1>7. CASE TickClock \/ (\E m \in Mods : PublishMod(m)) \/ CalmDown
  BY <1>7, RemoteFrame DEF TickClock, PublishMod, CalmDown
<1>8. CASE UNCHANGED vars
  BY <1>8, RemoteFrame DEF vars
<1> QED BY <1>1, <1>2, <1>3, <1>4, <1>5, <1>6, <1>7, <1>8 DEF Next

-----------------------------------------------------------------------------
(* The theorems                                                            *)

LEMMA IndInvInit == Init => IndInv
<1> SUFFICES ASSUME Init PROVE IndInv
  OBVIOUS
<1> USE DEF Init
<1>1. TypeInv
  BY InitType
<1>2. \A m \in Mods : Folder(m) = NoSlug /\ Label(m) = 0
  BY DEF Folder, Label, ZeroMod
<1>3. NamesComeFromLists
  BY <1>2 DEF NamesComeFromLists, Named
<1>4. CopyOfServers
  BY DEF CopyOfServers, NoModJobs
<1>5. LocalInv
  BY <1>2 DEF LocalInv, BatchIsDue, VersionsArePublished, LabelledModsAreNamed,
              LocalFoldersFit, SwapFits, UpToDateModsHaveFolders, FitsFolder,
              NeedsLocalUpdate, Empty, ZeroMod, Label
<1>6. RemoteInv
  BY <1>2 DEF RemoteInv, SyncedNotAhead, SyncedIsWhole, JobsAreStale,
              ZeroServer, NoModJobs
<1> QED BY <1>1, <1>3, <1>4, <1>5, <1>6 DEF IndInv

\* The inductive invariant holds in every installation whose mods keep their
\* display names (without that, modlist.go:294 moves a folder under the
\* labels' feet: see the run of RenamedLists).
THEOREM IndInvAlways ==
  ASSUME FoldersAreStable
  PROVE  Spec => []IndInv
<1>1. IndInv /\ [Next]_vars => IndInv'
  BY TypeStep, NamesStep, CopyStep, LocalStep, RemoteStep DEF IndInv
<1> QED BY <1>1, IndInvInit, PTL DEF Spec

\* A server's entry in synced_mods is never a lie about the folder on it: for
\* every number of servers and mods, every interleaving, failure and crash.
THEOREM SyncedModsAreWholeAlways ==
  ASSUME FoldersAreStable
  PROVE  Spec => []SyncedModsAreWhole
<1>1. IndInv => SyncedModsAreWhole
  BY DEF IndInv, RemoteInv, SyncedIsWhole, SyncedModsAreWhole
<1> QED BY <1>1, IndInvAlways, PTL

\* A mod that is not due for a download has a whole local copy, not older
\* than its local_updated_at.
THEOREM LocalCopiesAreHonestAlways ==
  ASSUME FoldersAreStable
  PROVE  Spec => []LocalCopiesAreHonest
<1>1. ASSUME IndInv PROVE LocalCopiesAreHonest
  <2>1. SUFFICES ASSUME NEW m \in Mods, ~NeedsLocalUpdate(mods[m])
                 PROVE  Covers(local[Folder(m)], m, Label(m))
    BY DEF LocalCopiesAreHonest
  <2>2. Named(m) /\ local[Folder(m)] # Missing
    BY <1>1, <2>1 DEF IndInv, LocalInv, LabelledModsAreNamed,
                      UpToDateModsHaveFolders, NeedsLocalUpdate, Label
  <2>3. FitsFolder(local[Folder(m)], Folder(m))
    BY <1>1, <2>2, NamedHasFolder DEF IndInv, LocalInv, LocalFoldersFit
  <2>4. local[Folder(m)].mod = m
    BY <1>1, <2>2, <2>3, FolderOfOneMod DEF IndInv, FitsFolder, Content
  <2> QED BY <2>2, <2>3, <2>4 DEF FitsFolder, Covers
<1> QED BY <1>1, IndInvAlways, PTL
=============================================================================
