------------------------- MODULE UpdaterStageProofs -------------------------
(***************************************************************************)
(* Stages, marks and restarts, for every installation: the remaining       *)
(* safety properties of UpdaterProperties.                                 *)
(***************************************************************************)
EXTENDS UpdaterSyncProofs

-----------------------------------------------------------------------------
(* Steps that change records of servers                                    *)

ServerGoroutine(s) == \/ SkipServer(s)
                      \/ RefuseServer(s)
                      \/ NothingToSync(s)
                      \/ DialServerFails(s)
                      \/ DialServer(s)
                      \/ FinishServer(s)

\* All the steps after which a record of a server, of the disk or the copy, or
\* what a server runs may be another.
LEMMA RecordsChange ==
  ASSUME [Next]_vars
  PROVE  \/ UNCHANGED <<servers, st, job, loaded>>
         \/ \E s \in Servers : PollServer(s)
         \/ \E m \in Mods : SaveDownloadedMod(m)
         \/ BeginSync
         \/ \E s \in Servers : ServerGoroutine(s)
         \/ \E s \in Servers, m \in Mods : SyncMod(s, m)
         \/ EndSync
         \/ SaveSyncFails
         \/ \E s \in Servers : ShutDownServer(s) \/ ShutDownReplyLost(s)
         \/ EndRCONTick
         \/ SaveRCONTickFails
         \/ Boot
<1> USE DEF disk, jobs
<1> DEFINE Same == UNCHANGED <<servers, st, job, loaded>>
<1>1. ASSUME ModlistStep PROVE Same \/ \E s \in Servers : PollServer(s)
  BY <1>1 DEF ModlistStep, BeginModlistPoll, PollServerFails, EndModlistPoll
<1>2. ASSUME NEW found \in SUBSET Mods, WorkshopPoll(found) PROVE Same
  BY <1>2 DEF WorkshopPoll
<1>3. ASSUME SteamStep PROVE Same \/ \E m \in Mods : SaveDownloadedMod(m)
  BY <1>3 DEF SteamStep, SteamCMDFails, SaveDownloadedModFails,
              NothingDownloaded, MirrorBackup, MirrorSwap, MirrorSwapFails
<1>4. ASSUME SyncStep
      PROVE  \/ Same \/ BeginSync \/ EndSync \/ SaveSyncFails
             \/ \E s \in Servers : ServerGoroutine(s)
             \/ \E s \in Servers, m \in Mods : SyncMod(s, m)
  <2>1. ASSUME NEW s \in Servers, NEW m \in Mods, \/ SkipMod(s, m)
                                                  \/ StartMod(s, m)
                                                  \/ StartModFails(s, m)
                                                  \/ SyncModFails(s, m)
        PROVE  Same
    BY <2>1 DEF SkipMod, StartMod, StartModFails, SyncModFails
  <2> QED BY <1>4, <2>1 DEF SyncStep, ServerGoroutine
<1>5. ASSUME RCONStep
      PROVE  \/ Same \/ EndRCONTick \/ SaveRCONTickFails
             \/ \E s \in Servers : ShutDownServer(s) \/ ShutDownReplyLost(s)
  BY <1>5 DEF RCONStep, BeginRCONTick, StopRCONTick, LeaveServerUp
<1>6. ASSUME LifeStep PROVE Same \/ Boot
  BY <1>6 DEF LifeStep, Signal, Stop, Start, Crash
<1>7. CASE TickClock \/ (\E m \in Mods : PublishMod(m)) \/ CalmDown
  BY <1>7 DEF TickClock, PublishMod, CalmDown
<1>8. CASE UNCHANGED vars
  BY <1>8 DEF vars
<1> QED BY <1>1, <1>2, <1>3, <1>4, <1>5, <1>6, <1>7, <1>8 DEF Next

\* What the goroutine of one server does to the others: nothing.
LEMMA GoroutineKeepsOthers ==
  ASSUME TypeInv, NEW s \in Servers, ServerGoroutine(s)
  PROVE  /\ phase = "sync" /\ phase' = "sync"
         /\ job[s] \in {"queued", "busy"}
         /\ UNCHANGED <<servers, mods, loaded, ctxDone>>
         /\ \A r \in Servers \ {s} : /\ st'[r] = st[r] /\ job'[r] = job[r]
                                     /\ modJob'[r] = modJob[r]
  BY DEF ServerGoroutine, SkipServer, RefuseServer, NothingToSync, DialServerFails,
         DialServer, FinishServer, EndServer, TypeInv, TypeOK, disk

\* And to its own: one of four outcomes.
LEMMA GoroutineOutcome ==
  ASSUME TypeInv, NEW s \in Servers, ServerGoroutine(s)
  PROVE  \/ /\ job'[s] = "done" /\ st'[s] = st[s]
            /\ job[s] = "queued" /\ ctxDone
         \/ job'[s] = "failed" /\ st'[s] = SyncError(st[s])
         \/ job'[s] = "done" /\ st'[s] = StartCountdown(st[s], now)
         \/ job'[s] = "busy" /\ st'[s] = [st[s] EXCEPT !.stage = "syncing"]
<1> USE DEF TypeInv, TypeOK, EndServer
<1>1. CASE SkipServer(s)
  BY <1>1 DEF SkipServer
<1>2. CASE RefuseServer(s) \/ DialServerFails(s)
  BY <1>2 DEF RefuseServer, DialServerFails
<1>3. CASE NothingToSync(s)
  BY <1>3 DEF NothingToSync
<1>4. CASE DialServer(s)
  BY <1>4 DEF DialServer
<1>5. CASE FinishServer(s)
  BY <1>5 DEF FinishServer
<1> QED BY <1>1, <1>2, <1>3, <1>4, <1>5 DEF ServerGoroutine

-----------------------------------------------------------------------------
(* Stages                                                                  *)

\* What handlers make of a record whose stage fits.
LEMMA OutcomeFits ==
  ASSUME NEW srv \in ServerState, StageFits(srv)
  PROVE  /\ \A list \in Modlists : StageFits(ApplyPollResult(srv, list))
         /\ StageFits([srv EXCEPT !.needsModUpdate = TRUE, !.stage = "planning"])
         /\ StageFits(ShutdownSent(srv))
<1>1. ASSUME NEW list \in Modlists PROVE StageFits(ApplyPollResult(srv, list))
  BY DEF StageFits, ApplyPollResult, ServerState
<1>2. StageFits([srv EXCEPT !.needsModUpdate = TRUE, !.stage = "planning"])
  BY DEF StageFits, ServerState
<1>3. StageFits(ShutdownSent(srv))
  BY DEF StageFits, ShutdownSent, ServerState
<1> QED BY <1>1, <1>2, <1>3

\* A countdown fits whatever was before it: its deadline is not the zero time.
LEMMA CountdownFits ==
  ASSUME NEW srv \in ServerState, NEW t \in Nat \ {0}
  PROVE  StageFits(StartCountdown(srv, t))
<1>1. t + Grace # 0
  BY GraceIsPositive
<1> QED BY <1>1 DEF StageFits, StartCountdown, ServerState

\* No step saves a stage that contradicts the flags.
LEMMA StageStep ==
  ASSUME TypeInv, CopyOfServers, StageInv, [Next]_vars
  PROVE  StageInv'
<1> USE DEF StageInv, MayBeSaved
<1>0. /\ servers \in [Servers -> ServerState] /\ st \in [Servers -> ServerState]
      /\ now \in Nat \ {0}
      /\ \A s \in Servers : NoJobs[s] = "none"
  BY DEF TypeInv, TypeOK, NoJobs
<1>1. CASE UNCHANGED <<servers, st, job, loaded>>
  BY <1>1
<1>2. ASSUME NEW s \in Servers, PollServer(s) PROVE StageInv'
  <2>1. PICK list \in Modlists : servers' = [servers EXCEPT ![s] = ApplyPollResult(@, list)]
    BY <1>2 DEF PollServer
  <2> QED BY <1>0, <1>2, <2>1, OutcomeFits DEF PollServer
<1>3. ASSUME NEW m \in Mods, SaveDownloadedMod(m) PROVE StageInv'
  BY <1>0, <1>3, OutcomeFits DEF SaveDownloadedMod, MarkServersUsingModForPlanning
<1>4. CASE BeginSync
  BY <1>4 DEF BeginSync, CopyOfServers, disk
<1>5. ASSUME NEW s \in Servers, ServerGoroutine(s) PROVE StageInv'
  <2>1. MayBeSaved(s)' => StageFits(st'[s])
    <3>1. CASE job'[s] = "done" /\ st'[s] = st[s] /\ job[s] = "queued"
      BY <3>1
    <3>2. CASE job'[s] = "done" /\ st'[s] = StartCountdown(st[s], now)
      BY <1>0, <3>2, CountdownFits
    <3> QED BY <1>5, <3>1, <3>2, GoroutineOutcome
  <2> QED BY <1>5, <2>1, GoroutineKeepsOthers
<1>6. ASSUME NEW s \in Servers, NEW m \in Mods, SyncMod(s, m) PROVE StageInv'
  <2>1. job[s] = "busy" /\ UNCHANGED <<servers, job>>
    BY <1>6 DEF SyncMod, CopyOfServers, disk
  <2>2. \A r \in Servers \ {s} : st'[r] = st[r]
    BY <1>0, <1>6 DEF SyncMod
  <2> QED BY <2>1, <2>2
<1>7. CASE EndSync
  <2>1. \A s \in Servers : StageFits(SyncResult[s])
    BY <1>7 DEF EndSync, AllServersJoined, SyncResult, JobStates, TypeInv, TypeOK
  <2> QED BY <1>7, <2>1 DEF EndSync
<1>8. CASE SaveSyncFails \/ SaveRCONTickFails \/ Boot
  BY <1>8 DEF SaveSyncFails, SaveRCONTickFails, Boot, disk
<1>9. ASSUME NEW s \in Servers, ShutDownServer(s) \/ ShutDownReplyLost(s)
      PROVE  StageInv'
  <2>1. StageFits(ShutdownSent(st[s])) \/ ~MayBeSaved(s)
    BY <1>0, OutcomeFits
  <2> QED BY <1>0, <1>9, <2>1 DEF ShutDownServer, ShutDownReplyLost, disk, jobs
<1>10. CASE EndRCONTick
  <2>1. job = NoJobs
    BY <1>10 DEF EndRCONTick, CopyOfServers
  <2>2. servers' = st /\ st' = st /\ job' = job
    BY <1>10 DEF EndRCONTick, jobs
  <2> QED BY <1>0, <2>1, <2>2
<1> QED BY <1>1, <1>2, <1>3, <1>4, <1>5, <1>6, <1>7, <1>8, <1>9, <1>10,
           RecordsChange

\* The first state's records fit, and there is no copy that differs.
LEMMA StageInit == Init => StageInv /\ CopyOfServers
<1> SUFFICES ASSUME Init PROVE StageInv /\ CopyOfServers
  OBVIOUS
<1>1. StageFits(ZeroServer)
  BY DEF StageFits, ZeroServer
<1>2. StageInv
  BY <1>1 DEF Init, StageInv
<1>3. CopyOfServers
  BY DEF Init, CopyOfServers, NoJobs, NoModJobs
<1> QED BY <1>2, <1>3

\* Every state is as the disk and the copy say, with or without graceful stops
\* and whatever the folders are called.
LEMMA StageInvAlways == Spec => [](TypeInv /\ CopyOfServers /\ StageInv)
<1>1. Init => TypeInv /\ CopyOfServers /\ StageInv
  BY InitType, StageInit
<1>2. TypeInv /\ CopyOfServers /\ StageInv /\ [Next]_vars
        => (TypeInv /\ CopyOfServers /\ StageInv)'
  BY TypeStep, CopyStep, StageStep
<1> QED BY <1>1, <1>2, PTL DEF Spec

\* The stage on disk and the two flags never contradict each other, though
\* four handlers write some of them each.
THEOREM StagesMatchFlagsAlways == Spec => []StagesMatchFlags
<1>1. StageInv => StagesMatchFlags
  BY DEF StageInv, StageFits, StagesMatchFlags
<1> QED BY <1>1, StageInvAlways, PTL

-----------------------------------------------------------------------------
(* Restarts                                                                *)

\* A tick goes on with servers that are as the disk says, by a clock that is
\* not ahead.
LEMMA TickStep ==
  ASSUME TypeInv, CopyOfServers, TickInv, [Next]_vars
  PROVE  TickInv'
<1> USE DEF TickInv
<1>0. /\ st \in [Servers -> ServerState]
      /\ now \in Nat /\ tickNow \in Nat /\ todo \subseteq Servers
  BY DEF TypeInv, TypeOK
<1>1. CASE BeginRCONTick
  BY <1>0, <1>1 DEF BeginRCONTick, CopyOfServers, disk, env
<1>2. CASE \/ StopRCONTick
           \/ \E s \in Servers : LeaveServerUp(s) \/ ShutDownReplyLost(s)
  BY <1>0, <1>2 DEF StopRCONTick, LeaveServerUp, ShutDownReplyLost, disk, env
<1>3. ASSUME NEW s \in Servers, ShutDownServer(s) PROVE TickInv'
  BY <1>0, <1>3 DEF ShutDownServer, disk, env
<1>4. CASE EndRCONTick \/ SaveRCONTickFails
  BY <1>4 DEF EndRCONTick, SaveRCONTickFails
<1>5. CASE TickClock
  BY <1>0, <1>5 DEF TickClock, disk
<1>6. CASE (\E m \in Mods : PublishMod(m)) \/ CalmDown \/ UNCHANGED vars
  BY <1>6 DEF PublishMod, CalmDown, vars, disk
<1>7. CASE ModlistStep
  BY <1>7 DEF ModlistStep, BeginModlistPoll, PollServer, PollServerFails, EndModlistPoll
<1>8. CASE SteamStep
  BY <1>8 DEF SteamStep, SteamCMDFails, SaveDownloadedModFails, NothingDownloaded,
              MirrorBackup, MirrorSwap, MirrorSwapFails, SaveDownloadedMod,
              EndBatchWithError
<1>9. CASE SyncStep
  <2>1. ASSUME NEW s \in Servers, NEW m \in Mods, \/ SkipMod(s, m)
                                                  \/ StartMod(s, m)
                                                  \/ StartModFails(s, m)
                                                  \/ SyncModFails(s, m)
                                                  \/ SyncMod(s, m)
        PROVE  phase' = "sync"
    BY <2>1 DEF SkipMod, StartMod, StartModFails, SyncModFails, SyncMod
  <2>2. ASSUME NEW s \in Servers, ServerGoroutine(s) PROVE phase' = "sync"
    BY <2>2, GoroutineKeepsOthers
  <2>3. CASE BeginSync \/ EndSync \/ SaveSyncFails
    BY <2>3 DEF BeginSync, EndSync, SaveSyncFails
  <2> QED BY <1>9, <2>1, <2>2, <2>3 DEF SyncStep, ServerGoroutine
<1>10. CASE LifeStep
  BY <1>10 DEF LifeStep, Signal, Stop, Start, Crash, Boot, disk, env
<1>11. ASSUME NEW found \in SUBSET Mods, WorkshopPoll(found) PROVE TickInv'
  BY <1>11 DEF WorkshopPoll
<1> QED BY <1>1, <1>2, <1>3, <1>4, <1>5, <1>6, <1>7, <1>8, <1>9, <1>10, <1>11
        DEF Next, RCONStep

\* No server restarts before the deadline that was saved for it.
THEOREM NoEarlyRestartAlways == Spec => NoEarlyRestart
<1> DEFINE Inv == TypeInv /\ CopyOfServers /\ TickInv
           Early == \A s \in Servers : loaded'[s] # loaded[s] =>
                       /\ servers[s].needsShutdown
                       /\ servers[s].shutdownDeadlineAt <= now
<1>1. Init => Inv
  BY InitType, StageInit DEF Init, TickInv
<1>2. Inv /\ [Next]_vars => Inv'
  BY TypeStep, CopyStep, TickStep
<1>3. ASSUME Inv, [Next]_vars PROVE Early
  <2>1. ASSUME NEW s \in Servers, ShutDownServer(s) \/ ShutDownReplyLost(s) PROVE Early
    <3>1. /\ servers[s].needsShutdown /\ st[s] = servers[s] /\ tickNow <= now
          /\ ~CountdownRunning(st[s], tickNow)
      BY <1>3, <2>1 DEF TickInv, ShutDownServer, ShutDownReplyLost
    <3>2. st[s].shutdownDeadlineAt \in Nat /\ now \in Nat /\ tickNow \in Nat
      BY <1>3 DEF TypeInv, TypeOK, ServerState
    <3>3. servers[s].shutdownDeadlineAt <= now
      BY <3>1, <3>2 DEF CountdownRunning
    <3>4. \A r \in Servers \ {s} : loaded'[r] = loaded[r]
      BY <1>3, <2>1 DEF ShutDownServer, ShutDownReplyLost, TypeInv, TypeOK
    <3> QED BY <3>1, <3>3, <3>4
  <2>2. CASE loaded' = loaded
    BY <2>2
  <2>3. ASSUME NEW s \in Servers, \/ PollServer(s)
                                  \/ ServerGoroutine(s)
                                  \/ \E m \in Mods : SyncMod(s, m)
        PROVE  loaded' = loaded
    BY <1>3, <2>3, GoroutineKeepsOthers DEF PollServer, SyncMod
  <2>4. CASE \/ (\E m \in Mods : SaveDownloadedMod(m)) \/ BeginSync \/ EndSync
             \/ SaveSyncFails \/ EndRCONTick \/ SaveRCONTickFails \/ Boot
    BY <2>4 DEF SaveDownloadedMod, BeginSync, EndSync, SaveSyncFails, EndRCONTick,
                SaveRCONTickFails, Boot
  <2> QED BY <1>3, <2>1, <2>2, <2>3, <2>4, RecordsChange
<1>4. Spec => []Inv
  BY <1>1, <1>2, PTL DEF Spec
<1>5. Spec => [][Early]_vars
  BY <1>3, <1>4, PTL DEF Spec
<1> QED BY <1>5 DEF NoEarlyRestart

-----------------------------------------------------------------------------
(* Hashes of lists                                                         *)

\* What handlers make of a record whose hash fits.
LEMMA OutcomeHash ==
  ASSUME NEW srv \in ServerState, HashFits(srv)
  PROVE  /\ \A list \in Modlists : HashFits(ApplyPollResult(srv, list))
         /\ srv.lastModIDs # {} =>
               HashFits([srv EXCEPT !.needsModUpdate = TRUE, !.stage = "planning"])
         /\ HashFits(ShutdownSent(srv))
         /\ srv.lastModsetHash # NoHash =>
               \A t \in Nat :
                  /\ HashFits(StartCountdown(srv, t))
                  /\ StartCountdown(srv, t).lastModsetHash # NoHash
                  /\ HashFits(SyncError(srv))
                  /\ SyncError(srv).lastModsetHash # NoHash
                  /\ HashFits([srv EXCEPT !.stage = "syncing"])
                  /\ [srv EXCEPT !.stage = "syncing"].lastModsetHash # NoHash
<1>1. ASSUME NEW list \in Modlists PROVE HashFits(ApplyPollResult(srv, list))
  <2>1. DOMAIN list \in SUBSET Mods
    BY ModlistsNameFolders
  <2>2. /\ ApplyPollResult(srv, list).lastModsetHash = HashModset(DOMAIN list)
        /\ ApplyPollResult(srv, list).lastModIDs = DOMAIN list
    BY DEF ApplyPollResult, ServerState
  <2>3. HashModset(DOMAIN list) # NoHash
    BY <2>1, NoHashIsNoSet
  <2> QED BY <2>2, <2>3 DEF HashFits
<1>2. srv.lastModIDs # {} =>
         HashFits([srv EXCEPT !.needsModUpdate = TRUE, !.stage = "planning"])
  BY DEF HashFits, ServerState
<1>3. HashFits(ShutdownSent(srv))
  BY DEF HashFits, ShutdownSent, ServerState
<1>4. ASSUME srv.lastModsetHash # NoHash, NEW t \in Nat
      PROVE  /\ HashFits(StartCountdown(srv, t))
             /\ StartCountdown(srv, t).lastModsetHash # NoHash
             /\ HashFits(SyncError(srv))
             /\ SyncError(srv).lastModsetHash # NoHash
             /\ HashFits([srv EXCEPT !.stage = "syncing"])
             /\ [srv EXCEPT !.stage = "syncing"].lastModsetHash # NoHash
  BY <1>4 DEF HashFits, StartCountdown, SyncError, ServerState
<1> QED BY <1>1, <1>2, <1>3, <1>4

\* A server that was never polled is never marked, so never synced.
LEMMA HashStep ==
  ASSUME TypeInv, CopyOfServers, HashInv, [Next]_vars
  PROVE  HashInv'
<1> USE DEF HashInv
<1>0. /\ servers \in [Servers -> ServerState] /\ st \in [Servers -> ServerState]
      /\ now \in Nat
      /\ \A s \in Servers : NoJobs[s] = "none"
  BY DEF TypeInv, TypeOK, NoJobs
<1>1. CASE UNCHANGED <<servers, st, job, loaded>>
  BY <1>1
<1>2. ASSUME NEW s \in Servers, PollServer(s) PROVE HashInv'
  <2>1. PICK list \in Modlists : servers' = [servers EXCEPT ![s] = ApplyPollResult(@, list)]
    BY <1>2 DEF PollServer
  <2>2. st' = servers' /\ job' = NoJobs
    BY <1>2 DEF PollServer, CopyOfServers, jobs
  <2> QED BY <1>0, <2>1, <2>2, OutcomeHash
<1>3. ASSUME NEW m \in Mods, SaveDownloadedMod(m) PROVE HashInv'
  <2>1. st' = servers' /\ job' = NoJobs
    BY <1>3 DEF SaveDownloadedMod, CopyOfServers, jobs
  <2>2. \A s \in Servers : HashFits(servers'[s])
    BY <1>0, <1>3, OutcomeHash DEF SaveDownloadedMod, MarkServersUsingModForPlanning
  <2> QED BY <1>0, <2>1, <2>2
<1>4. CASE BeginSync
  BY <1>0, <1>4 DEF BeginSync, CopyOfServers, disk, HashFits
<1>5. ASSUME NEW s \in Servers, ServerGoroutine(s) PROVE HashInv'
  <2>1. st[s].lastModsetHash # NoHash
    BY <1>5, GoroutineKeepsOthers
  <2>2. HashFits(st'[s]) /\ st'[s].lastModsetHash # NoHash
    <3>1. st'[s] \in {st[s], SyncError(st[s]), StartCountdown(st[s], now),
                      [st[s] EXCEPT !.stage = "syncing"]}
      BY <1>5, GoroutineOutcome
    <3>2. HashFits(st[s]) /\ st[s] \in ServerState
      BY <1>0
    <3> QED BY <1>0, <2>1, <3>1, <3>2, OutcomeHash
  <2> QED BY <1>5, <2>2, GoroutineKeepsOthers
<1>6. ASSUME NEW s \in Servers, NEW m \in Mods, SyncMod(s, m) PROVE HashInv'
  <2>1. job[s] = "busy" /\ UNCHANGED <<servers, job>>
    BY <1>6 DEF SyncMod, CopyOfServers, disk
  <2>2. /\ \A r \in Servers \ {s} : st'[r] = st[r]
        /\ st'[s].lastModsetHash = st[s].lastModsetHash
        /\ st'[s].lastModIDs = st[s].lastModIDs
    BY <1>0, <1>6 DEF SyncMod, ServerState
  <2> QED BY <2>1, <2>2 DEF HashFits
<1>7. CASE EndSync
  BY <1>0, <1>7 DEF EndSync, SyncResult
<1>8. CASE SaveSyncFails \/ SaveRCONTickFails \/ Boot
  BY <1>0, <1>8 DEF SaveSyncFails, SaveRCONTickFails, Boot, disk, jobs, CopyOfServers
<1>9. ASSUME NEW s \in Servers, ShutDownServer(s) \/ ShutDownReplyLost(s)
      PROVE  HashInv'
  <2>1. HashFits(ShutdownSent(st[s]))
    BY <1>0, OutcomeHash
  <2>2. ShutdownSent(st[s]).lastModsetHash = st[s].lastModsetHash
    BY <1>0 DEF ShutdownSent, ServerState
  <2> QED BY <1>0, <1>9, <2>1, <2>2 DEF ShutDownServer, ShutDownReplyLost, disk, jobs
<1>10. CASE EndRCONTick
  BY <1>10 DEF EndRCONTick, jobs
<1> QED BY <1>1, <1>2, <1>3, <1>4, <1>5, <1>6, <1>7, <1>8, <1>9, <1>10,
           RecordsChange

-----------------------------------------------------------------------------
(* Marks: without graceful stops, servers are synced or marked             *)

\* What a step may do during the SFTP phase.
LEMMA SyncPhaseSteps ==
  ASSUME phase = "sync", [Next]_vars
  PROVE  \/ SyncStep
         \/ Boot
         \/ UNCHANGED <<servers, st, job, modJob, mods, loaded>>
<1> USE DEF disk, jobs
<1>1. ~ModlistStep
  BY DEF ModlistStep, BeginModlistPoll, PollServer, PollServerFails, EndModlistPoll
<1>2. ~SteamStep
  BY DEF SteamStep, SteamCMDFails, SaveDownloadedModFails, NothingDownloaded,
         MirrorBackup, MirrorSwap, MirrorSwapFails, SaveDownloadedMod
<1>3. ~RCONStep
  BY DEF RCONStep, BeginRCONTick, StopRCONTick, LeaveServerUp, ShutDownServer,
         ShutDownReplyLost, EndRCONTick, SaveRCONTickFails
<1>4. ~\E found \in SUBSET Mods : WorkshopPoll(found)
  BY DEF WorkshopPoll
<1>5. ASSUME LifeStep
      PROVE  Boot \/ UNCHANGED <<servers, st, job, modJob, mods, loaded>>
  BY <1>5 DEF LifeStep, Signal, Stop, Start, Crash
<1>6. ASSUME TickClock \/ (\E m \in Mods : PublishMod(m)) \/ CalmDown
      PROVE  UNCHANGED <<servers, st, job, modJob, mods, loaded>>
  BY <1>6 DEF TickClock, PublishMod, CalmDown
<1>7. ASSUME UNCHANGED vars
      PROVE  UNCHANGED <<servers, st, job, modJob, mods, loaded>>
  BY <1>7 DEF vars
<1> QED BY <1>1, <1>2, <1>3, <1>4, <1>5, <1>6, <1>7 DEF Next

\* Goroutines start to work only in the SFTP phase.
LEMMA NobodyBusyOutside ==
  ASSUME TypeInv, CopyOfServers, phase # "sync", [Next]_vars
  PROVE  /\ \A s \in Servers : job'[s] # "busy"
         /\ modJob' = NoModJobs
<1>1. CopyOfServers'
  BY CopyStep
<1>2. CASE phase' # "sync"
  BY <1>1, <1>2 DEF CopyOfServers, NoJobs
<1>3. CASE BeginSync
  BY <1>3 DEF BeginSync, CopyOfServers
<1>4. CASE job' = job /\ modJob' = modJob
  BY <1>4 DEF CopyOfServers, NoJobs
<1>5. ASSUME SyncStep PROVE BeginSync
  <2>1. ASSUME NEW s \in Servers, ServerGoroutine(s) PROVE FALSE
    BY <2>1, GoroutineKeepsOthers
  <2>2. ASSUME NEW s \in Servers, NEW m \in Mods, \/ SkipMod(s, m)
                                                  \/ StartMod(s, m)
                                                  \/ StartModFails(s, m)
                                                  \/ SyncModFails(s, m)
                                                  \/ SyncMod(s, m)
        PROVE  FALSE
    BY <2>2 DEF SkipMod, StartMod, StartModFails, SyncModFails, SyncMod
  <2> QED BY <1>5, <2>1, <2>2 DEF SyncStep, ServerGoroutine, EndSync, SaveSyncFails
<1>6. ASSUME ModlistStep \/ RCONStep \/ \E found \in SUBSET Mods : WorkshopPoll(found)
      PROVE  job' = job /\ modJob' = modJob
  BY <1>6 DEF ModlistStep, BeginModlistPoll, PollServer, PollServerFails, EndModlistPoll,
              RCONStep, BeginRCONTick, StopRCONTick, LeaveServerUp, ShutDownServer,
              ShutDownReplyLost, EndRCONTick, SaveRCONTickFails, WorkshopPoll, jobs
<1>7. ASSUME SteamStep PROVE job' = job /\ modJob' = modJob
  BY <1>7 DEF SteamStep, SteamCMDFails, SaveDownloadedModFails, NothingDownloaded,
              MirrorBackup, MirrorSwap, MirrorSwapFails, SaveDownloadedMod, jobs
<1>8. ASSUME LifeStep PROVE (job' = job /\ modJob' = modJob) \/ phase' # "sync"
  BY <1>8 DEF LifeStep, Signal, Stop, Start, Crash, Boot, jobs
<1>9. ASSUME \/ TickClock \/ (\E m \in Mods : PublishMod(m)) \/ CalmDown
             \/ UNCHANGED vars
      PROVE  job' = job /\ modJob' = modJob
  BY <1>9 DEF TickClock, PublishMod, CalmDown, vars, jobs
<1> QED BY <1>2, <1>3, <1>4, <1>5, <1>6, <1>7, <1>8, <1>9 DEF Next

\* A step of a mod's goroutine.
ModGoroutine(s, m) == \/ SkipMod(s, m)
                      \/ StartMod(s, m)
                      \/ StartModFails(s, m)
                      \/ SyncModFails(s, m)
                      \/ SyncMod(s, m)

\* It is about this mod of this server only, whose record it changes when the
\* mod is synced.
LEMMA ModGoroutineOutcome ==
  ASSUME TypeInv, CopyOfServers, NEW s \in Servers, NEW m \in Mods, ModGoroutine(s, m)
  PROVE  /\ job[s] = "busy" /\ UNCHANGED <<servers, mods, job, ctxDone>>
         /\ \A r \in Servers \ {s} : st'[r] = st[r] /\ modJob'[r] = modJob[r]
         /\ \A n \in Mods \ {m} : /\ modJob'[s][n] = modJob[s][n]
                                  /\ st'[s].syncedMods[n] = st[s].syncedMods[n]
         /\ st'[s].lastModIDs = st[s].lastModIDs
         /\ \/ modJob'[s][m] \in {"busy", "failed"}
            \/ modJob'[s][m] = "skipped" /\ ctxDone
            \/ modJob'[s][m] = "synced" /\ st'[s].syncedMods[m] = Label(m)
<1> USE DEF TypeInv, TypeOK, disk
<1>1. job[s] = "busy" /\ UNCHANGED <<servers, mods, job, ctxDone>>
  BY DEF ModGoroutine, SkipMod, StartMod, StartModFails, SyncModFails, SyncMod,
         CopyOfServers
<1>2. CASE ~SyncMod(s, m)
  <2>1. st' = st
    BY <1>2 DEF ModGoroutine, SkipMod, StartMod, StartModFails, SyncModFails
  <2>2. \/ modJob' = [modJob EXCEPT ![s][m] = "busy"]
        \/ modJob' = [modJob EXCEPT ![s][m] = "failed"]
        \/ modJob' = [modJob EXCEPT ![s][m] = "skipped"] /\ ctxDone
    BY <1>2 DEF ModGoroutine, SkipMod, StartMod, StartModFails, SyncModFails
  <2> QED BY <1>1, <2>1, <2>2
<1>3. CASE SyncMod(s, m)
  <2>1. modJob' = [modJob EXCEPT ![s][m] = "synced"]
    BY <1>3 DEF SyncMod
  <2>2. /\ st[s] \in ServerState
        /\ st'[s] = [st[s] EXCEPT !.syncedMods[m] = mods[m].localUpdatedAt]
        /\ \A r \in Servers \ {s} : st'[r] = st[r]
    BY <1>3 DEF SyncMod
  <2>3. /\ st'[s].lastModIDs = st[s].lastModIDs
        /\ st'[s].syncedMods[m] = Label(m)
        /\ \A n \in Mods \ {m} : st'[s].syncedMods[n] = st[s].syncedMods[n]
    BY <2>2 DEF ServerState, Label
  <2> QED BY <1>1, <2>1, <2>2, <2>3
<1> QED BY <1>2, <1>3

\* Only SIGTERM and SIGINT cancel ctx.
LEMMA CtxStaysOpen ==
  ASSUME ~Graceful, ~ctxDone, [Next]_vars
  PROVE  ~ctxDone'
<1>1. ASSUME ModlistStep \/ SteamStep PROVE ctxDone' = ctxDone
  BY <1>1 DEF ModlistStep, BeginModlistPoll, PollServer, PollServerFails, EndModlistPoll,
              SteamStep, SteamCMDFails, SaveDownloadedModFails, NothingDownloaded,
              MirrorBackup, MirrorSwap, MirrorSwapFails, SaveDownloadedMod
<1>2. ASSUME SyncStep PROVE ctxDone' = ctxDone
  BY <1>2 DEF SyncStep, BeginSync, EndSync, SaveSyncFails, SkipServer, RefuseServer,
              NothingToSync, DialServerFails, DialServer, FinishServer, SkipMod, StartMod,
              StartModFails, SyncModFails, SyncMod
<1>3. ASSUME RCONStep PROVE ctxDone' = ctxDone
  BY <1>3 DEF RCONStep, BeginRCONTick, StopRCONTick, LeaveServerUp, ShutDownServer,
              ShutDownReplyLost, EndRCONTick, SaveRCONTickFails
<1>4. ASSUME LifeStep PROVE ~ctxDone'
  BY <1>4 DEF LifeStep, Signal, Stop, Start, Crash, Boot
<1>5. ASSUME \/ TickClock \/ (\E m \in Mods : PublishMod(m)) \/ CalmDown
             \/ (\E found \in SUBSET Mods : WorkshopPoll(found)) \/ UNCHANGED vars
      PROVE  ctxDone' = ctxDone
  BY <1>5 DEF TickClock, PublishMod, CalmDown, WorkshopPoll, vars
<1> QED BY <1>1, <1>2, <1>3, <1>4, <1>5 DEF Next

\* A goroutine that dials starts one for every mod that is not synced.
LEMMA DialCoversList ==
  ASSUME TypeInv, CopyOfServers, NEW s \in Servers, DialServer(s)
  PROVE  \A m \in st'[s].lastModIDs :
            /\ m \in Mods /\ Label(m) # 0
            /\ modJob'[s][m] \in {"none", "synced"} => st'[s].syncedMods[m] = Label(m)
<1> USE DEF TypeInv, TypeOK
<1>1. /\ st'[s] = [st[s] EXCEPT !.stage = "syncing"]
      /\ modJob'[s] = [m \in Mods |-> IF m \in ModsToSync(st[s], mods)
                                      THEN "queued" ELSE "none"]
      /\ NeverDownloaded(st[s], mods) = {}
      /\ st[s] = servers[s]
  BY DEF DialServer, EndServer, CopyOfServers
<1>2. /\ st'[s].lastModIDs = st[s].lastModIDs
      /\ st'[s].syncedMods = st[s].syncedMods
      /\ st[s].lastModIDs \subseteq Mods
  BY <1>1 DEF ServerState
<1>3. SUFFICES ASSUME NEW m \in st[s].lastModIDs
               PROVE  /\ m \in Mods /\ Label(m) # 0
                      /\ modJob'[s][m] \in {"none", "synced"} =>
                            st[s].syncedMods[m] = Label(m)
  BY <1>2
<1>4. m \in Mods /\ m \in KnownMods(st[s], mods)
  BY <1>1, <1>2, <1>3 DEF ListedModsAreNamed, Named, Folder, KnownMods
<1>5. Label(m) # 0
  BY <1>1, <1>4 DEF NeverDownloaded, Label
<1>6. m \in ModsToSync(st[s], mods) \/ st[s].syncedMods[m] = Label(m)
  BY <1>4 DEF ModsToSync, Label
<1> QED BY <1>1, <1>4, <1>5, <1>6

\* No step leaves a mod of a busy server to nobody.
LEMMA BusyStep ==
  ASSUME ~Graceful, TypeInv, CopyOfServers, NothingSkipped, BusyServersSync, [Next]_vars
  PROVE  NothingSkipped' /\ BusyServersSync'
<1>0. ~ctxDone /\ ~ctxDone'
  BY CtxStaysOpen DEF NothingSkipped
<1>1. CASE phase # "sync"
  <2>1. (\A s \in Servers : job'[s] # "busy") /\ modJob' = NoModJobs
    BY <1>1, NobodyBusyOutside
  <2> QED BY <1>0, <2>1 DEF NothingSkipped, BusyServersSync, NoModJobs
<1>2. CASE UNCHANGED <<servers, st, job, modJob, mods, loaded>>
  BY <1>0, <1>2 DEF NothingSkipped, BusyServersSync, Label
<1>3. CASE Boot \/ EndSync \/ SaveSyncFails
  <2>1. job' = NoJobs /\ modJob' = NoModJobs
    BY <1>3 DEF Boot, EndSync, SaveSyncFails
  <2> QED BY <1>0, <2>1 DEF NothingSkipped, BusyServersSync, NoJobs, NoModJobs
<1>4. ASSUME NEW s \in Servers, ServerGoroutine(s)
      PROVE  NothingSkipped' /\ BusyServersSync'
  <2>1. UNCHANGED <<mods, ctxDone>>
    BY <1>4, GoroutineKeepsOthers
  <2>2. CASE DialServer(s)
    <3>1. \A m \in Mods : modJob'[s][m] \in {"queued", "none"}
      BY <2>2 DEF DialServer, TypeInv, TypeOK
    <3> QED BY <1>0, <1>4, <2>1, <2>2, <3>1, DialCoversList, GoroutineKeepsOthers
            DEF NothingSkipped, BusyServersSync, Label
  <2>3. CASE ~DialServer(s)
    <3>1. modJob' = modJob /\ job'[s] # "busy"
      BY <1>4, <2>3 DEF ServerGoroutine, SkipServer, RefuseServer, NothingToSync,
                        DialServerFails, FinishServer, EndServer, TypeInv, TypeOK
    <3> QED BY <1>0, <1>4, <2>1, <3>1, GoroutineKeepsOthers
            DEF NothingSkipped, BusyServersSync, Label
  <2> QED BY <2>2, <2>3
<1>5. ASSUME NEW s \in Servers, NEW m \in Mods, ModGoroutine(s, m)
      PROVE  NothingSkipped' /\ BusyServersSync'
  <2>1. modJob'[s][m] # "skipped"
    BY <1>0, <1>5, ModGoroutineOutcome
  <2>2. NothingSkipped'
    BY <1>0, <1>5, <2>1, ModGoroutineOutcome DEF NothingSkipped
  <2>3. mods' = mods /\ job' = job /\ st'[s].lastModIDs = st[s].lastModIDs
    BY <1>5, ModGoroutineOutcome
  <2>4. ASSUME NEW n \in st[s].lastModIDs
        PROVE  /\ Label(n) # 0
               /\ modJob'[s][n] \in {"none", "synced"} =>
                     st'[s].syncedMods[n] = Label(n)
    <3>1. n \in Mods /\ job[s] = "busy"
      BY <1>5, ModGoroutineOutcome DEF TypeInv, TypeOK, ServerState
    <3>2. CASE n = m
      BY <1>0, <1>5, <3>1, <3>2, ModGoroutineOutcome DEF BusyServersSync
    <3>3. CASE n # m
      BY <1>5, <3>1, <3>3, ModGoroutineOutcome DEF BusyServersSync
    <3> QED BY <3>2, <3>3
  <2>5. BusyServersSync'
    BY <1>5, <2>3, <2>4, ModGoroutineOutcome DEF BusyServersSync, Label
  <2> QED BY <2>2, <2>5
<1>6. CASE phase = "sync" /\ SyncStep
  <2>1. ~BeginSync
    BY <1>6 DEF BeginSync
  <2> QED BY <1>3, <1>4, <1>5, <1>6, <2>1 DEF SyncStep, ServerGoroutine, ModGoroutine
<1> QED BY <1>1, <1>2, <1>3, <1>6, SyncPhaseSteps

\* A server whose goroutine ends well has every mod of its list.
LEMMA DoneMeansSynced ==
  ASSUME TypeInv, CopyOfServers, NothingSkipped, BusyServersSync,
         NEW s \in Servers, ServerGoroutine(s), job'[s] = "done"
  PROVE  /\ st'[s] = StartCountdown(st[s], now)
         /\ \A m \in st[s].lastModIDs : Label(m) # 0 /\ st[s].syncedMods[m] = Label(m)
<1> USE DEF TypeInv, TypeOK, EndServer
<1>1. CASE SkipServer(s)
  BY <1>1 DEF SkipServer, NothingSkipped
<1>2. CASE RefuseServer(s) \/ DialServerFails(s) \/ DialServer(s)
  BY <1>2 DEF RefuseServer, DialServerFails, DialServer
<1>3. CASE NothingToSync(s)
  <2>1. /\ st'[s] = StartCountdown(st[s], now) /\ st[s] = servers[s]
        /\ NeverDownloaded(st[s], mods) = {} /\ ModsToSync(st[s], mods) = {}
    BY <1>3 DEF NothingToSync, CopyOfServers
  <2>2. ASSUME NEW m \in st[s].lastModIDs
        PROVE  Label(m) # 0 /\ st[s].syncedMods[m] = Label(m)
    <3>1. m \in Mods
      BY DEF ServerState
    <3>2. m \in KnownMods(st[s], mods)
      BY <2>1, <3>1 DEF ListedModsAreNamed, Named, Folder, KnownMods
    <3> QED BY <2>1, <3>2 DEF NeverDownloaded, ModsToSync, Label
  <2> QED BY <2>1, <2>2
<1>4. CASE FinishServer(s)
  <2>1. /\ job[s] = "busy" /\ ~HadFailure(s)
        /\ st'[s] = StartCountdown(st[s], now)
        /\ \A m \in Mods : modJob[s][m] \notin {"queued", "busy"}
    BY <1>4 DEF FinishServer
  <2>2. \A m \in Mods : modJob[s][m] \in {"none", "synced"}
    BY <2>1 DEF HadFailure, NothingSkipped, ModJobStates
  <2>3. st[s].lastModIDs \subseteq Mods
    BY DEF ServerState
  <2> QED BY <2>1, <2>2, <2>3 DEF BusyServersSync
<1> QED BY <1>1, <1>2, <1>3, <1>4 DEF ServerGoroutine

\* Only a download labels a mod.
LEMMA LabelsKept ==
  ASSUME TypeInv, [Next]_vars, ~\E m \in Mods : SaveDownloadedMod(m)
  PROVE  \A m \in Mods : mods'[m].localUpdatedAt = mods[m].localUpdatedAt
<1> USE DEF TypeInv, TypeOK
<1>1. CASE mods' = mods
  BY <1>1
<1>2. CASE \E s \in Servers : PollServer(s)
  BY <1>2 DEF PollServer, NameMods, ModState
<1>3. CASE \E found \in SUBSET Mods : WorkshopPoll(found)
  BY <1>3 DEF WorkshopPoll, CheckedMod, ModState
<1> QED BY <1>1, <1>2, <1>3, ModsChange

\* A poll with another list marks the server; one with the same list, or the
\* first, finds nothing that would need a mark.
LEMMA PollMarks ==
  ASSUME NEW srv \in ServerState, HashFits(srv), Marked(srv), CountsDown(srv),
         NEW list \in Modlists
  PROVE  Marked(ApplyPollResult(srv, list)) /\ CountsDown(ApplyPollResult(srv, list))
<1> DEFINE new == ApplyPollResult(srv, list)
<1>1. /\ new.lastModIDs = DOMAIN list
      /\ new.syncedMods = srv.syncedMods
      /\ new.needsModUpdate = (srv.needsModUpdate \/ ModsetChanged(srv, list))
      /\ new.stage = IF ModsetChanged(srv, list) THEN "planning" ELSE srv.stage
      /\ DOMAIN list \subseteq Mods
  BY ModlistsNameFolders DEF ApplyPollResult, ServerState
<1>2. CASE ModsetChanged(srv, list)
  BY <1>1, <1>2 DEF Marked, CountsDown
<1>3. CASE srv.lastModsetHash = NoHash
  BY <1>1, <1>3 DEF Marked, CountsDown, HashFits, ModsetChanged
<1>4. CASE srv.lastModsetHash = HashModset(DOMAIN list) /\ srv.lastModsetHash # NoHash
  <2>1. HashModset(DOMAIN list) = HashModset(srv.lastModIDs)
    BY <1>4 DEF HashFits
  <2>2. DOMAIN list = srv.lastModIDs
    BY <2>1 DEF HashModset
  <2> QED BY <1>1, <1>4, <2>2 DEF Marked, CountsDown, ModsetChanged
<1> QED BY <1>2, <1>3, <1>4 DEF ModsetChanged

\* Every step keeps the marks that the records call for.
LEMMA MarkStep ==
  ASSUME ~Graceful, TypeInv, CopyOfServers, HashInv, MarkInv, [Next]_vars
  PROVE  MarkInv'
<1> DEFINE Fit(srv) == Marked(srv) /\ CountsDown(srv)
           FitInv == \A s \in Servers : /\ Fit(servers[s])
                                        /\ MayBeSaved(s) => Fit(st[s])
<1>0. /\ servers \in [Servers -> ServerState] /\ st \in [Servers -> ServerState]
      /\ now \in Nat
      /\ \A s \in Servers : NoJobs[s] = "none"
      /\ \A s \in Servers : /\ servers[s].lastModIDs \subseteq Mods
                            /\ st[s].lastModIDs \subseteq Mods
  BY DEF TypeInv, TypeOK, NoJobs, ServerState
<1>a. FitInv /\ NothingSkipped /\ BusyServersSync
  BY DEF MarkInv
<1>b. NothingSkipped' /\ BusyServersSync'
  BY <1>a, BusyStep
<1>c. SUFFICES FitInv'
  BY <1>b DEF MarkInv
<1>d. ASSUME NEW m \in Mods, SaveDownloadedMod(m) PROVE FitInv'
  <2>1. st' = servers' /\ servers' = MarkServersUsingModForPlanning(servers, m)
    BY <1>d DEF SaveDownloadedMod
  <2>2. \A n \in Mods \ {m} : mods'[n].localUpdatedAt = mods[n].localUpdatedAt
    BY <1>d DEF SaveDownloadedMod, TypeInv, TypeOK
  <2>3. ASSUME NEW s \in Servers, m \in servers[s].lastModIDs
        PROVE  servers'[s].needsModUpdate /\ servers'[s].stage = "planning"
    BY <1>0, <2>1, <2>3 DEF MarkServersUsingModForPlanning, ServerState
  <2>4. ASSUME NEW s \in Servers, m \notin servers[s].lastModIDs
        PROVE  servers'[s] = servers[s]
    BY <2>1, <2>4 DEF MarkServersUsingModForPlanning
  <2>5. ASSUME NEW s \in Servers PROVE Fit(servers[s])'
    <3>1. CASE m \in servers[s].lastModIDs
      BY <2>3, <3>1 DEF Marked, CountsDown
    <3>2. CASE m \notin servers[s].lastModIDs
      BY <1>0, <1>a, <2>2, <2>4, <3>2 DEF Marked, CountsDown, Label
    <3> QED BY <3>1, <3>2
  <2> QED BY <2>1, <2>5
<1>e. CASE ~\E m \in Mods : SaveDownloadedMod(m)
  <2>0. \A m \in Mods : mods'[m].localUpdatedAt = mods[m].localUpdatedAt
    BY <1>e, LabelsKept
  <2>k. ASSUME NEW s \in Servers
        PROVE  /\ servers'[s] = servers[s] => Fit(servers[s])'
               /\ st'[s] = servers[s] => Fit(st[s])'
               /\ servers'[s] = st[s] /\ MayBeSaved(s) => Fit(servers[s])'
               /\ st'[s] = st[s] /\ MayBeSaved(s) => Fit(st[s])'
    BY <1>0, <1>a, <2>0 DEF Marked, CountsDown, Label
  <2>1. CASE UNCHANGED <<servers, st, job, loaded>>
    BY <2>1, <2>k DEF MayBeSaved
  <2>2. ASSUME NEW s \in Servers, PollServer(s) PROVE FitInv'
    <3>1. PICK list \in Modlists : servers' = [servers EXCEPT ![s] = ApplyPollResult(@, list)]
      BY <2>2 DEF PollServer
    <3>2. Fit(ApplyPollResult(servers[s], list))
      BY <1>0, <1>a, PollMarks DEF HashInv
    <3>3. ApplyPollResult(servers[s], list).lastModIDs \subseteq Mods
      BY <1>0, ModlistsNameFolders DEF ApplyPollResult, ServerState
    <3>4. Fit(servers[s])'
      BY <1>0, <2>0, <3>1, <3>2, <3>3 DEF Marked, CountsDown, Label
    <3>5. st' = servers' /\ \A r \in Servers \ {s} : servers'[r] = servers[r]
      BY <2>2, <3>1 DEF PollServer
    <3> QED BY <2>k, <3>4, <3>5
  <2>4. CASE BeginSync
    BY <2>4, <2>k DEF BeginSync, CopyOfServers, disk
  <2>5. ASSUME NEW s \in Servers, ServerGoroutine(s) PROVE FitInv'
    <3>1. MayBeSaved(s)' => Fit(st[s])'
      <4>1. CASE job'[s] = "done"
        <5>1. /\ st'[s] = StartCountdown(st[s], now)
              /\ \A m \in st[s].lastModIDs :
                    Label(m) # 0 /\ st[s].syncedMods[m] = Label(m)
          BY <1>a, <2>5, <4>1, DoneMeansSynced
        <5>2. /\ st'[s].lastModIDs = st[s].lastModIDs
              /\ st'[s].syncedMods = st[s].syncedMods
          BY <1>0, <5>1 DEF StartCountdown, ServerState
        <5> QED BY <1>0, <2>0, <5>1, <5>2 DEF Marked, CountsDown, Label
      <4>2. CASE job'[s] \in {"failed", "busy"}
        BY <4>2 DEF MayBeSaved
      <4> QED BY <2>5, <4>1, <4>2, GoroutineOutcome
    <3> QED BY <2>5, <2>k, <3>1, GoroutineKeepsOthers DEF MayBeSaved
  <2>6. ASSUME NEW s \in Servers, NEW m \in Mods, SyncMod(s, m) PROVE FitInv'
    <3>1. ModGoroutine(s, m)
      BY <2>6 DEF ModGoroutine
    <3> QED BY <2>k, <3>1, ModGoroutineOutcome DEF MayBeSaved
  <2>7. CASE EndSync
    <3>1. \A s \in Servers : \/ servers'[s] = servers[s]
                             \/ servers'[s] = st[s] /\ MayBeSaved(s)
      BY <2>7 DEF EndSync, AllServersJoined, SyncResult, JobStates, TypeInv, TypeOK,
                  MayBeSaved
    <3>2. \A s \in Servers : Fit(servers[s])'
      BY <2>k, <3>1
    <3> QED BY <2>7, <3>2 DEF EndSync
  <2>8. CASE SaveSyncFails \/ SaveRCONTickFails \/ Boot
    BY <2>8, <2>k DEF SaveSyncFails, SaveRCONTickFails, Boot, disk
  <2>9. ASSUME NEW s \in Servers, ShutDownServer(s) \/ ShutDownReplyLost(s)
        PROVE  FitInv'
    <3>1. /\ UNCHANGED <<servers, job>> /\ MayBeSaved(s)
          /\ st'[s] \in {st[s], ShutdownSent(st[s])}
          /\ \A r \in Servers \ {s} : st'[r] = st[r]
      BY <1>0, <2>9 DEF ShutDownServer, ShutDownReplyLost, CopyOfServers, MayBeSaved,
                        disk, jobs
    <3>2. Fit(ShutdownSent(st[s]))
      BY <1>0, <1>a, <3>1 DEF ShutdownSent, ServerState, Marked, CountsDown
    <3>3. ShutdownSent(st[s]).lastModIDs = st[s].lastModIDs
      BY <1>0 DEF ShutdownSent, ServerState
    <3>4. st'[s] = ShutdownSent(st[s]) => Fit(st[s])'
      BY <1>0, <2>0, <3>2, <3>3 DEF Marked, CountsDown, Label
    <3> QED BY <2>k, <3>1, <3>4 DEF MayBeSaved
  <2>10. CASE EndRCONTick
    <3>1. servers' = st /\ st' = st /\ \A s \in Servers : MayBeSaved(s)
      BY <1>0, <2>10 DEF EndRCONTick, CopyOfServers, MayBeSaved
    <3> QED BY <2>k, <3>1
  <2> QED BY <1>e, <2>1, <2>2, <2>4, <2>5, <2>6, <2>7, <2>8, <2>9, <2>10, RecordsChange
<1> QED BY <1>d, <1>e

\* Nothing is listed at first, and nothing counts down.
LEMMA MarkInit == ~Graceful /\ Init => HashInv /\ MarkInv
<1> SUFFICES ASSUME Init PROVE HashInv /\ MarkInv
  OBVIOUS
<1>1. \A s \in Servers : /\ servers[s] = ZeroServer /\ st[s] = ZeroServer
                         /\ job[s] = "none"
                         /\ \A m \in Mods : modJob[s][m] = "none"
  BY DEF Init, NoJobs, NoModJobs
<1>2. HashFits(ZeroServer) /\ Marked(ZeroServer) /\ CountsDown(ZeroServer)
  BY DEF HashFits, Marked, CountsDown, ZeroServer
<1>3. ~ctxDone
  BY DEF Init
<1>4. HashInv
  BY <1>1, <1>2 DEF HashInv
<1> QED BY <1>1, <1>2, <1>3, <1>4 DEF MarkInv, NothingSkipped, BusyServersSync

\* Every state is marked as it has to be, whatever fails or crashes.
LEMMA MarkInvAlways ==
  ASSUME ~Graceful
  PROVE  Spec => [](TypeInv /\ CopyOfServers /\ HashInv /\ MarkInv)
<1>1. Init => TypeInv /\ CopyOfServers /\ HashInv /\ MarkInv
  BY InitType, StageInit, MarkInit
<1>2. TypeInv /\ CopyOfServers /\ HashInv /\ MarkInv /\ [Next]_vars
        => (TypeInv /\ CopyOfServers /\ HashInv /\ MarkInv)'
  BY TypeStep, CopyStep, HashStep, MarkStep
<1> QED BY <1>1, <1>2, PTL DEF Spec

\* A server that has an older version of a mod it lists stays marked until a
\* sync has brought it the local one.
THEOREM NoServerLeftBehindAlways ==
  ASSUME ~Graceful
  PROVE  Spec => []NoServerLeftBehind
<1>1. MarkInv => NoServerLeftBehind
  BY DEF MarkInv, Marked, NoServerLeftBehind
<1> QED BY <1>1, MarkInvAlways, PTL

\* A server counts down only with every mod it lists synced.
THEOREM CountdownMeansSyncedAlways ==
  ASSUME ~Graceful
  PROVE  Spec => []CountdownMeansSynced
<1>1. MarkInv => CountdownMeansSynced
  BY DEF MarkInv, CountsDown, CountdownMeansSynced
<1> QED BY <1>1, MarkInvAlways, PTL

-----------------------------------------------------------------------------
(* What game servers run                                                   *)

\* A poll leaves a server quiet only if its list is the old one, or the first.
LEMMA PollKeepsQuiet ==
  ASSUME NEW s \in Servers, NEW srv \in ServerState, HashFits(srv),
         RunsItsMods(s, srv), NEW list \in Modlists
  PROVE  RunsItsMods(s, ApplyPollResult(srv, list))
<1> DEFINE new == ApplyPollResult(srv, list)
<1>1. /\ new.lastModIDs = DOMAIN list
      /\ new.syncedMods = srv.syncedMods
      /\ new.needsModUpdate = (srv.needsModUpdate \/ ModsetChanged(srv, list))
      /\ new.needsShutdown = srv.needsShutdown
      /\ DOMAIN list \subseteq Mods
  BY ModlistsNameFolders DEF ApplyPollResult, ServerState
<1>2. CASE ModsetChanged(srv, list)
  BY <1>1, <1>2 DEF RunsItsMods
<1>3. CASE srv.lastModsetHash = NoHash
  BY <1>1, <1>3 DEF RunsItsMods, HashFits
<1>4. CASE srv.lastModsetHash = HashModset(DOMAIN list) /\ srv.lastModsetHash # NoHash
  <2>1. HashModset(DOMAIN list) = HashModset(srv.lastModIDs)
    BY <1>4 DEF HashFits
  <2>2. DOMAIN list = srv.lastModIDs
    BY <2>1 DEF HashModset
  <2> QED BY <1>1, <2>2 DEF RunsItsMods
<1> QED BY <1>2, <1>3, <1>4 DEF ModsetChanged

\* Any step keeps what quiet servers run; the restart at the end of a countdown
\* makes a server quiet with the folders the marks vouch for.
LEMMA QuietStep ==
  ASSUME FoldersAreStable, ~Graceful, IndInv, TickInv, HashInv, MarkInv, QuietInv,
         [Next]_vars
  PROVE  QuietInv'
<1>0. /\ servers \in [Servers -> ServerState] /\ st \in [Servers -> ServerState]
      /\ TypeInv /\ CopyOfServers /\ FoldersKept
      /\ now \in Nat
      /\ \A s \in Servers : NoJobs[s] = "none"
  BY NamesStep DEF IndInv, TypeInv, TypeOK, NoJobs
<1>1. \A s \in Servers : \A m \in servers[s].lastModIDs :
         /\ m \in Mods /\ mods'[m].folderSlug = mods[m].folderSlug
  BY <1>0 DEF FoldersKept, TypeInv, ListedModsAreNamed, Folder, ServerState
<1>2. \A s \in Servers : st[s].lastModIDs = servers[s].lastModIDs
  BY <1>0 DEF TypeInv, CopyHasSameLists
\* Records that stay as they are, where the game does too.
<1>k. ASSUME NEW s \in Servers, loaded'[s] = loaded[s]
      PROVE  /\ servers'[s] = servers[s] => RunsItsMods(s, servers[s])'
             /\ st'[s] = servers[s] => RunsItsMods(s, st[s])'
             /\ servers'[s] = st[s] /\ MayBeSaved(s) => RunsItsMods(s, servers[s])'
             /\ st'[s] = st[s] /\ MayBeSaved(s) => RunsItsMods(s, st[s])'
  BY <1>1, <1>2, <1>k DEF QuietInv, RunsItsMods, Folder, Covers
<1>3. CASE UNCHANGED <<servers, st, job, loaded>>
  BY <1>3, <1>k DEF QuietInv, MayBeSaved
<1>4. ASSUME NEW s \in Servers, PollServer(s) PROVE QuietInv'
  <2>1. PICK list \in Modlists :
           /\ servers' = [servers EXCEPT ![s] = ApplyPollResult(@, list)]
           /\ mods' = NameMods(mods, list)
    BY <1>4 DEF PollServer
  <2>2. /\ st' = servers' /\ loaded' = loaded
        /\ \A r \in Servers \ {s} : servers'[r] = servers[r]
        /\ servers'[s] = ApplyPollResult(servers[s], list)
    BY <1>0, <1>4, <2>1 DEF PollServer
  <2>3. RunsItsMods(s, servers[s])'
    <3>1. RunsItsMods(s, ApplyPollResult(servers[s], list))
      BY <1>0, PollKeepsQuiet DEF HashInv, QuietInv
    <3>2. ApplyPollResult(servers[s], list).lastModIDs = DOMAIN list
      BY <1>0 DEF ApplyPollResult, ServerState
    <3>3. ASSUME NEW m \in DOMAIN list, Named(m)
          PROVE  mods'[m].folderSlug = mods[m].folderSlug
      BY <1>0, <3>3, ModlistsNameFolders DEF FoldersKept, Folder
    <3>4. ASSUME NEW m \in DOMAIN list, ~Named(m)
          PROVE  servers[s].syncedMods[m] = 0
      <4>1. m \in Mods
        BY ModlistsNameFolders
      <4>2. Label(m) = 0
        BY <3>4, <4>1 DEF IndInv, LocalInv, LabelledModsAreNamed
      <4>3. servers[s].syncedMods[m] <= Label(m) /\ servers[s].syncedMods[m] \in Nat
        BY <1>0, <4>1 DEF IndInv, RemoteInv, SyncedNotAhead, ServerState
      <4> QED BY <4>2, <4>3
    <3>5. ApplyPollResult(servers[s], list).syncedMods = servers[s].syncedMods
      BY <1>0 DEF ApplyPollResult, ServerState
    <3> QED BY <2>2, <3>1, <3>2, <3>3, <3>4, <3>5 DEF RunsItsMods, Folder, Covers
  <2> QED BY <1>k, <2>2, <2>3 DEF QuietInv
<1>5. ASSUME NEW m \in Mods, SaveDownloadedMod(m) PROVE QuietInv'
  <2>1. /\ st' = servers' /\ loaded' = loaded
        /\ servers' = MarkServersUsingModForPlanning(servers, m)
    BY <1>5 DEF SaveDownloadedMod
  <2>2. ASSUME NEW s \in Servers PROVE RunsItsMods(s, servers[s])'
    <3>1. CASE m \in servers[s].lastModIDs
      BY <1>0, <2>1, <3>1 DEF MarkServersUsingModForPlanning, RunsItsMods, ServerState
    <3>2. CASE m \notin servers[s].lastModIDs
      BY <1>k, <2>1, <3>2 DEF MarkServersUsingModForPlanning
    <3> QED BY <3>1, <3>2
  <2> QED BY <2>1, <2>2 DEF QuietInv
<1>6. CASE BeginSync
  BY <1>6, <1>k DEF BeginSync, CopyOfServers, disk, QuietInv, IndInv
<1>7. ASSUME NEW s \in Servers, ServerGoroutine(s) PROVE QuietInv'
  <2>1. MayBeSaved(s)' => RunsItsMods(s, st[s])'
    <3>1. CASE job'[s] = "done" /\ st'[s] = st[s] /\ job[s] = "queued"
      BY <1>0, <1>7, <1>k, <3>1, GoroutineKeepsOthers DEF MayBeSaved
    <3>2. CASE st'[s] = StartCountdown(st[s], now)
      <4>1. st'[s].needsShutdown
        BY <1>0, <3>2 DEF StartCountdown, ServerState
      <4> QED BY <4>1 DEF RunsItsMods
    <3>3. CASE job'[s] \in {"failed", "busy"}
      BY <3>3 DEF MayBeSaved
    <3> QED BY <1>0, <1>7, <3>1, <3>2, <3>3, GoroutineOutcome
  <2>2. loaded' = loaded /\ servers' = servers
    BY <1>0, <1>7, GoroutineKeepsOthers
  <2> QED BY <1>0, <1>7, <1>k, <2>1, <2>2, GoroutineKeepsOthers DEF QuietInv, MayBeSaved
<1>8. ASSUME NEW s \in Servers, NEW m \in Mods, SyncMod(s, m) PROVE QuietInv'
  <2>1. ModGoroutine(s, m) /\ loaded' = loaded
    BY <1>8 DEF ModGoroutine, SyncMod
  <2> QED BY <1>0, <1>k, <2>1, ModGoroutineOutcome DEF QuietInv, MayBeSaved
<1>9. CASE EndSync
  <2>1. \A s \in Servers : \/ servers'[s] = servers[s]
                           \/ servers'[s] = st[s] /\ MayBeSaved(s)
    BY <1>0, <1>9 DEF EndSync, AllServersJoined, SyncResult, JobStates, TypeInv, TypeOK,
                      MayBeSaved
  <2>2. st' = servers' /\ loaded' = loaded
    BY <1>9 DEF EndSync
  <2> QED BY <1>k, <2>1, <2>2 DEF QuietInv
<1>10. CASE SaveSyncFails \/ SaveRCONTickFails \/ Boot
  BY <1>10, <1>k DEF SaveSyncFails, SaveRCONTickFails, Boot, disk, QuietInv
<1>11. ASSUME NEW s \in Servers, ShutDownServer(s) \/ ShutDownReplyLost(s)
       PROVE  QuietInv'
  <2>1. /\ UNCHANGED <<servers, mods, job>> /\ MayBeSaved(s)
        /\ st[s] = servers[s] /\ servers[s].needsShutdown
        /\ loaded'[s] = remote[s]
        /\ \A r \in Servers \ {s} : st'[r] = st[r] /\ loaded'[r] = loaded[r]
    BY <1>0, <1>11 DEF ShutDownServer, ShutDownReplyLost, CopyOfServers, MayBeSaved,
                       TickInv, disk, jobs, TypeInv, TypeOK
  <2>2. RunsItsMods(s, servers[s])'
    BY <2>1 DEF RunsItsMods
  <2>3. RunsItsMods(s, st[s])'
    <3>1. CASE st'[s] = st[s]
      BY <2>1, <3>1 DEF RunsItsMods
    <3>2. CASE st'[s] = ShutdownSent(st[s])
      <4>1. /\ st'[s].needsModUpdate = servers[s].needsModUpdate
            /\ st'[s].lastModIDs = servers[s].lastModIDs
            /\ st'[s].syncedMods = servers[s].syncedMods
        BY <1>0, <2>1, <3>2 DEF ShutdownSent, ServerState
      <4>2. ASSUME ~servers[s].needsModUpdate, NEW m \in servers[s].lastModIDs,
                   servers[s].syncedMods[m] # 0
            PROVE  Covers(remote[s][Folder(m)], m, servers[s].syncedMods[m])
        <5>1. m \in Mods /\ servers[s].syncedMods[m] = Label(m) /\ Label(m) # 0
          BY <1>1, <4>2 DEF MarkInv, Marked
        <5> QED BY <5>1 DEF IndInv, RemoteInv, SyncedIsWhole
      <4> QED BY <2>1, <4>1, <4>2 DEF RunsItsMods, Folder, Covers
    <3> QED BY <1>0, <1>11, <3>1, <3>2 DEF ShutDownServer, ShutDownReplyLost
  <2> QED BY <1>k, <2>1, <2>2, <2>3 DEF QuietInv, MayBeSaved
<1>12. CASE EndRCONTick
  <2>1. /\ servers' = st /\ st' = st /\ loaded' = loaded
        /\ \A s \in Servers : MayBeSaved(s)
    BY <1>0, <1>12 DEF EndRCONTick, CopyOfServers, MayBeSaved
  <2> QED BY <1>k, <2>1 DEF QuietInv
<1> QED BY <1>3, <1>4, <1>5, <1>6, <1>7, <1>8, <1>9, <1>10, <1>11, <1>12,
           RecordsChange

\* End to end: a server with nothing pending runs whole copies of its mods, not
\* older than what the daemon last synced to it.
THEOREM QuietServersRunTheirModsAlways ==
  ASSUME FoldersAreStable, ~Graceful
  PROVE  Spec => []QuietServersRunTheirMods
<1> DEFINE Inv == IndInv /\ TickInv /\ HashInv /\ MarkInv /\ QuietInv
<1>1. ASSUME Init PROVE Inv
  <2>1. \A s \in Servers : RunsItsMods(s, ZeroServer)
    BY DEF RunsItsMods, ZeroServer
  <2>2. QuietInv
    BY <1>1, <2>1 DEF Init, QuietInv
  <2>3. TickInv
    BY <1>1 DEF Init, TickInv
  <2> QED BY <1>1, <2>2, <2>3, IndInvInit, MarkInit
<1>2. ASSUME Inv, [Next]_vars PROVE Inv'
  <2>1. TypeInv /\ NamesComeFromLists /\ CopyOfServers /\ LocalInv /\ RemoteInv
    BY <1>2 DEF IndInv
  <2>2. IndInv'
    BY <1>2, <2>1, TypeStep, NamesStep, CopyStep, LocalStep, RemoteStep DEF IndInv
  <2> QED BY <1>2, <2>1, <2>2, TickStep, HashStep, MarkStep, QuietStep
<1>3. Inv => QuietServersRunTheirMods
  BY DEF QuietInv, RunsItsMods, QuietServersRunTheirMods
<1> QED BY <1>1, <1>2, <1>3, PTL DEF Spec

-----------------------------------------------------------------------------
(* The rollout                                                             *)

\* A download in progress is of a mod that is due.
LEMMA DueStep ==
  ASSUME TypeInv, BatchIsDue, [Next]_vars
  PROVE  BatchIsDue'
<1> USE DEF BatchIsDue, Downloading
<1>1. CASE batch' = {}
  BY <1>1
<1>2. CASE mods' = mods /\ UNCHANGED <<phase, batch>>
  BY <1>2
<1>3. CASE \E s \in Servers : PollServer(s)
  BY <1>3 DEF PollServer, steamcmd
<1>4. ASSUME NEW found \in SUBSET Mods, WorkshopPoll(found) PROVE BatchIsDue'
  BY <1>4 DEF WorkshopPoll
<1>5. ASSUME NEW m \in Mods, \/ NothingDownloaded(m)
                            \/ MirrorBackup(m)
                            \/ MirrorSwap(m)
      PROVE  BatchIsDue'
  BY <1>5 DEF NothingDownloaded, MirrorBackup, MirrorSwap, disk, steamcmd
<1>6. ASSUME NEW m \in Mods, SaveDownloadedMod(m) PROVE BatchIsDue'
  <2>1. phase' = "steam" /\ batch' = batch \ {m}
        /\ \A n \in batch' : mods'[n] = mods[n]
    BY <1>6 DEF SaveDownloadedMod, TypeInv, TypeOK
  <2> QED BY <2>1
<1> QED BY <1>1, <1>2, <1>3, <1>4, <1>5, <1>6, ModsChange, BatchChange

\* The SFTP phase begins with BeginSync, and goes on with its own steps.
LEMMA StepsIntoSync ==
  ASSUME phase # "sync", phase' = "sync", [Next]_vars
  PROVE  BeginSync
<1>1. ~ModlistStep
  BY DEF ModlistStep, BeginModlistPoll, PollServer, PollServerFails, EndModlistPoll
<1>2. ~SteamStep
  BY DEF SteamStep, SteamCMDFails, SaveDownloadedModFails, NothingDownloaded,
         MirrorBackup, MirrorSwap, MirrorSwapFails, SaveDownloadedMod, EndBatchWithError
<1>3. ~RCONStep
  BY DEF RCONStep, BeginRCONTick, StopRCONTick, LeaveServerUp, ShutDownServer,
         ShutDownReplyLost, EndRCONTick, SaveRCONTickFails
<1>4. ~LifeStep
  BY DEF LifeStep, Signal, Stop, Start, Crash, Boot
<1>5. ~\E found \in SUBSET Mods : WorkshopPoll(found)
  BY DEF WorkshopPoll
<1>6. SyncStep => BeginSync
  BY DEF SyncStep, SkipServer, RefuseServer, NothingToSync, DialServerFails,
         DialServer, FinishServer, SkipMod, StartMod, StartModFails, SyncModFails,
         SyncMod, EndSync, SaveSyncFails
<1> QED BY <1>1, <1>2, <1>3, <1>4, <1>5, <1>6
        DEF Next, TickClock, PublishMod, CalmDown, vars

\* What a step that leads to or stays in an RCON tick may do.
LEMMA StepsOfTick ==
  ASSUME phase' = "rcon", [Next]_vars
  PROVE  \/ BeginRCONTick
         \/ phase = "rcon" /\ UNCHANGED <<servers, st, remote, loaded>>
         \/ \E s \in Servers : ShutDownServer(s) \/ ShutDownReplyLost(s)
<1> USE DEF disk
<1>1. ~ModlistStep
  BY DEF ModlistStep, BeginModlistPoll, PollServer, PollServerFails, EndModlistPoll
<1>2. ~SteamStep
  BY DEF SteamStep, SteamCMDFails, SaveDownloadedModFails, NothingDownloaded,
         MirrorBackup, MirrorSwap, MirrorSwapFails, SaveDownloadedMod, EndBatchWithError
<1>3. ~SyncStep
  BY DEF SyncStep, BeginSync, SkipServer, RefuseServer, NothingToSync, DialServerFails,
         DialServer, FinishServer, SkipMod, StartMod, StartModFails, SyncModFails,
         SyncMod, EndSync, SaveSyncFails
<1>4. ~\E found \in SUBSET Mods : WorkshopPoll(found)
  BY DEF WorkshopPoll
<1>5. LifeStep => phase = "rcon" /\ UNCHANGED <<servers, st, remote, loaded>>
  BY DEF LifeStep, Signal, Stop, Start, Crash, Boot
<1>6. ASSUME RCONStep
      PROVE  \/ BeginRCONTick
             \/ phase = "rcon" /\ UNCHANGED <<servers, st, remote, loaded>>
             \/ \E s \in Servers : ShutDownServer(s) \/ ShutDownReplyLost(s)
  BY <1>6 DEF RCONStep, StopRCONTick, LeaveServerUp, EndRCONTick, SaveRCONTickFails
<1> QED BY <1>1, <1>2, <1>3, <1>4, <1>5, <1>6
        DEF Next, TickClock, PublishMod, CalmDown, vars

\* A goroutine leaves its record as it was, fails, or counts down.
LEMMA GoroutineKeepsRollout ==
  ASSUME TypeInv, CopyOfServers, RolloutInv, ~Graceful => ~ctxDone,
         NEW s \in Servers, ServerGoroutine(s)
  PROVE  /\ st'[s].lastModsetHash = servers'[s].lastModsetHash
         /\ SyncedOrSame(s)'
<1>1. /\ phase = "sync" /\ job[s] \in {"queued", "busy"}
      /\ UNCHANGED <<servers, mods>>
  BY GoroutineKeepsOthers
<1>2. /\ SyncedOrSame(s) /\ st[s].lastModsetHash = servers[s].lastModsetHash
      /\ st[s] \in ServerState
  BY <1>1 DEF RolloutInv, TypeInv, TypeOK
<1>3. servers[s].needsModUpdate
  BY <1>1, <1>2 DEF SyncedOrSame
<1>4. CASE job'[s] = "done" /\ st'[s] = st[s] /\ job[s] = "queued" /\ ctxDone
  BY <1>1, <1>2, <1>3, <1>4 DEF SyncedOrSame, CopyOfServers, Label
<1>5. CASE job'[s] = "failed" /\ st'[s] = SyncError(st[s])
  <2>1. /\ st'[s].syncedMods = st[s].syncedMods
        /\ st'[s].lastModsetHash = st[s].lastModsetHash
    BY <1>2, <1>5 DEF SyncError, ServerState
  <2> QED BY <1>1, <1>2, <1>3, <1>5, <2>1 DEF SyncedOrSame, MayBeSaved, Label
<1>6. CASE job'[s] = "done" /\ st'[s] = StartCountdown(st[s], now)
  <2>1. /\ st'[s].syncedMods = st[s].syncedMods
        /\ st'[s].lastModsetHash = st[s].lastModsetHash
        /\ ~st'[s].needsModUpdate /\ st'[s].needsShutdown
    BY <1>2, <1>6 DEF StartCountdown, ServerState
  <2> QED BY <1>1, <1>2, <1>3, <1>6, <2>1 DEF SyncedOrSame, Label
<1>7. CASE job'[s] = "busy" /\ st'[s] = [st[s] EXCEPT !.stage = "syncing"]
  <2>1. /\ st'[s].syncedMods = st[s].syncedMods
        /\ st'[s].lastModsetHash = st[s].lastModsetHash
    BY <1>2, <1>7 DEF ServerState
  <2> QED BY <1>1, <1>2, <1>3, <1>7, <2>1 DEF SyncedOrSame, MayBeSaved, Label
<1> QED BY <1>4, <1>5, <1>6, <1>7, GoroutineOutcome

\* The copy of every Update stays within what Rollout allows it to save.
LEMMA RolloutStep ==
  ASSUME TypeInv, CopyOfServers, TickInv, RolloutInv, ~Graceful => ~ctxDone,
         [Next]_vars
  PROVE  RolloutInv'
<1>0. servers \in [Servers -> ServerState] /\ st \in [Servers -> ServerState]
  BY DEF TypeInv, TypeOK
<1>1. CASE phase' \notin {"sync", "rcon"}
  <2>1. st' = servers'
    BY <1>1, CopyStep DEF CopyOfServers
  <2> QED BY <1>1, <2>1 DEF RolloutInv
<1>2. CASE phase' = "sync" /\ phase # "sync"
  <2>1. BeginSync
    BY <1>2, StepsIntoSync
  <2>2. st' = servers' /\ servers' = servers
    BY <2>1 DEF BeginSync, CopyOfServers, disk
  <2>3. \A s \in Servers : job'[s] = IF servers[s].needsModUpdate THEN "queued" ELSE "none"
    BY <2>1 DEF BeginSync
  <2> QED BY <1>2, <2>2, <2>3 DEF RolloutInv, SyncedOrSame
<1>3. CASE phase' = "sync" /\ phase = "sync"
  <2>0. \A s \in Servers : /\ SyncedOrSame(s)
                           /\ st[s].lastModsetHash = servers[s].lastModsetHash
    BY <1>3 DEF RolloutInv
  <2>k. ASSUME NEW s \in Servers, UNCHANGED <<servers, mods>>,
               st'[s] = st[s], job'[s] = job[s]
        PROVE  /\ SyncedOrSame(s)'
               /\ st'[s].lastModsetHash = servers'[s].lastModsetHash
    BY <2>0, <2>k DEF SyncedOrSame, MayBeSaved, Label
  <2>1. CASE UNCHANGED <<servers, st, job, modJob, mods, loaded>>
    BY <1>3, <2>1, <2>k DEF RolloutInv
  <2>2. ASSUME NEW s \in Servers, ServerGoroutine(s) PROVE RolloutInv'
    <3>1. ASSUME NEW r \in Servers
          PROVE  /\ SyncedOrSame(r)'
                 /\ st'[r].lastModsetHash = servers'[r].lastModsetHash
      BY <2>2, <2>k, GoroutineKeepsOthers, GoroutineKeepsRollout
    <3> QED BY <1>3, <3>1 DEF RolloutInv
  <2>3. ASSUME NEW s \in Servers, NEW m \in Mods, ModGoroutine(s, m) PROVE RolloutInv'
    <3>1. /\ job[s] = "busy" /\ UNCHANGED <<servers, mods, job>>
          /\ \A r \in Servers \ {s} : st'[r] = st[r]
      BY <2>3, ModGoroutineOutcome
    <3>2. \A n \in Mods : st'[s].syncedMods[n] \in {st[s].syncedMods[n], Label(n)}
      <4>1. CASE SyncMod(s, m)
        BY <2>3, <4>1, ModGoroutineOutcome DEF SyncMod, Label, TypeInv, TypeOK, ServerState
      <4>2. CASE ~SyncMod(s, m)
        BY <2>3, <4>2 DEF ModGoroutine, SkipMod, StartMod, StartModFails, SyncModFails
      <4> QED BY <4>1, <4>2
    <3>3. st'[s].lastModsetHash = st[s].lastModsetHash
      BY <1>0, <2>3 DEF ModGoroutine, SkipMod, StartMod, StartModFails, SyncModFails,
                        SyncMod, ServerState
    <3>4. SyncedOrSame(s)'
      BY <2>0, <3>1, <3>2 DEF SyncedOrSame, MayBeSaved, Label
    <3>5. ASSUME NEW r \in Servers
          PROVE  /\ SyncedOrSame(r)'
                 /\ st'[r].lastModsetHash = servers'[r].lastModsetHash
      BY <2>0, <2>k, <3>1, <3>3, <3>4
    <3> QED BY <1>3, <3>5 DEF RolloutInv
  <2>4. ~(Boot \/ BeginSync \/ EndSync \/ SaveSyncFails)
    BY <1>3 DEF Boot, BeginSync, EndSync, SaveSyncFails
  <2> QED BY <1>3, <2>1, <2>2, <2>3, <2>4, SyncPhaseSteps
          DEF SyncStep, ServerGoroutine, ModGoroutine
<1>4. CASE phase' = "rcon"
  <2>1. CASE BeginRCONTick
    <3>1. st' = servers'
      BY <2>1 DEF BeginRCONTick, CopyOfServers, disk
    <3> QED BY <1>4, <3>1 DEF RolloutInv, RestartedOrSame
  <2>2. CASE phase = "rcon" /\ UNCHANGED <<servers, st, remote, loaded>>
    BY <1>4, <2>2 DEF RolloutInv, RestartedOrSame
  <2>3. ASSUME NEW s \in Servers, ShutDownServer(s) \/ ShutDownReplyLost(s)
        PROVE  RolloutInv'
    <3>1. /\ phase = "rcon" /\ UNCHANGED <<servers, remote>>
          /\ st'[s] \in {st[s], ShutdownSent(st[s])}
          /\ loaded'[s] = remote[s]
          /\ \A r \in Servers \ {s} : st'[r] = st[r] /\ loaded'[r] = loaded[r]
      BY <1>0, <2>3 DEF ShutDownServer, ShutDownReplyLost, disk, TypeInv, TypeOK
    <3>2. /\ ShutdownSent(st[s]).needsModUpdate = st[s].needsModUpdate
          /\ ShutdownSent(st[s]).lastModsetHash = st[s].lastModsetHash
          /\ ~ShutdownSent(st[s]).needsShutdown
      BY <1>0 DEF ShutdownSent, ServerState
    <3>3. ASSUME NEW r \in Servers
          PROVE  /\ RestartedOrSame(r)'
                 /\ st'[r].lastModsetHash = servers'[r].lastModsetHash
      BY <3>1, <3>2 DEF RolloutInv, RestartedOrSame
    <3> QED BY <1>4, <3>3 DEF RolloutInv
  <2> QED BY <1>4, <2>1, <2>2, <2>3, StepsOfTick
<1> QED BY <1>1, <1>2, <1>3, <1>4

\* The steps that Rollout knows of; all others change nothing it can see.
LEMMA RolloutSees ==
  ASSUME [Next]_vars
  PROVE  \/ UNCHANGED <<servers, remote, loaded>> /\ ~\E m \in Mods : SaveDownloadedMod(m)
         \/ \E s \in Servers : PollServer(s)
         \/ \E m \in Mods : SaveDownloadedMod(m)
         \/ \E s \in Servers, m \in Mods : StartMod(s, m) \/ SyncMod(s, m)
         \/ EndSync
         \/ \E s \in Servers : ShutDownServer(s) \/ ShutDownReplyLost(s)
         \/ EndRCONTick
<1> USE DEF disk
<1> DEFINE Same == UNCHANGED <<servers, remote, loaded>>
<1>1. ASSUME ModlistStep PROVE Same \/ \E s \in Servers : PollServer(s)
  BY <1>1 DEF ModlistStep, BeginModlistPoll, PollServerFails, EndModlistPoll
<1>2. ASSUME SteamStep PROVE Same \/ \E m \in Mods : SaveDownloadedMod(m)
  BY <1>2 DEF SteamStep, SteamCMDFails, SaveDownloadedModFails,
              NothingDownloaded, MirrorBackup, MirrorSwap, MirrorSwapFails
<1>3. ASSUME SyncStep
      PROVE  Same \/ EndSync \/ \E s \in Servers, m \in Mods : StartMod(s, m) \/ SyncMod(s, m)
  BY <1>3 DEF SyncStep, BeginSync, SaveSyncFails, SkipServer, RefuseServer,
              NothingToSync, DialServerFails, DialServer, FinishServer, SkipMod,
              StartModFails, SyncModFails
<1>4. ASSUME RCONStep
      PROVE  \/ Same \/ EndRCONTick
             \/ \E s \in Servers : ShutDownServer(s) \/ ShutDownReplyLost(s)
  BY <1>4 DEF RCONStep, BeginRCONTick, StopRCONTick, LeaveServerUp, SaveRCONTickFails
<1>5. ASSUME LifeStep PROVE Same
  BY <1>5 DEF LifeStep, Signal, Stop, Start, Crash, Boot
<1>6. ASSUME \/ TickClock \/ (\E m \in Mods : PublishMod(m)) \/ CalmDown
             \/ (\E found \in SUBSET Mods : WorkshopPoll(found)) \/ UNCHANGED vars
      PROVE  Same
  BY <1>6 DEF TickClock, PublishMod, CalmDown, WorkshopPoll, vars
<1> QED BY <1>1, <1>2, <1>3, <1>4, <1>5, <1>6 DEF Next

LEMMA InitIsRollout == Init => Ledger!Init
<1> SUFFICES ASSUME Init PROVE Ledger!Init
  OBVIOUS
<1>1. /\ \A s \in Servers : servers[s] = ZeroServer
      /\ \A m \in Mods : Label(m) = 0
      /\ loaded = remote
  BY DEF Init, ZeroMod, Label
<1> QED BY <1>1 DEF Ledger!Init, ZeroServer

\* What the refinement needs of the states in between.
RolloutContext ==
  /\ TypeInv /\ CopyOfServers /\ StageInv /\ TickInv /\ HashInv /\ BatchIsDue
  /\ ~Graceful => MarkInv
  /\ RolloutInv

LEMMA RolloutContextAlways == Spec => []RolloutContext
<1>1. Init => RolloutContext
  <2> SUFFICES ASSUME Init PROVE RolloutContext
    OBVIOUS
  <2>1. \A s \in Servers : /\ servers[s] = ZeroServer /\ st[s] = ZeroServer
                           /\ job[s] = "none"
    BY DEF Init, NoJobs
  <2>2. HashFits(ZeroServer)
    BY DEF HashFits, ZeroServer
  <2>3. HashInv /\ TickInv /\ BatchIsDue /\ RolloutInv
    BY <2>1, <2>2 DEF Init, HashInv, TickInv, BatchIsDue, RolloutInv
  <2> QED BY <2>3, InitType, StageInit, MarkInit DEF RolloutContext
<1>2. ASSUME RolloutContext, [Next]_vars PROVE RolloutContext'
  <2>1. ~Graceful => ~ctxDone
    BY <1>2 DEF RolloutContext, MarkInv, NothingSkipped
  <2>2. (~Graceful => MarkInv)'
    BY <1>2, MarkStep DEF RolloutContext
  <2>3. TypeInv' /\ CopyOfServers' /\ StageInv' /\ TickInv' /\ HashInv'
    BY <1>2, TypeStep, CopyStep, StageStep, TickStep, HashStep DEF RolloutContext
  <2>4. BatchIsDue' /\ RolloutInv'
    BY <1>2, <2>1, DueStep, RolloutStep DEF RolloutContext
  <2> QED BY <2>2, <2>3, <2>4 DEF RolloutContext
<1> QED BY <1>1, <1>2, PTL DEF Spec

-----------------------------------------------------------------------------
\* Step by step.
LEMMA PollIsRollout ==
  ASSUME RolloutContext, NEW s \in Servers, PollServer(s)
  PROVE  Ledger!Poll(s)
<1>1. PICK list \in Modlists : /\ servers' = [servers EXCEPT ![s] = ApplyPollResult(@, list)]
                              /\ mods' = NameMods(mods, list)
  BY DEF PollServer
<1> DEFINE ids == DOMAIN list
           srv == servers[s]
<1>2. servers \in [Servers -> ServerState] /\ mods \in [Mods -> ModState] /\ ids \in SUBSET Mods
  BY ModlistsNameFolders DEF RolloutContext, TypeInv, TypeOK
<1>3. /\ servers'[s] = ApplyPollResult(srv, list)
      /\ \A r \in Servers \ {s} : servers'[r] = servers[r]
      /\ servers' \in [Servers -> ServerState]
  <2>1. TypeInv'
    BY TypeStep DEF RolloutContext, Next, ModlistStep
  <2> QED BY <1>1, <1>2, <2>1 DEF TypeInv, TypeOK
<1>4. /\ servers'[s].lastModIDs = ids
      /\ servers'[s].lastModsetHash = HashModset(ids)
      /\ servers'[s].needsModUpdate = (srv.needsModUpdate \/ ModsetChanged(srv, list))
      /\ servers'[s].needsShutdown = srv.needsShutdown
      /\ servers'[s].syncedMods = srv.syncedMods
  BY <1>2, <1>3 DEF ApplyPollResult, ServerState
<1>5. HashModset(ids) # NoHash
  BY <1>2, NoHashIsNoSet
<1>6. ModsetChanged(srv, list) <=> srv.lastModsetHash # NoHash /\ ids # srv.lastModIDs
  <2>1. srv.lastModsetHash # NoHash => srv.lastModsetHash = HashModset(srv.lastModIDs)
    BY DEF RolloutContext, HashInv, HashFits
  <2> QED BY <2>1 DEF ModsetChanged, HashModset
<1>7. \A m \in Mods : Label(m)' = Label(m)
  BY <1>1, <1>2 DEF NameMods, Label, ModState
<1>8. UNCHANGED <<remote, loaded>>
  BY DEF PollServer
<1> HIDE DEF ids, srv
<1>9. [r \in Servers |-> servers[r].lastModIDs]'
        = [[r \in Servers |-> servers[r].lastModIDs] EXCEPT ![s] = ids]
  BY <1>3, <1>4
<1>10. {r \in Servers : servers[r].needsModUpdate}'
         = IF s \in {r \in Servers : servers[r].lastModsetHash # NoHash}
              /\ ids # [r \in Servers |-> servers[r].lastModIDs][s]
           THEN {r \in Servers : servers[r].needsModUpdate} \cup {s}
           ELSE {r \in Servers : servers[r].needsModUpdate}
  <2>1. ids # [r \in Servers |-> servers[r].lastModIDs][s] <=> ids # srv.lastModIDs
    BY DEF srv
  <2>2. s \in {r \in Servers : servers[r].lastModsetHash # NoHash} <=> srv.lastModsetHash # NoHash
    BY DEF srv
  <2>3. servers'[s].needsModUpdate <=>
           servers[s].needsModUpdate \/ (srv.lastModsetHash # NoHash /\ ids # srv.lastModIDs)
    BY <1>4, <1>6 DEF srv
  <2>4. \A r \in Servers \ {s} : servers'[r].needsModUpdate = servers[r].needsModUpdate
    BY <1>3
  <2>5. CASE srv.lastModsetHash # NoHash /\ ids # srv.lastModIDs
    BY <2>1, <2>2, <2>3, <2>4, <2>5
  <2>6. CASE ~(srv.lastModsetHash # NoHash /\ ids # srv.lastModIDs)
    BY <2>1, <2>2, <2>3, <2>4, <2>6
  <2> QED BY <2>5, <2>6
<1>11. {r \in Servers : servers[r].lastModsetHash # NoHash}'
         = {r \in Servers : servers[r].lastModsetHash # NoHash} \cup {s}
  BY <1>3, <1>4, <1>5
<1>12. /\ [r \in Servers |-> servers[r].syncedMods]' = [r \in Servers |-> servers[r].syncedMods]
       /\ {r \in Servers : servers[r].needsShutdown}' = {r \in Servers : servers[r].needsShutdown}
       /\ [m \in Mods |-> Label(m)]' = [m \in Mods |-> Label(m)]
  BY <1>3, <1>4, <1>7 DEF srv
<1> QED BY <1>2, <1>8, <1>9, <1>10, <1>11, <1>12 DEF Ledger!Poll, ids

LEMMA DownloadIsRollout ==
  ASSUME RolloutContext, NEW m \in Mods, SaveDownloadedMod(m)
  PROVE  Ledger!Download(m)
<1>1. /\ mods' = [mods EXCEPT ![m] = DownloadedMod(@, now)]
      /\ servers' = MarkServersUsingModForPlanning(servers, m)
      /\ m \in batch
      /\ UNCHANGED <<remote, loaded>>
  BY DEF SaveDownloadedMod, NextInBatch
<1>2. /\ servers \in [Servers -> ServerState] /\ mods \in [Mods -> ModState]
      /\ now \in Nat \ {0}
      /\ NeedsLocalUpdate(mods[m])
  BY <1>1 DEF RolloutContext, TypeInv, TypeOK, BatchIsDue
<1>3. \A n \in Mods \ {m} : Label(n)' = Label(n)
  BY <1>1, <1>2 DEF Label
<1>4. Label(m)' > Label(m)
  <2>1. Label(m)' = IF mods[m].workshopUpdatedAt = 0 THEN now ELSE mods[m].workshopUpdatedAt
    BY <1>1, <1>2 DEF Label, DownloadedMod, ModState
  <2>2. mods[m].workshopUpdatedAt \in Nat /\ mods[m].localUpdatedAt \in Nat
    BY <1>2 DEF ModState
  <2> QED BY <1>2, <2>1, <2>2 DEF NeedsLocalUpdate, Label
<1>5. \A s \in Servers :
         /\ servers'[s].lastModIDs = servers[s].lastModIDs
         /\ servers'[s].lastModsetHash = servers[s].lastModsetHash
         /\ servers'[s].syncedMods = servers[s].syncedMods
         /\ servers'[s].needsShutdown = servers[s].needsShutdown
         /\ servers'[s].needsModUpdate
               = (servers[s].needsModUpdate \/ m \in servers[s].lastModIDs)
  BY <1>1, <1>2 DEF MarkServersUsingModForPlanning, ServerState
<1>6. [n \in Mods |-> Label(n)]'
        = [[n \in Mods |-> Label(n)] EXCEPT ![m] = [n \in Mods |-> Label(n)]'[m]]
  BY <1>3
<1>7. [n \in Mods |-> Label(n)]'[m] > [n \in Mods |-> Label(n)][m]
  BY <1>4
<1>8. {s \in Servers : servers[s].needsModUpdate}'
        = {s \in Servers : servers[s].needsModUpdate}
             \cup {s \in Servers : m \in [r \in Servers |-> servers[r].lastModIDs][s]}
  BY <1>5
<1>9. /\ [s \in Servers |-> servers[s].lastModIDs]' = [s \in Servers |-> servers[s].lastModIDs]
      /\ [s \in Servers |-> servers[s].syncedMods]' = [s \in Servers |-> servers[s].syncedMods]
      /\ {s \in Servers : servers[s].lastModsetHash # NoHash}'
           = {s \in Servers : servers[s].lastModsetHash # NoHash}
      /\ {s \in Servers : servers[s].needsShutdown}' = {s \in Servers : servers[s].needsShutdown}
  BY <1>5
<1> QED BY <1>1, <1>6, <1>7, <1>8, <1>9 DEF Ledger!Download

LEMMA CopyIsRollout ==
  ASSUME RolloutContext, NEW s \in Servers, NEW m \in Mods, StartMod(s, m) \/ SyncMod(s, m)
  PROVE  Ledger!CopyTo(s)
<1>1. /\ job[s] = "busy" /\ phase = "sync"
      /\ UNCHANGED <<servers, mods, loaded>>
  BY DEF RolloutContext, CopyOfServers, StartMod, SyncMod, disk
<1>2. servers[s].needsModUpdate
  BY <1>1 DEF RolloutContext, RolloutInv, SyncedOrSame
<1>3. remote' = [remote EXCEPT ![s] = remote'[s]]
  BY DEF StartMod, SyncMod, RolloutContext, TypeInv, TypeOK
<1>4. [n \in Mods |-> Label(n)]' = [n \in Mods |-> Label(n)]
  BY <1>1 DEF Label
<1> QED BY <1>1, <1>2, <1>3, <1>4 DEF Ledger!CopyTo

LEMMA RoundIsRollout ==
  ASSUME RolloutContext, EndSync
  PROVE  (\E done \in SUBSET Servers : Ledger!SyncRound(done)) \/ UNCHANGED Ledger!vars
<1>1. /\ phase = "sync" /\ servers' = SyncResult
      /\ \A s \in Servers : job[s] \in {"none", "done", "failed"}
      /\ UNCHANGED <<mods, remote, loaded>>
  BY DEF EndSync, AllServersJoined, RolloutContext, TypeInv, TypeOK, JobStates
<1>2. [n \in Mods |-> Label(n)]' = [n \in Mods |-> Label(n)]
  BY <1>1 DEF Label
<1>3. CASE \E s \in Servers : job[s] = "failed"
  <2>1. servers' = servers
    BY <1>1, <1>3 DEF SyncResult
  <2> QED BY <1>1, <1>2, <2>1 DEF Ledger!vars
<1>4. CASE \A s \in Servers : job[s] # "failed"
  <2>0. PICK done \in SUBSET Servers :
           done = {s \in Servers : job[s] = "done" /\ ~st[s].needsModUpdate}
    OBVIOUS
  <2>1. /\ servers' = st
        /\ servers \in [Servers -> ServerState] /\ st \in [Servers -> ServerState]
    BY <1>1, <1>4 DEF SyncResult, RolloutContext, TypeInv, TypeOK
  <2>2. ASSUME NEW s \in Servers
        PROVE  /\ st[s].lastModIDs = servers[s].lastModIDs
               /\ st[s].lastModsetHash = servers[s].lastModsetHash
               /\ SyncedOrSame(s) /\ MayBeSaved(s) /\ job[s] \in {"none", "done"}
    BY <1>1, <1>4 DEF RolloutContext, RolloutInv, TypeInv, CopyHasSameLists, MayBeSaved
  <2>3. ASSUME NEW s \in Servers \ done PROVE st[s] = servers[s]
    BY <2>0, <2>2 DEF SyncedOrSame
  <2>4. ASSUME NEW s \in done
        PROVE  /\ servers[s].needsModUpdate /\ ~st[s].needsModUpdate /\ st[s].needsShutdown
    <3>1. servers[s].needsModUpdate
      BY <2>0, <2>2 DEF SyncedOrSame
    <3> QED BY <2>0, <2>2, <3>1 DEF SyncedOrSame
  <2>5. ASSUME ~Graceful, NEW s \in Servers, servers[s].needsModUpdate PROVE s \in done
    BY <2>0, <2>2, <2>5 DEF SyncedOrSame
  <2>6. ASSUME ~Graceful, NEW s \in done, NEW m \in servers[s].lastModIDs
        PROVE  st[s].syncedMods[m] = Label(m) /\ Label(m) # 0
    <3>1. StageFits(st[s]) /\ CountsDown(st[s])
      BY <2>2, <2>6 DEF RolloutContext, StageInv, MarkInv
    <3>2. st[s].stage = "countdown"
      BY <2>4, <3>1 DEF StageFits
    <3> QED BY <2>2, <2>6, <3>1, <3>2 DEF CountsDown
  <2>7. \A s \in Servers : servers[s].lastModIDs \subseteq Mods
    BY <2>1 DEF ServerState
  <2>8. \A s \in Servers, m \in Mods : st[s].syncedMods[m] \in {servers[s].syncedMods[m], Label(m)}
    BY <2>2 DEF SyncedOrSame
  <2>10. done \subseteq {s \in Servers : servers[s].needsModUpdate}
    BY <2>4
  <2>11. {s \in Servers : servers[s].needsModUpdate}'
            = {s \in Servers : servers[s].needsModUpdate} \ done
    BY <2>1, <2>3, <2>4
  <2>12. {s \in Servers : servers[s].needsShutdown}'
            = {s \in Servers : servers[s].needsShutdown} \cup done
    BY <2>1, <2>3, <2>4
  <2> DEFINE synced == [s \in Servers |-> servers[s].syncedMods]
             version == [m \in Mods |-> Label(m)]
             listed == [s \in Servers |-> servers[s].lastModIDs]
  <2>13. \A s \in Servers : synced'[s] = st[s].syncedMods
    BY <2>1
  <2>14. \A s \in Servers, m \in Mods : synced'[s][m] \in {synced[s][m], version[m]}
    BY <2>8, <2>13
  <2>15. \A s \in Servers \ done : synced'[s] = synced[s]
    BY <2>3, <2>13
  <2>16. ~Graceful => /\ done = {s \in Servers : servers[s].needsModUpdate}
                      /\ \A s \in done : \A m \in listed[s] :
                            synced'[s][m] = version[m] /\ version[m] # 0
    BY <2>5, <2>6, <2>7, <2>10, <2>13
  <2>17. /\ listed' = listed
         /\ {s \in Servers : servers[s].lastModsetHash # NoHash}'
              = {s \in Servers : servers[s].lastModsetHash # NoHash}
    BY <2>1, <2>2
  <2>18. Ledger!SyncRound(done)
    BY <1>1, <1>2, <2>10, <2>11, <2>12, <2>14, <2>15, <2>16, <2>17, Zenon
       DEF Ledger!SyncRound
  <2> QED BY <2>18
<1> QED BY <1>3, <1>4

LEMMA RestartIsRollout ==
  ASSUME RolloutContext, NEW s \in Servers, ShutDownServer(s) \/ ShutDownReplyLost(s)
  PROVE  Ledger!Restart(s)
<1>1. /\ servers[s].needsShutdown
      /\ loaded' = [loaded EXCEPT ![s] = remote[s]]
      /\ UNCHANGED <<servers, mods, remote>>
  BY DEF RolloutContext, TickInv, ShutDownServer, ShutDownReplyLost, disk
<1>2. [n \in Mods |-> Label(n)]' = [n \in Mods |-> Label(n)]
  BY <1>1 DEF Label
<1> QED BY <1>1, <1>2 DEF Ledger!Restart

LEMMA TickIsRollout ==
  ASSUME RolloutContext, EndRCONTick
  PROVE  \E done \in SUBSET Servers : Ledger!RecordRestarts(done)
<1>0. PICK done \in SUBSET Servers :
         done = {s \in Servers : servers[s].needsShutdown /\ ~st[s].needsShutdown}
  OBVIOUS
<1>1. phase = "rcon" /\ servers' = st /\ UNCHANGED <<mods, remote, loaded>>
  BY DEF EndRCONTick
<1>2. [n \in Mods |-> Label(n)]' = [n \in Mods |-> Label(n)]
  BY <1>1 DEF Label
<1>3. \A s \in Servers : /\ RestartedOrSame(s)
                         /\ st[s].lastModIDs = servers[s].lastModIDs
                         /\ st[s].lastModsetHash = servers[s].lastModsetHash
                         /\ st[s].syncedMods = servers[s].syncedMods
                         /\ servers[s].needsShutdown \in BOOLEAN
                         /\ st[s].needsShutdown \in BOOLEAN
  BY <1>1 DEF RolloutContext, RolloutInv, CopyOfServers, TypeInv, TypeOK, CopyHasSameLists,
              ServerState
<1>4. {s \in Servers : servers[s].needsShutdown}'
        = {s \in Servers : servers[s].needsShutdown} \ done
  BY <1>0, <1>1, <1>3 DEF RestartedOrSame
<1>5. \A s \in done : loaded[s] = remote[s]
  BY <1>0, <1>3 DEF RestartedOrSame
<1>6. done \subseteq {s \in Servers : servers[s].needsShutdown}
  BY <1>0
<1>7. /\ [s \in Servers |-> servers[s].lastModIDs]' = [s \in Servers |-> servers[s].lastModIDs]
      /\ {s \in Servers : servers[s].lastModsetHash # NoHash}'
           = {s \in Servers : servers[s].lastModsetHash # NoHash}
      /\ [s \in Servers |-> servers[s].syncedMods]' = [s \in Servers |-> servers[s].syncedMods]
      /\ {s \in Servers : servers[s].needsModUpdate}' = {s \in Servers : servers[s].needsModUpdate}
  BY <1>1, <1>3 DEF RestartedOrSame
<1>8. Ledger!RecordRestarts(done)
  BY <1>1, <1>2, <1>4, <1>5, <1>6, <1>7 DEF Ledger!RecordRestarts
<1> QED BY <1>8

LEMMA StepIsRollout ==
  ASSUME RolloutContext, [Next]_vars
  PROVE  [Ledger!Next]_(Ledger!vars)
<1>1. CASE UNCHANGED <<servers, remote, loaded>> /\ ~\E m \in Mods : SaveDownloadedMod(m)
  <2>1. \A m \in Mods : Label(m)' = Label(m)
    BY <1>1, LabelsKept DEF RolloutContext, Label
  <2>2. [m \in Mods |-> Label(m)]' = [m \in Mods |-> Label(m)]
    BY <2>1
  <2> QED BY <1>1, <2>2 DEF Ledger!vars
<1>2. ASSUME NEW s \in Servers, PollServer(s) PROVE Ledger!Next
  BY <1>2, PollIsRollout DEF Ledger!Next
<1>3. ASSUME NEW m \in Mods, SaveDownloadedMod(m) PROVE Ledger!Next
  BY <1>3, DownloadIsRollout DEF Ledger!Next
<1>4. ASSUME NEW s \in Servers, NEW m \in Mods, StartMod(s, m) \/ SyncMod(s, m)
      PROVE  Ledger!Next
  BY <1>4, CopyIsRollout DEF Ledger!Next
<1>5. CASE EndSync
  BY <1>5, RoundIsRollout DEF Ledger!Next
<1>6. ASSUME NEW s \in Servers, ShutDownServer(s) \/ ShutDownReplyLost(s)
      PROVE  Ledger!Next
  BY <1>6, RestartIsRollout DEF Ledger!Next
<1>7. CASE EndRCONTick
  BY <1>7, TickIsRollout DEF Ledger!Next
<1> QED BY <1>1, <1>2, <1>3, <1>4, <1>5, <1>6, <1>7, RolloutSees

\* The daemon rolls updates out as Rollout says: its handlers, goroutines,
\* discarded updates, crashes and stops add nothing to what may happen to the
\* marks, versions and folders.
THEOREM RolloutIsImplemented == Spec => ImplementsRollout
  BY InitIsRollout, RolloutContextAlways, StepIsRollout, PTL
     DEF Spec, ImplementsRollout, Ledger!Spec

\* A step of the rollout changes a server's folders only when it is marked, and
\* drops its debt of a restart only when it runs them.
LEMMA RolloutKeepsFolders ==
  ASSUME RolloutContext, NoUnseenChange, [Next]_vars
  PROVE  NoUnseenChange'
<1> DEFINE pending == {s \in Servers : servers[s].needsModUpdate}
           restarts == {s \in Servers : servers[s].needsShutdown}
<1>1. /\ NoUnseenChange <=> \A s \in Servers \ (pending \cup restarts) : loaded[s] = remote[s]
      /\ NoUnseenChange' <=>
            \A s \in Servers \ (pending' \cup restarts') : loaded'[s] = remote'[s]
  BY DEF NoUnseenChange, Ledger!NoUnseenChange
<1>2. DOMAIN loaded = Servers
  BY DEF RolloutContext, TypeInv, TypeOK
<1>3. CASE UNCHANGED Ledger!vars
  <2>1. UNCHANGED <<pending, restarts, remote, loaded>>
    BY <1>3 DEF Ledger!vars
  <2> HIDE DEF pending, restarts
  <2> QED BY <1>1, <2>1
<1>4. ASSUME NEW s \in Servers, Ledger!Poll(s) PROVE NoUnseenChange'
  <2>1. pending \subseteq pending' /\ UNCHANGED <<restarts, remote, loaded>>
    BY <1>4 DEF Ledger!Poll
  <2> HIDE DEF pending, restarts
  <2> QED BY <1>1, <2>1
<1>5. ASSUME NEW m \in Mods, Ledger!Download(m) PROVE NoUnseenChange'
  <2>1. pending \subseteq pending' /\ UNCHANGED <<restarts, remote, loaded>>
    BY <1>5 DEF Ledger!Download
  <2> HIDE DEF pending, restarts
  <2> QED BY <1>1, <2>1
<1>6. ASSUME NEW s \in Servers, Ledger!CopyTo(s) PROVE NoUnseenChange'
  <2>1. /\ s \in pending /\ UNCHANGED <<pending, restarts, loaded>>
        /\ \A r \in Servers \ {s} : remote'[r] = remote[r]
    BY <1>6 DEF Ledger!CopyTo, RolloutContext, TypeInv, TypeOK
  <2> HIDE DEF pending, restarts
  <2> QED BY <1>1, <2>1
<1>7. ASSUME NEW done \in SUBSET Servers, Ledger!SyncRound(done) PROVE NoUnseenChange'
  <2>1. /\ pending' = pending \ done /\ restarts' = restarts \cup done
        /\ UNCHANGED <<remote, loaded>>
    BY <1>7 DEF Ledger!SyncRound
  <2> HIDE DEF pending, restarts
  <2> QED BY <1>1, <2>1
<1>8. ASSUME NEW s \in Servers, Ledger!Restart(s) PROVE NoUnseenChange'
  <2>1. /\ UNCHANGED <<pending, restarts, remote>>
        /\ loaded' = [loaded EXCEPT ![s] = remote[s]]
    BY <1>8 DEF Ledger!Restart
  <2> HIDE DEF pending, restarts
  <2> QED BY <1>1, <1>2, <2>1
<1>9. ASSUME NEW done \in SUBSET Servers, Ledger!RecordRestarts(done) PROVE NoUnseenChange'
  <2>1. /\ restarts' = restarts \ done /\ UNCHANGED <<pending, remote, loaded>>
        /\ \A s \in done : loaded[s] = remote[s]
    BY <1>9 DEF Ledger!RecordRestarts
  <2> HIDE DEF pending, restarts
  <2> QED BY <1>1, <2>1
<1> QED BY <1>3, <1>4, <1>5, <1>6, <1>7, <1>8, <1>9, StepIsRollout DEF Ledger!Next

\* With nothing pending a game server runs what is in its folders, in every
\* installation and with every kind of failure, crash and stop.
THEOREM NoUnseenChangeAlways == Spec => []NoUnseenChange
<1>1. Init => NoUnseenChange
  BY DEF Init, NoUnseenChange, Ledger!NoUnseenChange
<1>2. RolloutContext /\ NoUnseenChange /\ [Next]_vars => NoUnseenChange'
  BY RolloutKeepsFolders
<1> QED BY <1>1, <1>2, RolloutContextAlways, PTL DEF Spec
=============================================================================
