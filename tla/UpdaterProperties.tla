------------------------- MODULE UpdaterProperties -------------------------
(***************************************************************************)
(* What the daemon promises, over the state of Updater.                    *)
(***************************************************************************)
EXTENDS Updater

Label(m) == mods[m].localUpdatedAt

\* The folder content c is a whole copy of mod m with everything published
\* up to v.  When the Web API may stay silent about a mod, localUpdatedAt can
\* be a clock reading (TECH_CONTEXT.md:381) and only wholeness is claimed.
Covers(c, m, v) == /\ c \in Content
                   /\ c.mod = m
                   /\ FullAnswers => c.version >= v

-----------------------------------------------------------------------------
(* Safety                                                                  *)

\* synced_mods never lies: when the entry of a mod equals its
\* local_updated_at, so that the next sync would skip the mod, the folder on
\* that server is whole and not older than the entry, whatever failed,
\* crashed or was discarded before (engine.go:120, 181 and store.go:108).
SyncedModsAreWhole ==
    \A s \in Servers, m \in Mods :
        Label(m) # 0 /\ servers[s].syncedMods[m] = Label(m)
            => Covers(remote[s][Folder(m)], m, Label(m))

\* local_updated_at never lies: when no download is due for a mod, its
\* folder under local_mods_root is whole and not older than that time, even
\* after a swap that failed or was cut by a crash (steamcmd.go:51-67, 176-186).
LocalCopiesAreHonest ==
    \A m \in Mods :
        ~NeedsLocalUpdate(mods[m]) => Covers(local[Folder(m)], m, Label(m))

\* The stage that is saved and the two flags the handlers decide by never
\* contradict each other; modlist polls, SteamCMD, the SFTP phase and RCON
\* ticks each write only some of them (modlist.go:285-288,
\* steamcmd.go:237-238, engine.go:193-195, controller.go:85-86).
StagesMatchFlags ==
    \A s \in Servers : LET srv == servers[s] IN
        /\ srv.stage \in {"planning", "syncing", "error"} => srv.needsModUpdate
        /\ srv.stage = "idle" => ~srv.needsShutdown
        /\ srv.stage = "countdown" => srv.needsShutdown /\ ~srv.needsModUpdate
        /\ srv.needsShutdown => srv.shutdownDeadlineAt # 0

\* No server is forgotten by an update: while it lists a mod it has in an
\* older version than the local one, it stays marked for a sync, although
\* the mark is set by one handler and dropped by another
\* (steamcmd.go:68, engine.go:193, modlist.go:285).
NoServerLeftBehind ==
    \A s \in Servers : \A m \in servers[s].lastModIDs :
        servers[s].syncedMods[m] \notin {0, Label(m)}
            => servers[s].needsModUpdate

\* A server counts down to its restart only with every mod it lists synced
\* in the local version ("entered when sync finished (or nothing left to
\* sync)", TECH_CONTEXT.md:249).
CountdownMeansSynced ==
    \A s \in Servers : servers[s].stage = "countdown" =>
        \A m \in servers[s].lastModIDs :
            Label(m) # 0 /\ servers[s].syncedMods[m] = Label(m)

\* End to end: a server with no sync and no restart pending runs, for each
\* mod it lists and was ever synced, a whole copy not older than that sync;
\* a restart in the middle of a failed sync is made good by a later one
\* (controller.go:85-86, engine.go:193-194).
QuietServersRunTheirMods ==
    \A s \in Servers :
        ~servers[s].needsModUpdate /\ ~servers[s].needsShutdown =>
            \A m \in servers[s].lastModIDs :
                servers[s].syncedMods[m] # 0 =>
                    Covers(loaded[s][Folder(m)], m, servers[s].syncedMods[m])

\* Players get the grace period: no server is shut down before the deadline
\* that was saved for it (controller.go:67, engine.go:196).
NoEarlyRestart ==
    [][\A s \in Servers : loaded'[s] # loaded[s] =>
          /\ servers[s].needsShutdown
          /\ servers[s].shutdownDeadlineAt <= now]_vars

-----------------------------------------------------------------------------
(* The rollout of updates, without phases, goroutines and saves            *)

Ledger == INSTANCE Rollout
    WITH Complete <- ~Graceful,
         listed   <- [s \in Servers |-> servers[s].lastModIDs],
         known    <- {s \in Servers : servers[s].lastModsetHash # NoHash},
         version  <- [m \in Mods |-> Label(m)],
         synced   <- [s \in Servers |-> servers[s].syncedMods],
         pending  <- {s \in Servers : servers[s].needsModUpdate},
         restarts <- {s \in Servers : servers[s].needsShutdown},
         folders  <- remote,
         runs     <- loaded

\* Whatever fails, crashes or is stopped, state.json and the servers' folders
\* change only as Rollout says: marks come with new versions and lists, leave
\* only in exchange for restarts, and restarts only when the server has done
\* them (modlist.go:285, steamcmd.go:68, engine.go:108, 193-194,
\* controller.go:85).
ImplementsRollout == Ledger!Spec

\* No file under a running server changes without a mark that will end in a
\* restart: with none pending, the game runs just what is in its folders, also
\* after syncs that were cut, discarded or never saved.
NoUnseenChange == Ledger!NoUnseenChange

-----------------------------------------------------------------------------
(* Liveness, under the fairness of the select loop: a handler that has     *)
(* begun goes on, every ticker fires again and again and a ready ticker is *)
(* not passed over forever, and from some moment on nothing fails.         *)

HandlerGoesOn ==
    /\ phase \notin {"select", "stopped"}
    /\ \/ ModlistStep
       \/ SteamStep
       \/ SyncStep
       \/ RCONStep

FullWorkshopPoll == WorkshopPoll(CandidateModIDs(servers))

Fairness == /\ WF_vars(HandlerGoesOn)
            /\ SF_vars(BeginModlistPoll)
            /\ SF_vars(FullWorkshopPoll)
            /\ SF_vars(BeginRCONTick)
            /\ WF_vars(TickClock)
            /\ WF_vars(CalmDown)

FairSpec == Spec /\ Fairness

\* A restart that is due happens, or a new sync has moved its deadline: the
\* countdown survives crashes, discarded syncs and modlist changes.  (The
\* clock of the model stops at MaxNow, so later deadlines are not claimed.)
DueRestartsHappen ==
    \A s \in Servers :
        (servers[s].needsShutdown /\ servers[s].shutdownDeadlineAt <= MaxNow)
            ~> (\/ ~servers[s].needsShutdown
                \/ servers[s].shutdownDeadlineAt > MaxNow)

\* Every published version of a mod that stays on a list reaches
\* local_mods_root, whichever batch failed or was cut before.
PublishedModsAreDownloaded ==
    \A m \in Mods :
        (m \in CandidateModIDs(servers) /\ Label(m) < published[m])
            ~> (m \notin CandidateModIDs(servers) \/ Label(m) >= published[m])

\* Once nothing fails, a batch that has given up no mod it was started for
\* ends with every marked server synced, the ones earlier failures had left
\* behind included.
BatchesEndInSync ==
    (/\ calm
     /\ phase = "steam"
     /\ batch = {m \in CandidateModIDs(servers) : NeedsLocalUpdate(mods[m])})
        ~> \A s \in Servers : ~servers[s].needsModUpdate

-----------------------------------------------------------------------------
(* What the documentation says and the code does not do                    *)

\* A sync that fails leaves in state.json the mods that did succeed ("If one mod
\* fails and others succeeded, successes remain recorded in synced_mods",
\* TECH_CONTEXT.md:423) or at the least its failure (the stage error is "entered
\* on sync/connect/mod validation failures", TECH_CONTEXT.md:253).
FailedSyncsLeaveARecord ==
    [][EndSync => \A s \in Servers, m \in Mods :
          job[s] = "failed" /\ modJob[s][m] = "synced" =>
              \/ servers'[s].syncedMods[m] = Label(m)
              \/ servers'[s].stage = "error"]_vars

\* "If stuck in error, fix root cause and allow next poll/sync cycle to
\* retry" (TECH_CONTEXT.md:521): a server marked for a sync gets it.
MarkedServersGetSynced ==
    \A s \in Servers :
        servers[s].needsModUpdate ~> ~servers[s].needsModUpdate
=============================================================================
