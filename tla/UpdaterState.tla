---------------------------- MODULE UpdaterState ----------------------------
(***************************************************************************)
(* The records of state.json and the functions the handlers of the daemon  *)
(* apply to them (packages state, modlist, workshop, steamcmd, sftpsync    *)
(* and rcon).  Everything here is a pure function of the state; Updater    *)
(* says when each of them runs, what can fail around it and when its       *)
(* result reaches the disk.                                                *)
(*                                                                         *)
(* Times are clock readings; 0 is Go's zero time.Time, and also a nil      *)
(* pointer or a missing entry of synced_mods, because the code treats them *)
(* alike (map lookups and IsZero).  Fields the code writes and never reads *)
(* (titles, last_error*, last_success_sync_at, shutdown_sent_at) are left  *)
(* out, and next_announce_at belongs to RconCountdown.                     *)
(***************************************************************************)
EXTENDS Naturals

CONSTANTS
    Servers,    \* ids of cfg.Servers
    Mods,       \* workshop ids: naturals, so that sort.Strings has an order
    Slugs,      \* folder names SlugifyFolder can produce
    NoSlug,     \* FolderSlug of a mod no modlist has named yet
    NoHash,     \* the empty LastModsetHash of a server never polled
    Grace       \* shutdown.grace_period_seconds

ASSUME ModsAreNaturals == Mods \subseteq Nat
ASSUME NoSlugIsNoFolder == NoSlug \notin Slugs
ASSUME GraceIsPositive == Grace \in Nat \ {0}

Stages == {"idle", "planning", "local_updating", "syncing", "countdown",
           "shutting_down", "error"}

\* Only equality of hashes is ever tested, and the hash is taken of the
\* sorted ids, so it stands for the set of ids.
HashModset(ids) == [sha256 |-> ids]

ASSUME NoHashIsNoSet == \A ids \in SUBSET Mods : HashModset(ids) # NoHash

ModState == [folderSlug        : Slugs \cup {NoSlug},
             workshopUpdatedAt : Nat,
             localUpdatedAt    : Nat]

ServerState == [lastModIDs         : SUBSET Mods,
                lastModsetHash     : {HashModset(ids) : ids \in SUBSET Mods}
                                         \cup {NoHash},
                needsModUpdate     : BOOLEAN,
                needsShutdown      : BOOLEAN,
                stage              : Stages,
                syncedMods         : [Mods -> Nat],
                shutdownDeadlineAt : Nat]

\* defaultState with normalize: an entry the JSON does not have reads as
\* the zero value, with the stage normalize puts in.
ZeroMod == [folderSlug |-> NoSlug, workshopUpdatedAt |-> 0,
            localUpdatedAt |-> 0]

ZeroServer == [lastModIDs         |-> {},
               lastModsetHash     |-> NoHash,
               needsModUpdate     |-> FALSE,
               needsShutdown      |-> FALSE,
               stage              |-> "idle",
               syncedMods         |-> [m \in Mods |-> 0],
               shutdownDeadlineAt |-> 0]

-----------------------------------------------------------------------------
(* modlist.ApplyPollResult: list maps the ids of the polled modlist to the *)
(* folder names their display names give.                                  *)

ModsetChanged(srv, list) ==
    /\ srv.lastModsetHash # NoHash
    /\ srv.lastModsetHash # HashModset(DOMAIN list)

ApplyPollResult(srv, list) ==
    [srv EXCEPT
        !.lastModIDs     = DOMAIN list,
        !.lastModsetHash = HashModset(DOMAIN list),
        !.needsModUpdate = @ \/ ModsetChanged(srv, list),
        !.stage          = IF ModsetChanged(srv, list) THEN "planning" ELSE @]

NameMods(ms, list) ==
    [m \in Mods |-> IF m \in DOMAIN list
                    THEN [ms[m] EXCEPT !.folderSlug = list[m]]
                    ELSE ms[m]]

-----------------------------------------------------------------------------
(* workshop.PollMetadata                                                   *)

CandidateModIDs(ss) == UNION {ss[s].lastModIDs : s \in Servers}

\* Mutant: newer versions of a mod already there are not looked for.
NeedsFirstDownloadOnly(mod) == mod.localUpdatedAt = 0

NeedsLocalUpdate(mod) ==
    \/ mod.localUpdatedAt = 0
    \/ mod.workshopUpdatedAt > mod.localUpdatedAt

CheckedMod(mod, updatedAt) ==
    [mod EXCEPT !.workshopUpdatedAt = IF updatedAt > @ THEN updatedAt ELSE @]

-----------------------------------------------------------------------------
(* steamcmd.UpdateMods, after MirrorWorkshopContent has succeeded          *)

DownloadedMod(mod, now) ==
    [mod EXCEPT !.localUpdatedAt = IF mod.workshopUpdatedAt = 0
                                   THEN now ELSE mod.workshopUpdatedAt]

\* Mutant: a server in its countdown is left alone.
MarkServersNotCountingDown(ss, m) ==
    [s \in Servers |->
        IF m \in ss[s].lastModIDs /\ ss[s].stage # "countdown"
        THEN [ss[s] EXCEPT !.needsModUpdate = TRUE, !.stage = "planning"]
        ELSE ss[s]]

MarkServersUsingModForPlanning(ss, m) ==
    [s \in Servers |-> IF m \in ss[s].lastModIDs
                       THEN [ss[s] EXCEPT !.needsModUpdate = TRUE,
                                          !.stage = "planning"]
                       ELSE ss[s]]

-----------------------------------------------------------------------------
(* sftpsync.syncServer                                                     *)

\* Ids of the list that state.Mods has an entry for.
KnownMods(srv, ms) == {m \in srv.lastModIDs : ms[m].folderSlug # NoSlug}

NeverDownloaded(srv, ms) ==
    {m \in KnownMods(srv, ms) : ms[m].localUpdatedAt = 0}

ModsToSync(srv, ms) ==
    {m \in KnownMods(srv, ms) : ms[m].localUpdatedAt # srv.syncedMods[m]}

\* Mutant: needs_mod_update is not dropped.
StartCountdownStillMarked(srv, now) ==
    [srv EXCEPT !.needsShutdown      = TRUE,
                !.stage              = "countdown",
                !.shutdownDeadlineAt = now + Grace]

\* Mutant: a stage state.Stage does not have.
StartCountdownMisspelt(srv, now) ==
    [srv EXCEPT !.needsModUpdate     = FALSE,
                !.needsShutdown      = TRUE,
                !.stage              = "counting_down",
                !.shutdownDeadlineAt = now + Grace]

StartCountdown(srv, now) ==
    [srv EXCEPT !.needsModUpdate     = FALSE,
                !.needsShutdown      = TRUE,
                !.stage              = "countdown",
                !.shutdownDeadlineAt = now + Grace]

SyncError(srv) == [srv EXCEPT !.needsModUpdate = TRUE, !.stage = "error"]

-----------------------------------------------------------------------------
(* rcon.Controller.Tick                                                    *)

\* Mutant: off by one tick.
CountdownRunningOneTickLess(srv, now) ==
    /\ srv.shutdownDeadlineAt # 0
    /\ now + 1 < srv.shutdownDeadlineAt

CountdownRunning(srv, now) ==
    /\ srv.shutdownDeadlineAt # 0
    /\ now < srv.shutdownDeadlineAt

\* Mutant: the stage is not reset.
ShutdownSentSameStage(srv) == [srv EXCEPT !.needsShutdown = FALSE]

ShutdownSent(srv) == [srv EXCEPT !.needsShutdown = FALSE, !.stage = "idle"]
=============================================================================
