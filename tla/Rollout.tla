------------------------------ MODULE Rollout ------------------------------
(***************************************************************************)
(* How a mod update gets from its download to the game servers, without    *)
(* the phases, goroutines, saves and crashes of the daemon: what may ever  *)
(* happen to the lists, versions and marks in state.json, and to the       *)
(* folders that the servers have and run.  A failure or a crash is a step  *)
(* that is not taken.                                                      *)
(***************************************************************************)
EXTENDS Naturals

CONSTANTS
    Servers,
    Mods,
    Complete    \* no sync round is cut short by a graceful stop

VARIABLES
    listed,     \* the mods each server lists
    known,      \* servers whose list has been read at least once
    version,    \* local version of each mod, 0 before the first download
    synced,     \* the version each server was last synced to
    pending,    \* servers marked for a sync
    restarts,   \* servers that owe a restart
    folders,    \* what is in the mod folders of each server
    runs        \* what was in them when its game last started

vars == <<listed, known, version, synced, pending, restarts, folders, runs>>

Init == /\ listed = [s \in Servers |-> {}]
        /\ known = {}
        /\ version = [m \in Mods |-> 0]
        /\ synced = [s \in Servers |-> [m \in Mods |-> 0]]
        /\ pending = {}
        /\ restarts = {}
        /\ runs = folders

\* A list that has changed since the last poll marks its server.
Poll(s) ==
    /\ \E ids \in SUBSET Mods :
          /\ listed' = [listed EXCEPT ![s] = ids]
          /\ pending' = IF s \in known /\ ids # listed[s]
                        THEN pending \cup {s} ELSE pending
    /\ known' = known \cup {s}
    /\ UNCHANGED <<version, synced, restarts, folders, runs>>

\* A newer version marks all servers that list the mod.
Download(m) ==
    /\ version' = [version EXCEPT ![m] = version'[m]]
    /\ version'[m] > version[m]
    /\ pending' = pending \cup {s \in Servers : m \in listed[s]}
    /\ UNCHANGED <<listed, known, synced, restarts, folders, runs>>

\* Only the folders of a marked server are touched.
CopyTo(s) ==
    /\ s \in pending
    /\ folders' = [folders EXCEPT ![s] = folders'[s]]
    /\ UNCHANGED <<listed, known, version, synced, pending, restarts, runs>>

\* A round trades marks for restarts: all of them at once, each server with
\* every mod of its list in the local version, unless a stop cuts it.
SyncRound(done) ==
    /\ done \subseteq pending
    /\ pending' = pending \ done
    /\ restarts' = restarts \cup done
    /\ \A s \in Servers, m \in Mods : synced'[s][m] \in {synced[s][m], version[m]}
    /\ \A s \in Servers \ done : synced'[s] = synced[s]
    /\ Complete => /\ done = pending
                   /\ \A s \in done : \A m \in listed[s] :
                         synced'[s][m] = version[m] /\ version[m] # 0
    /\ UNCHANGED <<listed, known, version, folders, runs>>

\* A server that owes a restart starts with the folders it has, maybe again
\* and again until that is recorded.
Restart(s) ==
    /\ s \in restarts
    /\ runs' = [runs EXCEPT ![s] = folders[s]]
    /\ UNCHANGED <<listed, known, version, synced, pending, restarts, folders>>

RecordRestarts(done) ==
    /\ done \subseteq restarts
    /\ \A s \in done : runs[s] = folders[s]
    /\ restarts' = restarts \ done
    /\ UNCHANGED <<listed, known, version, synced, pending, folders, runs>>

Next == \/ \E s \in Servers : Poll(s) \/ CopyTo(s) \/ Restart(s)
        \/ \E m \in Mods : Download(m)
        \/ \E done \in SUBSET Servers : SyncRound(done) \/ RecordRestarts(done)

Spec == Init /\ [][Next]_vars

-----------------------------------------------------------------------------
\* A server with nothing pending runs exactly what is in its folders.
NoUnseenChange == \A s \in Servers \ (pending \cup restarts) : runs[s] = folders[s]
=============================================================================
