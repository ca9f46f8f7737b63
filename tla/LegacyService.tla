--------------------------- MODULE LegacyService ---------------------------
(***************************************************************************)
(* The older program, dayz-updater: cycle after cycle it loads state.json, *)
(* asks the Steam Web API for the mods of its configuration, plans what is *)
(* newer than its record, mirrors those folders one after the other,       *)
(* oldest publication first, and saves once at the end.  It downloads      *)
(* nothing: someone else keeps the local folders.                          *)
(***************************************************************************)
EXTENDS Integers

CONSTANTS
    Mods,        \* cfg.Mods
    Mixed,       \* a remote folder that a sync has begun to change
    None,        \* no mod
    LastPublish  \* bound: the last version published

ASSUME LastPublishIsNat == LastPublish \in Nat
ASSUME MarkersDiffer == Mixed \notin Int /\ None \notin Mods

VARIABLES
    published,  \* the version, a time, of each mod on the Steam Workshop
    local,      \* the version in each LocalPath
    remote,     \* the version in each RemotePath, or Mixed
    disk,       \* last_synced_at in state.json
    phase,      \* how far runOnce is
    st,         \* the state it works on
    details,    \* the versions the API answered
    plan,       \* the mods of actions still to be synced
    current,    \* the mod that is being synced
    calm        \* nothing fails any more

vars == <<published, local, remote, disk, phase, st, details, plan, current, calm>>

\* An item without time_updated decodes to 1970; the zero time is before it.
Dateless == 0
NoRecord == -1
Missing == -1
NoAnswer == -2

Init == /\ published = [m \in Mods |-> 1]
        /\ local = [m \in Mods |-> 1]
        /\ remote = [m \in Mods |-> Missing]
        /\ disk = [m \in Mods |-> NoRecord]
        /\ phase = "idle"
        /\ st = disk
        /\ details = [m \in Mods |-> NoAnswer]
        /\ plan = {}
        /\ current = None
        /\ calm = FALSE

\* Mutant: a mod without a record is not planned.
BuildPlanOfKnown(answer) == {m \in Mods : st[m] # NoRecord /\ answer[m] > st[m]}
\* An answer for a mod never synced is planned whatever its time.
BuildPlan(answer) == {m \in Mods : answer[m] > st[m]}

BeginCycle == /\ phase = "idle"
              /\ phase' = "fetching"
              /\ st' = disk
              /\ UNCHANGED <<published, local, remote, disk, details, plan, current, calm>>

\* The API answers for the mods of found, for those of dated with their time.
FetchModDetails(found, dated) ==
    /\ phase = "fetching"
    /\ details' = [m \in Mods |-> IF m \notin found THEN NoAnswer
                                  ELSE IF m \in dated THEN published[m] ELSE Dateless]
    /\ plan' = BuildPlan(details')
    /\ phase' = IF plan' = {} THEN "idle" ELSE "syncing"
    /\ UNCHANGED <<published, local, remote, disk, st, current, calm>>

StartSync(m) ==
    /\ phase = "syncing"
    /\ current = None
    /\ m \in plan
    /\ \A n \in plan : details[m] <= details[n]
    /\ current' = m
    /\ remote' = [remote EXCEPT ![m] = Mixed]
    /\ UNCHANGED <<published, local, disk, phase, st, details, plan, calm>>

EndSync ==
    /\ phase = "syncing"
    /\ current # None
    /\ remote' = [remote EXCEPT ![current] = local[current]]
    /\ st' = [st EXCEPT ![current] = details[current]]
    /\ plan' = plan \ {current}
    /\ current' = None
    /\ UNCHANGED <<published, local, disk, phase, details, calm>>

\* Mutant: a mod that fails is skipped, and recorded with the rest.
AbandonCycleRecording ==
    /\ phase # "idle"
    /\ ~calm
    /\ current' = None
    /\ disk' = IF current # None THEN [st EXCEPT ![current] = details[current]] ELSE disk
    /\ phase' = "idle"
    /\ plan' = {}
    /\ UNCHANGED <<published, local, remote, st, details, calm>>

\* The first error ends the cycle, and what it had synced is not recorded: the
\* request, dialing, a folder or the save fails, or the process is stopped or
\* dies.
AbandonCycle ==
    /\ phase # "idle"
    /\ ~calm
    /\ current' = None
    /\ phase' = "idle"
    /\ plan' = {}
    /\ UNCHANGED <<published, local, remote, disk, st, details, calm>>

SaveCycle == /\ phase = "syncing"
             /\ plan = {}
             /\ disk' = st
             /\ phase' = "idle"
             /\ UNCHANGED <<published, local, remote, st, details, plan, current, calm>>

\* The world.
PublishMod(m) == /\ published[m] < LastPublish
                 /\ published' = [published EXCEPT ![m] = @ + 1]
                 /\ UNCHANGED <<local, remote, disk, phase, st, details, plan, current, calm>>
RefreshLocal(m) == /\ local[m] # published[m]
                   /\ current # m
                   /\ local' = [local EXCEPT ![m] = published[m]]
                   /\ UNCHANGED <<published, remote, disk, phase, st, details, plan, current, calm>>
CalmDown == /\ ~calm
            /\ calm' = TRUE
            /\ UNCHANGED <<published, local, remote, disk, phase, st, details, plan, current>>

FullAnswer == FetchModDetails(Mods, Mods)
Answers == \E found \in SUBSET Mods : \E dated \in SUBSET found : FetchModDetails(found, dated)
Cycle == BeginCycle \/ Answers \/ (\E m \in Mods : StartSync(m)) \/ EndSync \/ SaveCycle
World == CalmDown \/ \E m \in Mods : PublishMod(m) \/ RefreshLocal(m)
Next == Cycle \/ AbandonCycle \/ World

Spec == Init /\ [][Next]_vars
\* The ticker fires again, a call ends, and the API answers in full some time.
Fairness == WF_vars(Cycle) /\ WF_vars(CalmDown) /\ SF_vars(FullAnswer)
FairSpec == Spec /\ Fairness

-----------------------------------------------------------------------------
(* Properties *)

Record == {NoRecord} \cup Nat
TypeOK == /\ published \in [Mods -> Nat]
          /\ local \in [Mods -> Nat]
          /\ remote \in [Mods -> Nat \cup {Missing, Mixed}]
          /\ disk \in [Mods -> Record]
          /\ phase \in {"idle", "fetching", "syncing"}
          /\ st \in [Mods -> Record]
          /\ details \in [Mods -> Record \cup {NoAnswer}]
          /\ plan \subseteq Mods
          /\ current \in Mods \cup {None}
          /\ calm \in BOOLEAN

\* What is recorded was mirrored completely; what is being mirrored, or was
\* mirrored in a cycle that failed, is still due by its record.
RecordIsBehind ==
    \A m \in Mods :
        /\ remote[m] \in {Missing, Mixed} => disk[m] < published[m]
        /\ disk[m] <= published[m]

\* A cycle's state is the disk's but for the mods it has mirrored.
CycleGoesByPlan ==
    /\ phase = "fetching" => st = disk
    /\ phase # "syncing" => current = None
    /\ current # None => current \in plan
    /\ phase = "syncing" =>
        \A m \in Mods :
            /\ m \in plan => /\ disk[m] < details[m] /\ details[m] <= published[m]
                             /\ st[m] = disk[m]
            /\ m \notin plan => \/ st[m] = disk[m]
                                \/ /\ remote[m] \notin {Missing, Mixed}
                                   /\ st[m] <= published[m]

\* The inductive invariant.
LegacyInv == TypeOK /\ RecordIsBehind /\ CycleGoesByPlan

\* A mod no cycle would sync again is whole on the server, whichever mod of
\* which cycle failed and lost the records of the ones before it.
UpToDateIsWhole ==
    \A m \in Mods : disk[m] >= published[m] => remote[m] \notin {Missing, Mixed}

\* Failing cycles do not lose a publication: it is recorded in the end.
PublicationsAreRecorded ==
    \A m \in Mods, v \in 1..LastPublish : published[m] = v ~> disk[m] >= v
=============================================================================
