------------------------------ MODULE SftpSync ------------------------------
(***************************************************************************)
(* syncMod at file level: the local folder of one mod, its folder on the   *)
(* server, and runs that list both, plan the difference and carry it out   *)
(* operation by operation.  A run may be cut (connection, timeout, crash)  *)
(* between any two operations; later runs start from what it left.         *)
(*                                                                         *)
(* MirrorWorkshopContent copies every file anew, so all files of a local   *)
(* folder are as new as the download they came with: epoch is its number,  *)
(* and stands for the content and the mtime of its files.  Every version   *)
(* of a file has one size, the case where only the mtime tells.            *)
(***************************************************************************)
EXTENDS Integers, Sequences, FiniteSets

CONSTANTS
    Paths,      \* paths below the mod's folder: sequences of names
    TempNames,  \* names <file>.tmp-<nanos> an upload may pick
    None,       \* an mtime the server chose; the data of no whole file
    MaxEpoch,   \* bound: how often the mod is downloaded
    MaxCuts     \* bound: how often a run is cut

Root == <<>>
Parent(p) == SubSeq(p, 1, Len(p) - 1)
Ancestors(p) == {SubSeq(p, 1, n) : n \in 0..(Len(p) - 1)}
TempPaths == {Append(Parent(p), t) : p \in Paths, t \in TempNames}

ASSUME PathsAreSequences == \A p \in Paths : p \in Seq(STRING) /\ p # Root
ASSUME PathsHaveParents == \A p \in Paths : Parent(p) \in Paths \cup {Root}
ASSUME TempNamesAreNew == Paths \cap TempPaths = {} /\ Root \notin TempPaths
ASSUME NoneIsNoNumber == None \notin Nat
ASSUME SyncBounds == MaxEpoch \in Nat \ {0} /\ MaxCuts \in Nat
\* A cut leaves at most one temp file, so a free name is always left.
ASSUME EnoughTempNames == Cardinality(TempNames) > MaxCuts

Kinds == {"dir", "file"}
Entry == [kind : Kinds, data : Nat \cup {None}, mtime : Nat \cup {None}]
Dir == [kind |-> "dir", data |-> None, mtime |-> None]

IsTree(t) == \A p \in DOMAIN t : \A q \in Ancestors(p) \ {Root} :
                 q \in DOMAIN t /\ t[q] = "dir"
Trees == {t \in UNION {[D -> Kinds] : D \in SUBSET Paths} : IsTree(t)}

VARIABLES
    local,      \* the local folder: kind of each path in it
    epoch,      \* the download its files come from
    remote,     \* the folder on the server; Root is in it when it exists
    replaces,   \* whether the server's RENAME replaces an existing file
    stale,      \* synced_mods does not say local_updated_at
    phase,      \* what the run of syncMod is doing
    plan,       \* operations it still has to carry out
    upload,     \* the file it is uploading and its temp file
    cuts        \* how many runs were cut

vars == <<local, epoch, remote, replaces, stale, phase, plan, upload, cuts>>

NoPlan == [typeConflicts |-> {}, mkdirs |-> {}, uploads |-> {},
           extraFiles |-> {}, extraDirs |-> {}]
NoUpload == [file |-> Root, temp |-> Root]

\* What somebody may have copied there by hand: no file of it has the mtime of
\* a local file.
Foreign(t) == [p \in DOMAIN t \cup {Root} |->
                  IF p = Root \/ t[p] = "dir" THEN Dir
                  ELSE [kind |-> "file", data |-> 0, mtime |-> None]]

Init == /\ local \in Trees
        /\ epoch = 1
        /\ remote \in {Foreign(t) : t \in Trees} \cup {[p \in {} |-> Dir]}
        /\ replaces \in BOOLEAN
        /\ stale = TRUE
        /\ phase = "idle"
        /\ plan = NoPlan
        /\ upload = NoUpload
        /\ cuts = 0

-----------------------------------------------------------------------------
(* The plan *)

Exists(p) == p \in DOMAIN remote
IsKind(p, kind) == Exists(p) /\ remote[p].kind = kind
Children(p) == {q \in DOMAIN remote : q # Root /\ Parent(q) = p}
Locals(kind) == {p \in DOMAIN local : local[p] = kind}
Size(data) == IF data = None THEN 0 ELSE 1
\* Mutant: only sizes are compared.
DiffersInSize(p) == Size(remote[p].data) # Size(epoch)

Differs(p) == \/ Size(remote[p].data) # Size(epoch)
              \/ remote[p].mtime # epoch

\* Mutant: the walk lists the mod's folder itself.
BuildPlanWithRoot == [typeConflicts |-> {p \in DOMAIN local : Exists(p) /\ ~IsKind(p, local[p])},
                      mkdirs |-> {p \in Locals("dir") : ~IsKind(p, "dir")},
                      uploads |-> {p \in Locals("file") : ~IsKind(p, "file") \/ Differs(p)},
                      extraFiles |-> {p \in DOMAIN remote \ DOMAIN local : IsKind(p, "file")},
                      extraDirs |-> {p \in DOMAIN remote \ DOMAIN local : IsKind(p, "dir")}]

\* A missing remote folder reads as an empty tree.
BuildPlan == [typeConflicts |-> {p \in DOMAIN local : Exists(p) /\ ~IsKind(p, local[p])},
              mkdirs |-> {p \in Locals("dir") : ~IsKind(p, "dir")},
              uploads |-> {p \in Locals("file") : ~IsKind(p, "file") \/ Differs(p)},
              extraFiles |-> {p \in DOMAIN remote \ DOMAIN local :
                                 p # Root /\ IsKind(p, "file")},
              extraDirs |-> {p \in DOMAIN remote \ DOMAIN local :
                                p # Root /\ IsKind(p, "dir")}]

Deepest(S) == {p \in S : \A q \in S : Len(q) <= Len(p)}
Shallowest(S) == {p \in S : \A q \in S : Len(p) <= Len(q)}

\* syncMod finishes one list before it starts the next; entries of one depth
\* are in the order of their paths, which here may be any order.
ConflictsGone == plan.typeConflicts = {}
FoldersMade == ConflictsGone /\ plan.mkdirs = {}
FilesUploaded == FoldersMade /\ plan.uploads = {}
FilesRemoved == FilesUploaded /\ plan.extraFiles = {}
NextConflicts == Deepest(plan.typeConflicts)
NextMkdirs == {p \in Shallowest(plan.mkdirs) : ConflictsGone}
\* Mutant: files before folders.
NextUploadsEarly == {p \in plan.uploads : ConflictsGone}
\* Mutant: shallow directories first.
NextExtraDirsShallow == {p \in Shallowest(plan.extraDirs) : FilesRemoved}

NextUploads == {p \in plan.uploads : FoldersMade}
NextExtraFiles == {p \in plan.extraFiles : FilesUploaded}
NextExtraDirs == {p \in Deepest(plan.extraDirs) : FilesRemoved}

-----------------------------------------------------------------------------
(* The server *)

Without(p) == [q \in DOMAIN remote \ {p} |-> remote[q]]
With(p, entry) == [q \in DOMAIN remote \cup {p} |-> IF q = p THEN entry ELSE remote[q]]
\* REMOVE and RMDIR of what exists; a directory has to be empty.
CanRemove(p) == Exists(p) /\ Children(p) = {}
\* MkdirAll: no ancestor may be a file.
CanMkdir(p) == \A q \in Ancestors(p) \cup {p} : ~IsKind(q, "file")
Mkdir(p) == [q \in DOMAIN remote \cup Ancestors(p) \cup {p} |->
                IF Exists(q) THEN remote[q] ELSE Dir]
CanCreate(p) == IsKind(Parent(p), "dir")
CanRename(p) == ~Exists(p) \/ (replaces /\ IsKind(p, "file"))

-----------------------------------------------------------------------------
(* One run *)

StartSync == /\ phase = "idle"
             /\ stale
             /\ phase' = "sync"
             /\ plan' = BuildPlan
             /\ UNCHANGED <<local, epoch, remote, replaces, stale, upload, cuts>>

Remove(p) == /\ phase = "sync"
             /\ CanRemove(p)
             /\ remote' = Without(p)
             /\ UNCHANGED <<local, epoch, replaces, stale, phase, upload, cuts>>

DeleteTypeConflict == \E p \in NextConflicts :
    Remove(p) /\ plan' = [plan EXCEPT !.typeConflicts = @ \ {p}]
DeleteExtraFile == \E p \in NextExtraFiles :
    Remove(p) /\ plan' = [plan EXCEPT !.extraFiles = @ \ {p}]
DeleteExtraDir == \E p \in NextExtraDirs :
    Remove(p) /\ plan' = [plan EXCEPT !.extraDirs = @ \ {p}]

MakeDir == /\ phase = "sync"
           /\ \E p \in NextMkdirs : /\ CanMkdir(p)
                                    /\ remote' = Mkdir(p)
                                    /\ plan' = [plan EXCEPT !.mkdirs = @ \ {p}]
           /\ UNCHANGED <<local, epoch, replaces, stale, phase, upload, cuts>>

\* Mutant: the upload writes to the file itself.
CreateInPlace == /\ phase = "sync"
                 /\ \E p \in NextUploads :
                        /\ CanCreate(p)
                        /\ remote' = With(p, [kind |-> "file", data |-> None, mtime |-> None])
                        /\ upload' = [file |-> p, temp |-> p]
                 /\ phase' = "copying"
                 /\ UNCHANGED <<local, epoch, replaces, stale, plan, cuts>>

\* uploadAtomically creates a temp file beside the file and copies into it.
CreateTemp == /\ phase = "sync"
              /\ \E p \in NextUploads, t \in TempNames :
                     LET temp == Append(Parent(p), t)
                     IN  /\ CanCreate(p)
                         /\ ~Exists(temp)
                         /\ remote' = With(temp, [kind |-> "file", data |-> None, mtime |-> None])
                         /\ upload' = [file |-> p, temp |-> temp]
              /\ phase' = "copying"
              /\ UNCHANGED <<local, epoch, replaces, stale, plan, cuts>>

\* Mutant: the old file is removed before the rename.
RemoveThenRename == /\ phase = "copying"
                    /\ Exists(upload.file)
                    /\ remote' = Without(upload.file)
                    /\ UNCHANGED <<local, epoch, replaces, stale, phase, plan, upload, cuts>>

\* The copy is whole and closed; the rename puts it in place.
RenameTemp == /\ phase = "copying"
              /\ CanRename(upload.file)
              /\ remote' = [q \in (DOMAIN remote \cup {upload.file}) \ {upload.temp} |->
                               IF q = upload.file
                               THEN [kind |-> "file", data |-> epoch, mtime |-> None]
                               ELSE remote[q]]
              /\ phase' = "renamed"
              /\ UNCHANGED <<local, epoch, replaces, stale, plan, upload, cuts>>

SetMtime == /\ phase = "renamed"
            /\ remote' = [remote EXCEPT ![upload.file].mtime = epoch]
            /\ plan' = [plan EXCEPT !.uploads = @ \ {upload.file}]
            /\ phase' = "sync"
            /\ upload' = NoUpload
            /\ UNCHANGED <<local, epoch, replaces, stale, cuts>>

FinishSync == /\ phase = "sync"
              /\ FilesRemoved
              /\ plan.extraDirs = {}
              /\ phase' = "idle"
              /\ stale' = FALSE
              /\ UNCHANGED <<local, epoch, remote, replaces, plan, upload, cuts>>

-----------------------------------------------------------------------------
(* What ends a run early *)

Stop == /\ phase' = "idle"
        /\ plan' = NoPlan
        /\ upload' = NoUpload

Refused == \/ \E p \in NextConflicts \cup NextExtraFiles \cup NextExtraDirs : ~CanRemove(p)
           \/ \E p \in NextMkdirs : ~CanMkdir(p)
           \/ \E p \in NextUploads : ~CanCreate(p)

\* The server refuses the next operation.
OperationRefused == /\ phase = "sync"
                    /\ Refused
                    /\ Stop
                    /\ UNCHANGED <<local, epoch, remote, replaces, stale, cuts>>

\* The rename is refused; uploadAtomically removes its temp file.
RenameRefused == /\ phase = "copying"
                 /\ ~CanRename(upload.file)
                 /\ remote' = Without(upload.temp)
                 /\ Stop
                 /\ UNCHANGED <<local, epoch, replaces, stale, cuts>>

\* An operation fails, ctx is done between two uploads, the connection breaks
\* or the process dies: the temp file is removed if the server still answers.
Cut == /\ phase # "idle"
       /\ cuts < MaxCuts
       /\ cuts' = cuts + 1
       /\ \/ UNCHANGED remote
          \/ phase = "copying" /\ remote' = Without(upload.temp)
       /\ Stop
       /\ UNCHANGED <<local, epoch, replaces, stale>>

\* A new version is downloaded: no sync runs meanwhile, as both are handlers
\* of the daemon's loop.
Download == /\ phase = "idle"
            /\ epoch < MaxEpoch
            /\ epoch' = epoch + 1
            /\ local' \in Trees
            /\ stale' = TRUE
            /\ UNCHANGED <<remote, replaces, phase, plan, upload, cuts>>

SyncStep == \/ StartSync
            \/ DeleteTypeConflict
            \/ MakeDir
            \/ CreateTemp
            \/ RenameTemp
            \/ SetMtime
            \/ DeleteExtraFile
            \/ DeleteExtraDir
            \/ FinishSync
            \/ OperationRefused
            \/ RenameRefused

Next == SyncStep \/ Cut \/ Download

Spec == Init /\ [][Next]_vars
\* A mod that is not synced is tried again, and every call of a run returns.
FairSpec == Spec /\ WF_vars(SyncStep)

-----------------------------------------------------------------------------
(* Properties *)

TypeOK == /\ local \in Trees
          /\ epoch \in 1..MaxEpoch
          /\ DOMAIN remote \subseteq Paths \cup TempPaths \cup {Root}
          /\ \A p \in DOMAIN remote : remote[p] \in Entry
          /\ replaces \in BOOLEAN
          /\ stale \in BOOLEAN
          /\ phase \in {"idle", "sync", "copying", "renamed"}
          /\ plan \in [typeConflicts : SUBSET Paths, mkdirs : SUBSET Paths,
                      uploads : SUBSET Paths,
                      extraFiles : SUBSET (Paths \cup TempPaths),
                      extraDirs : SUBSET (Paths \cup TempPaths)]
          /\ upload \in [file : Paths \cup {Root}, temp : TempPaths \cup {Root}]
          /\ cuts \in 0..MaxCuts

\* The server has exactly the local folder, every file whole and of this
\* download.
Mirrored == /\ DOMAIN remote \ {Root} = DOMAIN local
            /\ \A p \in DOMAIN local : /\ remote[p].kind = local[p]
                                       /\ local[p] = "file" => remote[p].data = epoch

\* A run that ends well leaves an exact copy, whatever earlier runs and hands
\* had left there: what syncServer records as synced is synced.
SuccessMeansMirrored == ~stale => Mirrored

\* Under its own name a file is whole: one download's copy or what was there.
NoHalfFileInPlace == \A p \in DOMAIN remote \cap Paths :
                         remote[p].kind = "file" => remote[p].data # None

\* An mtime that is not the server's own says which download the data is of.
MtimesAreHonest == \A p \in DOMAIN remote :
    remote[p].kind = "file" /\ remote[p].mtime # None => remote[p].data = remote[p].mtime

\* During a run, whatever the plan does not mention any more is as it should be.
PlanCoversTheRest ==
    /\ \A p \in DOMAIN local : \/ p \in plan.mkdirs \cup plan.uploads
                               \/ /\ IsKind(p, local[p])
                                  /\ local[p] = "file" => remote[p].data = epoch
    /\ \A p \in DOMAIN remote \ {Root} :
           \/ p \in DOMAIN local \cup plan.extraFiles \cup plan.extraDirs
           \/ phase = "copying" /\ p = upload.temp
    /\ plan.mkdirs \subseteq Locals("dir")
    /\ plan.uploads \subseteq Locals("file")
    /\ plan.typeConflicts \subseteq plan.mkdirs \cup plan.uploads
    /\ (plan.extraFiles \cup plan.extraDirs) \cap DOMAIN local = {}

UploadIsPlanned ==
    phase \in {"copying", "renamed"} =>
        /\ upload.file \in plan.uploads /\ FoldersMade
        /\ upload.temp \in TempPaths
        /\ phase = "renamed" => /\ Exists(upload.file)
                                /\ remote[upload.file]
                                     = [kind |-> "file", data |-> epoch, mtime |-> None]

\* The remote folder is a tree below its root, as the server keeps it.
RemoteIsTree == \A p \in DOMAIN remote : /\ IsKind(Root, "dir")
                                         /\ p # Root => IsKind(Parent(p), "dir")

\* The lists of deletions name what is there, in the kind it was listed with.
DeletionsAreThere ==
    /\ plan.typeConflicts \subseteq DOMAIN remote
    /\ \A p \in DOMAIN local \cap DOMAIN remote :
           p \in plan.typeConflicts <=> remote[p].kind # local[p]
    /\ \A p \in plan.extraFiles : IsKind(p, "file")
    /\ \A p \in plan.extraDirs : IsKind(p, "dir")

TempIsBesideFile ==
    phase = "copying" => /\ IsKind(upload.temp, "file")
                         /\ Parent(upload.temp) = Parent(upload.file)
                         /\ upload.temp \notin plan.extraFiles \cup plan.extraDirs

\* Copies: what a run still has to do is what its plan says.
CopyInv == /\ TypeOK
           /\ SuccessMeansMirrored
           /\ NoHalfFileInPlace
           /\ MtimesAreHonest
           /\ phase # "idle" => PlanCoversTheRest
           /\ UploadIsPlanned
           /\ ~stale => phase = "idle"

\* Order: what the plan deletes is still as it was listed.
OrderInv == /\ RemoteIsTree
            /\ phase # "idle" => DeletionsAreThere
            /\ TempIsBesideFile

\* The inductive invariant.
SyncInv == CopyInv /\ OrderInv

\* What no retry gets past: a file has to replace a directory that is not empty
\* (its children are only deleted at the end), a folder without directories has
\* no remote folder to go to, or the server does not replace files on RENAME.
Blocked == \/ \E p \in Locals("file") : IsKind(p, "dir") /\ Children(p) # {}
           \/ ~Exists(Root) /\ Locals("dir") = {}
           \/ ~replaces /\ \E p \in Locals("file") : IsKind(p, "file") /\ Differs(p)

\* The lists are in an order the server accepts: nothing is refused for a
\* missing parent or a directory that is not empty yet.
OrderIsAccepted == phase = "sync" /\ Refused => Blocked

\* No entry the local folder has too, of the same kind, is ever taken away on
\* the way to the new version: the running server keeps its files.
ListedEntriesStay ==
    [][\A p \in DOMAIN local \cap DOMAIN remote :
           remote[p].kind = local[p] => p \in DOMAIN remote']_remote

\* Retries converge: in the end the mod is synced or one of those cases holds.
SyncsConverge == []<>(~stale \/ Blocked)
=============================================================================
