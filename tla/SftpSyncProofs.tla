--------------------------- MODULE SftpSyncProofs ---------------------------
(***************************************************************************)
(* A sync that succeeds leaves an exact copy of the local folder, and no   *)
(* file is ever half written under its own name: for every set of paths,   *)
(* every local and remote tree, any number of downloads and cuts.  The     *)
(* invariant follows the plan: what it does not mention any more is done.  *)
(***************************************************************************)
EXTENDS SftpSync, SequenceTheorems, TLAPS

LEMMA LocalIsTree ==
    ASSUME TypeOK
    PROVE  /\ DOMAIN local \subseteq Paths
           /\ \A p \in DOMAIN local : local[p] \in Kinds
           /\ \A p \in DOMAIN local : \A q \in Ancestors(p) \ {Root} : q \in Locals("dir")
  BY DEF TypeOK, Trees, IsTree, Locals

LEMMA RootIsNoPath == Root \notin Paths
  BY PathsAreSequences

LEMMA TempsAreNoPaths ==
    ASSUME NEW p \in Paths, NEW t \in TempNames
    PROVE  /\ Append(Parent(p), t) \in TempPaths
           /\ Append(Parent(p), t) \notin Paths \cup {Root}
  <1>1. Append(Parent(p), t) \in TempPaths
    BY DEF TempPaths
  <1>2. QED
    BY <1>1, TempNamesAreNew

-----------------------------------------------------------------------------
\* Paths are sequences: prefixes, parents and ancestors.
LEMMA PrefixProperties ==
    ASSUME NEW S, NEW s \in Seq(S), NEW n \in 0..Len(s)
    PROVE  /\ SubSeq(s, 1, n) \in Seq(S)
           /\ Len(SubSeq(s, 1, n)) = n
           /\ \A i \in 1..n : SubSeq(s, 1, n)[i] = s[i]
  <1>1. \A i \in 1..n : s[i] \in S
    OBVIOUS
  <1>2. QED
    BY <1>1, SubSeqProperties

LEMMA PrefixOfPrefix ==
    ASSUME NEW S, NEW s \in Seq(S), NEW n \in 0..Len(s), NEW k \in 0..n
    PROVE  SubSeq(SubSeq(s, 1, n), 1, k) = SubSeq(s, 1, k)
  <1> DEFINE u == SubSeq(s, 1, n)
             v == SubSeq(u, 1, k)
             w == SubSeq(s, 1, k)
  <1>1. u \in Seq(S) /\ Len(u) = n /\ \A i \in 1..n : u[i] = s[i]
    BY PrefixProperties
  <1>2. w \in Seq(S) /\ Len(w) = k /\ \A i \in 1..k : w[i] = s[i]
    BY PrefixProperties
  <1> HIDE DEF u
  <1>3. v \in Seq(S) /\ Len(v) = k /\ \A i \in 1..k : v[i] = u[i]
    BY <1>1, PrefixProperties
  <1> HIDE DEF v, w
  <1>4. v = w
    BY <1>1, <1>2, <1>3, SeqEqual
  <1>5. QED
    BY <1>4 DEF u, v, w

LEMMA ParentOfAppend ==
    ASSUME NEW S, NEW s \in Seq(S), NEW t \in S
    PROVE  Parent(Append(s, t)) = s
  <1> DEFINE a == Append(s, t)
             v == SubSeq(a, 1, Len(s))
  <1>1. a \in Seq(S) /\ Len(a) = Len(s) + 1 /\ \A i \in 1..Len(s) : a[i] = s[i]
    OBVIOUS
  <1> HIDE DEF a
  <1>2. v \in Seq(S) /\ Len(v) = Len(s) /\ \A i \in 1..Len(s) : v[i] = a[i]
    BY <1>1, PrefixProperties
  <1>3. Len(a) - 1 = Len(s)
    BY <1>1
  <1> HIDE DEF v
  <1>4. v = s
    BY <1>1, <1>2, SeqEqual
  <1>5. QED
    BY <1>3, <1>4 DEF Parent, a, v

LEMMA LengthOfPath ==
    ASSUME NEW p \in Paths
    PROVE  /\ p \in Seq(STRING) /\ Len(p) \in Nat \ {0}
           /\ Parent(p) \in Seq(STRING) /\ Len(Parent(p)) = Len(p) - 1
           /\ Parent(p) \in Ancestors(p)
  <1>1. p \in Seq(STRING) /\ p # <<>>
    BY PathsAreSequences DEF Root
  <1>2. Len(p) \in Nat \ {0} /\ Len(p) - 1 \in 0..Len(p)
    BY <1>1
  <1>3. Parent(p) \in Seq(STRING) /\ Len(Parent(p)) = Len(p) - 1
    BY <1>1, <1>2, PrefixProperties DEF Parent
  <1>4. Parent(p) \in Ancestors(p)
    BY <1>2 DEF Parent, Ancestors
  <1>5. QED
    BY <1>1, <1>2, <1>3, <1>4

LEMMA AncestorsAreClosed ==
    ASSUME NEW p \in Paths, NEW q \in Ancestors(p) \cup {p}, q # Root
    PROVE  Parent(q) \in Ancestors(p)
  <1>1. CASE q = p
    BY <1>1, LengthOfPath
  <1>2. CASE q \in Ancestors(p)
    <2>1. PICK n \in 0..(Len(p) - 1) : q = SubSeq(p, 1, n)
      BY <1>2 DEF Ancestors
    <2>2. p \in Seq(STRING) /\ Len(p) \in Nat \ {0} /\ n \in 0..Len(p)
      BY LengthOfPath
    <2>3. q \in Seq(STRING) /\ Len(q) = n
      BY <2>1, <2>2, PrefixProperties
    <2>4. n # 0
      BY <2>3 DEF Root
    <2>5. n - 1 \in 0..n /\ n - 1 \in 0..(Len(p) - 1)
      BY <2>2, <2>4
    <2>6. SubSeq(SubSeq(p, 1, n), 1, n - 1) = SubSeq(p, 1, n - 1)
      BY <2>2, <2>5, PrefixOfPrefix
    <2>7. QED
      BY <2>1, <2>3, <2>5, <2>6 DEF Parent, Ancestors
  <1>3. QED
    BY <1>1, <1>2

LEMMA ParentOfTemp ==
    ASSUME NEW p \in Paths, NEW t \in TempNames
    PROVE  /\ Parent(Append(Parent(p), t)) = Parent(p)
           /\ Len(Append(Parent(p), t)) = Len(p)
  <1> DEFINE S == STRING \cup TempNames
  <1>1. Parent(p) \in Seq(STRING) /\ Len(Parent(p)) = Len(p) - 1 /\ Len(p) \in Nat
    BY LengthOfPath
  <1>2. Parent(p) \in Seq(S) /\ t \in S
    BY <1>1
  <1>3. Len(Append(Parent(p), t)) = Len(p)
    BY <1>1, <1>2
  <1> HIDE DEF S
  <1>4. QED
    BY <1>2, <1>3, ParentOfAppend

LEMMA ChildrenAreLonger ==
    ASSUME NEW q \in Paths \cup TempPaths
    PROVE  Len(q) \in Nat /\ Len(Parent(q)) < Len(q)
  <1>1. CASE q \in Paths
    BY <1>1, LengthOfPath
  <1>2. CASE q \in TempPaths
    <2>1. PICK p \in Paths, t \in TempNames : q = Append(Parent(p), t)
      BY <1>2 DEF TempPaths
    <2>2. Parent(q) = Parent(p) /\ Len(q) = Len(p)
      BY <2>1, ParentOfTemp
    <2>3. QED
      BY <2>2, LengthOfPath
  <1>3. QED
    BY <1>1, <1>2

LEMMA LocalParents ==
    ASSUME TypeOK, NEW p \in DOMAIN local
    PROVE  Parent(p) \in Locals("dir") \cup {Root}
  BY LocalIsTree, LengthOfPath

LEMMA EntriesAreEntries ==
    ASSUME NEW data \in Nat \cup {None}, NEW mtime \in Nat \cup {None}
    PROVE  [kind |-> "file", data |-> data, mtime |-> mtime] \in Entry /\ Dir \in Entry
  BY DEF Entry, Kinds, Dir

LEMMA InitHasCopyInv == Init => CopyInv
  <1> SUFFICES ASSUME Init PROVE CopyInv
    OBVIOUS
  <1>1. PICK R : /\ DOMAIN remote \subseteq Paths \cup {Root}
                 /\ \A p \in DOMAIN remote :
                        \/ remote[p] = Dir
                        \/ remote[p] = [kind |-> "file", data |-> 0, mtime |-> None]
    <2>1. CASE remote = [p \in {} |-> Dir]
      BY <2>1
    <2>2. CASE \E t \in Trees : remote = Foreign(t)
      BY <2>2 DEF Foreign, Trees
    <2>3. QED
      BY <2>1, <2>2 DEF Init
  <1>2. \A p \in DOMAIN remote : remote[p] \in Entry
    BY <1>1, EntriesAreEntries
  <1>3. TypeOK
    <2>1. epoch \in 1..MaxEpoch /\ cuts \in 0..MaxCuts
      BY SyncBounds DEF Init
    <2>2. plan \in [typeConflicts : SUBSET Paths, mkdirs : SUBSET Paths,
                    uploads : SUBSET Paths,
                    extraFiles : SUBSET (Paths \cup TempPaths),
                    extraDirs : SUBSET (Paths \cup TempPaths)]
      BY DEF Init, NoPlan
    <2>3. upload \in [file : Paths \cup {Root}, temp : TempPaths \cup {Root}]
      BY DEF Init, NoUpload
    <2>4. QED
      BY <1>1, <1>2, <2>1, <2>2, <2>3 DEF Init, TypeOK
  <1>4. NoHalfFileInPlace /\ MtimesAreHonest
    BY <1>1, NoneIsNoNumber DEF NoHalfFileInPlace, MtimesAreHonest, Dir
  <1>5. QED
    BY <1>3, <1>4 DEF CopyInv, Init, SuccessMeansMirrored, UploadIsPlanned

-----------------------------------------------------------------------------
LEMMA StartKeepsCopyInv ==
    ASSUME CopyInv, StartSync PROVE CopyInv'
  <1> USE DEF CopyInv
  <1>1. TypeOK'
    <2>1. /\ DOMAIN local \subseteq Paths
          /\ DOMAIN remote \ {Root} \subseteq Paths \cup TempPaths
      BY LocalIsTree DEF TypeOK
    <2>2. BuildPlan \in [typeConflicts : SUBSET Paths, mkdirs : SUBSET Paths,
                         uploads : SUBSET Paths,
                         extraFiles : SUBSET (Paths \cup TempPaths),
                         extraDirs : SUBSET (Paths \cup TempPaths)]
      BY <2>1 DEF BuildPlan, Locals
    <2>3. QED
      BY <2>2 DEF TypeOK, StartSync
  <1>2. PlanCoversTheRest'
    <2>1. \A p \in DOMAIN local : ~Differs(p) /\ IsKind(p, "file") => remote[p].data = epoch
      BY NoneIsNoNumber DEF Differs, MtimesAreHonest, TypeOK, IsKind, Exists
    <2>2. \A p \in DOMAIN local : local[p] \in {"dir", "file"}
      BY LocalIsTree DEF Kinds
    <2>3. \A p \in DOMAIN remote : remote[p].kind \in {"dir", "file"}
      BY DEF TypeOK, Entry, Kinds
    <2> DEFINE P == BuildPlan
    <2>4. \A p \in DOMAIN local : \/ p \in P.mkdirs \cup P.uploads
                                  \/ /\ IsKind(p, local[p])
                                     /\ local[p] = "file" => remote[p].data = epoch
      BY <2>1, <2>2 DEF BuildPlan, Locals
    <2>5. \A p \in DOMAIN remote \ {Root} : p \in DOMAIN local \cup P.extraFiles \cup P.extraDirs
      BY <2>3 DEF BuildPlan, IsKind, Exists
    <2>6. /\ P.mkdirs \subseteq Locals("dir")
          /\ P.uploads \subseteq Locals("file")
          /\ (P.extraFiles \cup P.extraDirs) \cap DOMAIN local = {}
      BY DEF BuildPlan
    <2>7. P.typeConflicts \subseteq P.mkdirs \cup P.uploads
      BY <2>2 DEF BuildPlan, Locals
    <2>8. /\ plan' = P /\ local' = local /\ remote' = remote /\ epoch' = epoch
          /\ phase' = "sync"
      BY DEF StartSync
    <2> HIDE DEF P
    <2>9. QED
      BY <2>4, <2>5, <2>6, <2>7, <2>8 DEF PlanCoversTheRest, IsKind, Exists, Locals
  <1>3. QED
    BY <1>1, <1>2 DEF StartSync, SuccessMeansMirrored, Mirrored, NoHalfFileInPlace,
       MtimesAreHonest, UploadIsPlanned

\* Removing an entry that is not in the local folder, or one whose replacement
\* is still planned.
LEMMA RemovalKeepsCopyInv ==
    ASSUME CopyInv, DeleteTypeConflict \/ DeleteExtraFile \/ DeleteExtraDir
    PROVE  CopyInv'
  <1> USE DEF CopyInv
  <1>1. PICK p : /\ Remove(p)
                 /\ \/ /\ p \in plan.typeConflicts
                       /\ plan' = [plan EXCEPT !.typeConflicts = @ \ {p}]
                    \/ /\ p \in plan.extraFiles
                       /\ plan' = [plan EXCEPT !.extraFiles = @ \ {p}]
                    \/ /\ p \in plan.extraDirs
                       /\ plan' = [plan EXCEPT !.extraDirs = @ \ {p}]
    BY DEF DeleteTypeConflict, DeleteExtraFile, DeleteExtraDir, NextConflicts,
       NextExtraFiles, NextExtraDirs, Deepest
  <1>2. /\ DOMAIN remote' = DOMAIN remote \ {p}
        /\ \A q \in DOMAIN remote' : remote'[q] = remote[q]
    BY <1>1 DEF Remove, Without
  <1>3. /\ UNCHANGED <<local, epoch, replaces, stale, phase, upload, cuts>>
        /\ phase = "sync"
    BY <1>1 DEF Remove
  <1>4. TypeOK'
    BY <1>1, <1>2, <1>3 DEF TypeOK
  <1>5. NoHalfFileInPlace' /\ MtimesAreHonest'
    BY <1>2, <1>3 DEF NoHalfFileInPlace, MtimesAreHonest
  <1>6. PlanCoversTheRest'
    BY <1>1, <1>2, <1>3 DEF PlanCoversTheRest, IsKind, Exists, Locals, TypeOK
  <1>7. QED
    BY <1>3, <1>4, <1>5, <1>6 DEF SuccessMeansMirrored, UploadIsPlanned

LEMMA MakeDirKeepsCopyInv ==
    ASSUME CopyInv, MakeDir PROVE CopyInv'
  <1> USE DEF CopyInv
  <1>1. PICK p \in plan.mkdirs : /\ CanMkdir(p)
                                 /\ remote' = Mkdir(p)
                                 /\ plan' = [plan EXCEPT !.mkdirs = @ \ {p}]
                                 /\ ConflictsGone
    BY DEF MakeDir, NextMkdirs, Shallowest
  <1>2. /\ UNCHANGED <<local, epoch, replaces, stale, phase, upload, cuts>>
        /\ phase = "sync"
    BY DEF MakeDir
  <1>3. p \in Locals("dir")
    BY <1>1, <1>2 DEF PlanCoversTheRest
  <1>4. /\ DOMAIN remote' = DOMAIN remote \cup Ancestors(p) \cup {p}
        /\ \A q \in DOMAIN remote' : remote'[q] = IF q \in DOMAIN remote THEN remote[q] ELSE Dir
    BY <1>1 DEF Mkdir, Exists
  <1>5. DOMAIN remote' \subseteq DOMAIN remote \cup Locals("dir") \cup {Root}
    BY <1>3, <1>4, LocalIsTree DEF Locals
  <1>6. Locals("dir") \subseteq Paths
    BY LocalIsTree DEF Locals
  <1>7. TypeOK'
    <2>1. \A q \in DOMAIN remote' : remote'[q] \in Entry
      BY <1>4, EntriesAreEntries, SyncBounds DEF TypeOK
    <2>2. DOMAIN remote' \subseteq Paths \cup TempPaths \cup {Root}
      BY <1>5, <1>6 DEF TypeOK
    <2>3. QED
      BY <1>1, <1>2, <2>1, <2>2 DEF TypeOK
  <1>8. NoHalfFileInPlace' /\ MtimesAreHonest'
    BY <1>4, <1>2 DEF NoHalfFileInPlace, MtimesAreHonest, Dir
  <1>9. p \in DOMAIN remote' /\ remote'[p].kind = "dir"
    BY <1>1, <1>4 DEF CanMkdir, IsKind, Exists, TypeOK, Entry, Kinds, Dir
  <1>10. PlanCoversTheRest'
    <2>1. \A q \in DOMAIN remote : q \in DOMAIN remote' /\ remote'[q] = remote[q]
      BY <1>4
    <2>2. \A q \in DOMAIN local' : \/ q \in plan'.mkdirs \cup plan'.uploads
                                   \/ /\ IsKind(q, local[q])'
                                      /\ local'[q] = "file" => remote'[q].data = epoch'
      BY <1>1, <1>2, <1>3, <1>9, <2>1 DEF PlanCoversTheRest, IsKind, Exists, Locals, TypeOK
    <2>3. \A q \in DOMAIN remote' \ {Root} :
             q \in DOMAIN local' \cup plan'.extraFiles \cup plan'.extraDirs
      BY <1>1, <1>2, <1>5 DEF PlanCoversTheRest, Locals, TypeOK
    <2>4. QED
      BY <1>1, <1>2, <2>2, <2>3 DEF PlanCoversTheRest, Locals, TypeOK, ConflictsGone
  <1>11. QED
    BY <1>2, <1>7, <1>8, <1>10 DEF SuccessMeansMirrored, UploadIsPlanned

LEMMA CreateKeepsCopyInv ==
    ASSUME CopyInv, CreateTemp PROVE CopyInv'
  <1> USE DEF CopyInv
  <1>1. PICK p \in plan.uploads, t \in TempNames :
            /\ FoldersMade
            /\ ~Exists(Append(Parent(p), t))
            /\ remote' = With(Append(Parent(p), t),
                              [kind |-> "file", data |-> None, mtime |-> None])
            /\ upload' = [file |-> p, temp |-> Append(Parent(p), t)]
    BY DEF CreateTemp, NextUploads
  <1> DEFINE temp == Append(Parent(p), t)
  <1>2. p \in Paths /\ temp \in TempPaths /\ temp \notin Paths \cup {Root}
    BY <1>1, TempsAreNoPaths DEF TypeOK
  <1>3. /\ UNCHANGED <<local, epoch, replaces, stale, plan, cuts>>
        /\ phase = "sync" /\ phase' = "copying"
    BY DEF CreateTemp
  <1>4. /\ DOMAIN remote' = DOMAIN remote \cup {temp}
        /\ remote'[temp] = [kind |-> "file", data |-> None, mtime |-> None]
        /\ \A q \in DOMAIN remote : remote'[q] = remote[q]
    BY <1>1 DEF With, Exists
  <1> HIDE DEF temp
  <1>5. TypeOK'
    <2>1. \A q \in DOMAIN remote' : remote'[q] \in Entry
      <3>1. [kind |-> "file", data |-> None, mtime |-> None] \in Entry
        BY EntriesAreEntries
      <3>2. QED
        BY <3>1, <1>4 DEF TypeOK
    <2>2. upload' \in [file : Paths \cup {Root}, temp : TempPaths \cup {Root}]
      BY <1>1, <1>2 DEF temp
    <2>3. QED
      BY <1>2, <1>3, <1>4, <2>1, <2>2 DEF TypeOK
  <1>6. NoHalfFileInPlace' /\ MtimesAreHonest'
    BY <1>2, <1>4 DEF NoHalfFileInPlace, MtimesAreHonest, TypeOK
  <1>7. PlanCoversTheRest'
    <2>1. upload'.temp = temp
      BY <1>1 DEF temp
    <2>2. \A q \in DOMAIN remote' \ {Root} :
             \/ q \in DOMAIN local' \cup plan'.extraFiles \cup plan'.extraDirs
             \/ phase' = "copying" /\ q = upload'.temp
      BY <1>3, <1>4, <2>1 DEF PlanCoversTheRest
    <2>3. QED
      BY <1>3, <1>4, <2>2 DEF PlanCoversTheRest, IsKind, Exists, Locals
  <1>8. UploadIsPlanned'
    BY <1>1, <1>2, <1>3 DEF UploadIsPlanned, FoldersMade, ConflictsGone, temp
  <1>9. QED
    BY <1>3, <1>5, <1>6, <1>7, <1>8 DEF SuccessMeansMirrored

LEMMA RenameKeepsCopyInv ==
    ASSUME CopyInv, RenameTemp PROVE CopyInv'
  <1> USE DEF CopyInv
  <1> DEFINE f == upload.file
             whole == [kind |-> "file", data |-> epoch, mtime |-> None]
  <1>1. /\ UNCHANGED <<local, epoch, replaces, stale, plan, upload, cuts>>
        /\ phase = "copying" /\ phase' = "renamed"
    BY DEF RenameTemp
  <1>2. /\ f \in plan.uploads /\ FoldersMade
        /\ f \in Locals("file") /\ f \in Paths
        /\ upload.temp \in TempPaths
    BY <1>1 DEF UploadIsPlanned, PlanCoversTheRest, TypeOK
  <1>3. f # upload.temp /\ upload.temp \notin Paths
    BY <1>2, TempNamesAreNew
  <1>4. /\ DOMAIN remote' = (DOMAIN remote \cup {f}) \ {upload.temp}
        /\ remote'[f] = whole
        /\ \A q \in DOMAIN remote' : q # f => remote'[q] = remote[q]
    BY <1>3 DEF RenameTemp
  <1>5. epoch \in Nat
    BY DEF TypeOK
  <1> HIDE DEF f
  <1>6. TypeOK'
    <2>1. \A q \in DOMAIN remote' : remote'[q] \in Entry
      <3>1. whole \in Entry
        BY <1>5, EntriesAreEntries
      <3>2. QED
        BY <3>1, <1>4 DEF TypeOK
    <2>2. QED
      BY <1>1, <1>2, <1>4, <2>1 DEF TypeOK
  <1>7. NoHalfFileInPlace' /\ MtimesAreHonest'
    BY <1>4, <1>5, NoneIsNoNumber DEF NoHalfFileInPlace, MtimesAreHonest
  <1>8. DOMAIN local \subseteq Paths
    BY LocalIsTree
  <1>9. PlanCoversTheRest'
    <2>1. \A q \in DOMAIN local' : \/ q \in plan'.mkdirs \cup plan'.uploads
                                   \/ /\ IsKind(q, local[q])'
                                      /\ local'[q] = "file" => remote'[q].data = epoch'
      BY <1>1, <1>2, <1>3, <1>4, <1>8 DEF PlanCoversTheRest, IsKind, Exists
    <2>2. \A q \in DOMAIN remote' \ {Root} :
             q \in DOMAIN local' \cup plan'.extraFiles \cup plan'.extraDirs
      BY <1>1, <1>2, <1>4 DEF PlanCoversTheRest, Locals
    <2>3. QED
      BY <1>1, <2>1, <2>2 DEF PlanCoversTheRest, Locals
  <1>10. UploadIsPlanned'
    BY <1>1, <1>2, <1>3, <1>4 DEF UploadIsPlanned, FoldersMade, ConflictsGone, Exists, f
  <1>11. QED
    BY <1>1, <1>6, <1>7, <1>9, <1>10 DEF SuccessMeansMirrored

LEMMA SetMtimeKeepsCopyInv ==
    ASSUME CopyInv, SetMtime PROVE CopyInv'
  <1> USE DEF CopyInv
  <1> DEFINE f == upload.file
  <1>1. /\ UNCHANGED <<local, epoch, replaces, stale, cuts>>
        /\ phase = "renamed" /\ phase' = "sync"
        /\ plan' = [plan EXCEPT !.uploads = @ \ {f}]
        /\ upload' = NoUpload
    BY DEF SetMtime
  <1>2. /\ f \in DOMAIN remote
        /\ remote[f] = [kind |-> "file", data |-> epoch, mtime |-> None]
        /\ f \in plan.uploads /\ FoldersMade /\ f \in Locals("file")
    BY <1>1 DEF UploadIsPlanned, PlanCoversTheRest, Exists
  <1>3. /\ DOMAIN remote' = DOMAIN remote
        /\ remote'[f] = [kind |-> "file", data |-> epoch, mtime |-> epoch]
        /\ \A q \in DOMAIN remote : q # f => remote'[q] = remote[q]
    BY <1>2 DEF SetMtime
  <1>4. epoch \in Nat
    BY DEF TypeOK
  <1> HIDE DEF f
  <1>5. TypeOK'
    <2>1. \A q \in DOMAIN remote' : remote'[q] \in Entry
      BY <1>3, <1>4, EntriesAreEntries DEF TypeOK
    <2>2. QED
      BY <1>1, <1>3, <2>1 DEF TypeOK, NoUpload
  <1>6. NoHalfFileInPlace' /\ MtimesAreHonest'
    BY <1>3, <1>4, NoneIsNoNumber DEF NoHalfFileInPlace, MtimesAreHonest
  <1>7. PlanCoversTheRest'
    <2>1. \A q \in DOMAIN local' : \/ q \in plan'.mkdirs \cup plan'.uploads
                                   \/ /\ IsKind(q, local[q])'
                                      /\ local'[q] = "file" => remote'[q].data = epoch'
      BY <1>1, <1>2, <1>3 DEF PlanCoversTheRest, IsKind, Exists, Locals, TypeOK
    <2>2. \A q \in DOMAIN remote' \ {Root} :
             q \in DOMAIN local' \cup plan'.extraFiles \cup plan'.extraDirs
      BY <1>1, <1>3 DEF PlanCoversTheRest, TypeOK
    <2>3. QED
      BY <1>1, <1>2, <2>1, <2>2 DEF PlanCoversTheRest, Locals, TypeOK, FoldersMade, ConflictsGone
  <1>8. QED
    BY <1>1, <1>5, <1>6, <1>7 DEF SuccessMeansMirrored, UploadIsPlanned

\* The plan is empty, so everything is as it should be.
LEMMA FinishKeepsCopyInv ==
    ASSUME CopyInv, FinishSync PROVE CopyInv'
  <1> USE DEF CopyInv
  <1>1. /\ plan.mkdirs = {} /\ plan.uploads = {}
        /\ plan.extraFiles = {} /\ plan.extraDirs = {} /\ phase = "sync"
    BY DEF FinishSync, FilesRemoved, FilesUploaded, FoldersMade
  <1>2. Mirrored
    <2>1. Root \notin DOMAIN local
      BY LocalIsTree, RootIsNoPath
    <2>2. QED
      BY <1>1, <2>1 DEF PlanCoversTheRest, Mirrored, IsKind, Exists
  <1>3. QED
    BY <1>2 DEF FinishSync, TypeOK, SuccessMeansMirrored, Mirrored,
       NoHalfFileInPlace, MtimesAreHonest, UploadIsPlanned

\* A run that ends early leaves the mod unsynced.
LEMMA StopKeepsCopyInv ==
    ASSUME CopyInv, OperationRefused \/ RenameRefused \/ Cut
    PROVE  CopyInv'
  <1> USE DEF CopyInv
  <1>1. /\ UNCHANGED <<local, epoch, replaces, stale>>
        /\ phase # "idle" /\ phase' = "idle"
        /\ plan' = NoPlan /\ upload' = NoUpload
        /\ cuts' \in 0..MaxCuts
    BY SyncBounds DEF OperationRefused, RenameRefused, Cut, Stop, TypeOK
  <1>2. /\ DOMAIN remote' \subseteq DOMAIN remote
        /\ \A q \in DOMAIN remote' : remote'[q] = remote[q]
    BY DEF OperationRefused, RenameRefused, Cut, Without
  <1>3. TypeOK'
    BY <1>1, <1>2 DEF TypeOK, NoPlan, NoUpload
  <1>4. NoHalfFileInPlace' /\ MtimesAreHonest'
    BY <1>2 DEF NoHalfFileInPlace, MtimesAreHonest
  <1>5. QED
    BY <1>1, <1>3, <1>4 DEF SuccessMeansMirrored, UploadIsPlanned

LEMMA DownloadKeepsCopyInv ==
    ASSUME CopyInv, Download PROVE CopyInv'
  BY SyncBounds DEF CopyInv, Download, TypeOK, SuccessMeansMirrored,
     NoHalfFileInPlace, MtimesAreHonest, UploadIsPlanned

LEMMA StutterKeepsCopyInv ==
    ASSUME CopyInv, UNCHANGED vars PROVE CopyInv'
  BY DEF CopyInv, vars, TypeOK, SuccessMeansMirrored, Mirrored, NoHalfFileInPlace,
     MtimesAreHonest, PlanCoversTheRest, UploadIsPlanned, IsKind, Exists, Locals,
     FoldersMade, ConflictsGone

-----------------------------------------------------------------------------
LEMMA InitHasOrderInv == Init => OrderInv
  <1> SUFFICES ASSUME Init PROVE OrderInv
    OBVIOUS
  <1>1. RemoteIsTree
    <2>1. CASE remote = [p \in {} |-> Dir]
      BY <2>1 DEF RemoteIsTree
    <2>2. ASSUME NEW t \in Trees, remote = Foreign(t) PROVE RemoteIsTree
      <3>1. DOMAIN t \subseteq Paths /\ IsTree(t)
        BY DEF Trees
      <3>2. DOMAIN remote = DOMAIN t \cup {Root}
        BY <2>2 DEF Foreign
      <3>3. \A p \in DOMAIN remote : p = Root \/ t[p] = "dir" => remote[p].kind = "dir"
        BY <2>2, <3>2 DEF Foreign, Dir
      <3>4. \A p \in DOMAIN t : Parent(p) = Root \/ (Parent(p) \in DOMAIN t /\ t[Parent(p)] = "dir")
        BY <3>1, LengthOfPath DEF IsTree
      <3>5. QED
        BY <3>2, <3>3, <3>4 DEF RemoteIsTree, IsKind, Exists
    <2>3. QED
      BY <2>1, <2>2 DEF Init
  <1>2. QED
    BY <1>1 DEF OrderInv, Init, TempIsBesideFile

LEMMA StartKeepsOrderInv ==
    ASSUME CopyInv, OrderInv, StartSync PROVE OrderInv'
  <1>1. \A p \in DOMAIN remote : remote[p].kind \in Kinds
    BY DEF CopyInv, TypeOK, Entry
  <1>2. /\ plan' = BuildPlan /\ local' = local /\ remote' = remote /\ phase' = "sync"
    BY DEF StartSync
  <1>3. DeletionsAreThere'
    BY <1>1, <1>2 DEF DeletionsAreThere, BuildPlan, IsKind, Exists
  <1>4. RemoteIsTree'
    BY <1>2 DEF OrderInv, RemoteIsTree, IsKind, Exists
  <1>5. QED
    BY <1>2, <1>3, <1>4 DEF OrderInv, TempIsBesideFile

\* An entry without children may go.
LEMMA RemovalKeepsOrderInv ==
    ASSUME CopyInv, OrderInv, DeleteTypeConflict \/ DeleteExtraFile \/ DeleteExtraDir
    PROVE  OrderInv'
  <1>1. PICK p : /\ Remove(p)
                 /\ \/ /\ p \in plan.typeConflicts
                       /\ plan' = [plan EXCEPT !.typeConflicts = @ \ {p}]
                    \/ /\ p \in plan.extraFiles
                       /\ plan' = [plan EXCEPT !.extraFiles = @ \ {p}]
                    \/ /\ p \in plan.extraDirs
                       /\ plan' = [plan EXCEPT !.extraDirs = @ \ {p}]
    BY DEF DeleteTypeConflict, DeleteExtraFile, DeleteExtraDir, NextConflicts,
       NextExtraFiles, NextExtraDirs, Deepest
  <1>2. /\ DOMAIN remote' = DOMAIN remote \ {p}
        /\ \A q \in DOMAIN remote' : remote'[q] = remote[q]
        /\ Children(p) = {}
    BY <1>1 DEF Remove, Without, CanRemove
  <1>3. local' = local /\ phase = "sync" /\ phase' = "sync"
    BY <1>1 DEF Remove
  <1>4. p # Root
    BY <1>1, RootIsNoPath, TempNamesAreNew DEF CopyInv, TypeOK
  <1>5. RemoteIsTree'
    <2>1. \A q \in DOMAIN remote' : q # Root => Parent(q) # p
      BY <1>2 DEF Children
    <2>2. QED
      BY <1>2, <1>4, <2>1 DEF OrderInv, RemoteIsTree, IsKind, Exists
  <1>6. /\ plan.typeConflicts \cap (plan.extraFiles \cup plan.extraDirs) = {}
        /\ plan.extraFiles \cap plan.extraDirs = {}
    BY <1>3 DEF CopyInv, PlanCoversTheRest, Locals, OrderInv, DeletionsAreThere, IsKind
  <1>7. DeletionsAreThere'
    <2>1. DeletionsAreThere
      BY <1>3 DEF OrderInv
    <2>2. plan \in [typeConflicts : SUBSET Paths, mkdirs : SUBSET Paths,
                    uploads : SUBSET Paths,
                    extraFiles : SUBSET (Paths \cup TempPaths),
                    extraDirs : SUBSET (Paths \cup TempPaths)]
      BY DEF CopyInv, TypeOK
    <2>3. QED
      BY <1>1, <1>2, <1>3, <1>6, <2>1, <2>2 DEF DeletionsAreThere, IsKind, Exists
  <1>8. QED
    BY <1>3, <1>5, <1>7 DEF OrderInv, TempIsBesideFile

\* What MkdirAll makes are local directories and the root, none of which is a
\* file on the server any more.
LEMMA MakeDirKeepsOrderInv ==
    ASSUME CopyInv, OrderInv, MakeDir PROVE OrderInv'
  <1>1. PICK p \in plan.mkdirs : /\ CanMkdir(p)
                                 /\ remote' = Mkdir(p)
                                 /\ plan' = [plan EXCEPT !.mkdirs = @ \ {p}]
                                 /\ ConflictsGone
    BY DEF MakeDir, NextMkdirs, Shallowest
  <1>2. local' = local /\ phase = "sync" /\ phase' = "sync"
    BY DEF MakeDir
  <1>3. TypeOK /\ p \in Paths /\ p \in Locals("dir")
    BY <1>1, <1>2, LocalIsTree DEF CopyInv, PlanCoversTheRest, Locals
  <1> DEFINE new == Ancestors(p) \cup {p}
  <1>4. /\ DOMAIN remote' = DOMAIN remote \cup new
        /\ \A q \in DOMAIN remote' : remote'[q] = IF q \in DOMAIN remote THEN remote[q] ELSE Dir
    BY <1>1 DEF Mkdir, Exists
  <1>5. \A q \in DOMAIN remote : remote[q].kind \in {"dir", "file"}
    BY <1>3 DEF TypeOK, Entry, Kinds
  <1>6. \A q \in new : remote'[q].kind = "dir"
    BY <1>1, <1>4, <1>5 DEF CanMkdir, IsKind, Exists, Dir
  <1>7. \A q \in new : q # Root => Parent(q) \in Ancestors(p)
    BY <1>3, AncestorsAreClosed
  <1>8. Root \in new
    <2>1. p \in Seq(STRING) /\ Len(p) \in Nat \ {0} /\ 0 \in 0..(Len(p) - 1)
      BY <1>3, LengthOfPath
    <2>2. SubSeq(p, 1, 0) = <<>>
      BY SubSeqEmpty
    <2>3. QED
      BY <2>1, <2>2 DEF Ancestors, Root
  <1>9. RemoteIsTree'
    <2> HIDE DEF new
    <2>1. \A q \in DOMAIN remote : q # Root => Parent(q) \in DOMAIN remote /\ remote[Parent(q)].kind = "dir"
      BY DEF OrderInv, RemoteIsTree, IsKind, Exists
    <2>2. Root \in DOMAIN remote' /\ remote'[Root].kind = "dir"
      BY <1>4, <1>6, <1>8
    <2>3. ASSUME NEW q \in DOMAIN remote', q # Root
          PROVE  Parent(q) \in DOMAIN remote' /\ remote'[Parent(q)].kind = "dir"
      <3>1. CASE q \in DOMAIN remote
        BY <1>4, <2>1, <2>3, <3>1
      <3>2. CASE q \in new
        BY <1>4, <1>6, <1>7, <2>3, <3>2 DEF new
      <3>3. QED
        BY <1>4, <3>1, <3>2
    <2>4. QED
      BY <2>2, <2>3 DEF RemoteIsTree, IsKind, Exists
  <1>10. \A q \in new \cap DOMAIN local : local[q] = "dir"
    BY <1>3, LocalIsTree, RootIsNoPath DEF Locals
  <1>11. DeletionsAreThere'
    <2> HIDE DEF new
    <2>1. DeletionsAreThere /\ plan.typeConflicts = {}
      BY <1>1, <1>2 DEF OrderInv, ConflictsGone
    <2>2. /\ plan'.typeConflicts = {}
          /\ plan'.extraFiles = plan.extraFiles /\ plan'.extraDirs = plan.extraDirs
      BY <1>1, <1>3, <2>1 DEF TypeOK
    <2>3. \A q \in DOMAIN local \cap DOMAIN remote' : remote'[q].kind = local[q]
      BY <1>4, <1>6, <1>10, <2>1 DEF DeletionsAreThere
    <2>4. QED
      BY <1>2, <1>4, <2>1, <2>2, <2>3 DEF DeletionsAreThere, IsKind, Exists
  <1>12. QED
    BY <1>2, <1>9, <1>11 DEF OrderInv, TempIsBesideFile

LEMMA CreateKeepsOrderInv ==
    ASSUME CopyInv, OrderInv, CreateTemp PROVE OrderInv'
  <1>1. PICK p \in plan.uploads, t \in TempNames :
            /\ ConflictsGone
            /\ CanCreate(p)
            /\ ~Exists(Append(Parent(p), t))
            /\ remote' = With(Append(Parent(p), t),
                              [kind |-> "file", data |-> None, mtime |-> None])
            /\ upload' = [file |-> p, temp |-> Append(Parent(p), t)]
    BY DEF CreateTemp, NextUploads, FoldersMade
  <1> DEFINE temp == Append(Parent(p), t)
  <1>2. /\ local' = local /\ plan' = plan
        /\ phase = "sync" /\ phase' = "copying"
    BY DEF CreateTemp
  <1>3. p \in Paths
    BY <1>1 DEF CopyInv, TypeOK
  <1>4. /\ temp \in TempPaths /\ temp \notin Paths \cup {Root}
        /\ Parent(temp) = Parent(p)
    BY <1>3, TempsAreNoPaths, ParentOfTemp
  <1>5. upload'.temp = temp /\ upload'.file = p
    BY <1>1
  <1>6. /\ DOMAIN remote' = DOMAIN remote \cup {temp}
        /\ temp \notin DOMAIN remote
        /\ remote'[temp].kind = "file"
        /\ \A q \in DOMAIN remote : remote'[q] = remote[q]
    BY <1>1 DEF With, Exists
  <1>7. IsKind(Parent(temp), "dir")
    BY <1>1, <1>4 DEF CanCreate
  <1> HIDE DEF temp
  <1>8. RemoteIsTree'
    BY <1>6, <1>7 DEF OrderInv, RemoteIsTree, IsKind, Exists
  <1>9. DOMAIN local \subseteq Paths
    BY LocalIsTree DEF CopyInv
  <1>10. DeletionsAreThere'
    BY <1>2, <1>4, <1>6, <1>9 DEF OrderInv, DeletionsAreThere, IsKind, Exists
  <1>11. TempIsBesideFile'
    BY <1>2, <1>4, <1>5, <1>6 DEF OrderInv, DeletionsAreThere, TempIsBesideFile, IsKind, Exists
  <1>12. QED
    BY <1>8, <1>10, <1>11 DEF OrderInv

LEMMA RenameKeepsOrderInv ==
    ASSUME CopyInv, OrderInv, RenameTemp PROVE OrderInv'
  <1> DEFINE f == upload.file
             temp == upload.temp
  <1>1. /\ UNCHANGED <<local, plan>>
        /\ phase = "copying" /\ phase' = "renamed"
    BY DEF RenameTemp
  <1>2. /\ f \in plan.uploads /\ ConflictsGone
        /\ f \in Locals("file") /\ f \in Paths
        /\ temp \in TempPaths
    BY <1>1 DEF CopyInv, UploadIsPlanned, PlanCoversTheRest, TypeOK, FoldersMade
  <1>3. f # temp /\ f # Root /\ temp # Root /\ temp \notin Paths
    BY <1>2, TempNamesAreNew, RootIsNoPath
  <1>4. /\ DOMAIN remote' = (DOMAIN remote \cup {f}) \ {temp}
        /\ remote'[f].kind = "file"
        /\ \A q \in DOMAIN remote' : q # f => remote'[q] = remote[q]
    BY <1>3 DEF RenameTemp
  <1>5. f \notin DOMAIN remote \/ remote[f].kind = "file"
    BY DEF RenameTemp, CanRename, IsKind, Exists
  <1>6. /\ temp \in DOMAIN remote /\ remote[temp].kind = "file"
        /\ Parent(temp) = Parent(f)
        /\ temp \notin plan.extraFiles \cup plan.extraDirs
    BY <1>1 DEF OrderInv, TempIsBesideFile, IsKind, Exists
  <1> HIDE DEF f, temp
  <1>7. RemoteIsTree'
    <2>1. \A q \in DOMAIN remote : q # Root => Parent(q) \in DOMAIN remote /\ remote[Parent(q)].kind = "dir"
      BY DEF OrderInv, RemoteIsTree, IsKind, Exists
    <2>2. Root \in DOMAIN remote /\ remote[Root].kind = "dir"
      BY <1>6 DEF OrderInv, RemoteIsTree, IsKind, Exists
    <2>3. \A q \in DOMAIN remote : remote[q].kind = "dir" =>
             q \in DOMAIN remote' /\ remote'[q].kind = "dir"
      BY <1>4, <1>5, <1>6
    <2>4. \A q \in DOMAIN remote' : q # Root => Parent(q) \in DOMAIN remote /\ remote[Parent(q)].kind = "dir"
      BY <1>3, <1>4, <1>6, <2>1
    <2>5. QED
      BY <2>2, <2>3, <2>4 DEF RemoteIsTree, IsKind, Exists
  <1>8. DOMAIN local \subseteq Paths
    BY LocalIsTree DEF CopyInv
  <1>9. DeletionsAreThere'
    <2>1. DeletionsAreThere /\ plan.typeConflicts = {}
      BY <1>1, <1>2 DEF OrderInv, ConflictsGone
    <2>2. \A q \in DOMAIN local \cap DOMAIN remote' : remote'[q].kind = local[q]
      BY <1>2, <1>4, <1>8, <2>1 DEF DeletionsAreThere, Locals
    <2>3. \A q \in plan.extraFiles \cup plan.extraDirs :
             q \in DOMAIN remote' /\ remote'[q] = remote[q]
      <3>1. f \notin plan.extraFiles \cup plan.extraDirs
        BY <1>1, <1>2 DEF CopyInv, PlanCoversTheRest, Locals
      <3>2. QED
        BY <1>4, <1>6, <2>1, <3>1 DEF DeletionsAreThere, IsKind, Exists
    <2>4. QED
      BY <1>1, <2>1, <2>2, <2>3 DEF DeletionsAreThere, IsKind, Exists
  <1>10. QED
    BY <1>1, <1>7, <1>9 DEF OrderInv, TempIsBesideFile

LEMMA SetMtimeKeepsOrderInv ==
    ASSUME CopyInv, OrderInv, SetMtime PROVE OrderInv'
  <1>1. /\ local' = local /\ phase = "renamed" /\ phase' = "sync"
        /\ plan' = [plan EXCEPT !.uploads = @ \ {upload.file}]
    BY DEF SetMtime
  <1>2. upload.file \in DOMAIN remote /\ remote[upload.file] \in Entry
    BY <1>1 DEF CopyInv, UploadIsPlanned, Exists, TypeOK
  <1>3. /\ DOMAIN remote' = DOMAIN remote
        /\ \A q \in DOMAIN remote : remote'[q].kind = remote[q].kind
    BY <1>2 DEF SetMtime, Entry
  <1>4. /\ plan'.typeConflicts = plan.typeConflicts
        /\ plan'.extraFiles = plan.extraFiles /\ plan'.extraDirs = plan.extraDirs
    BY <1>1 DEF CopyInv, TypeOK
  <1>5. QED
    BY <1>1, <1>3, <1>4 DEF OrderInv, RemoteIsTree, DeletionsAreThere, TempIsBesideFile,
       IsKind, Exists

\* A run that ends may take its temp file with it, which has no children.
LEMMA EndKeepsOrderInv ==
    ASSUME CopyInv, OrderInv, FinishSync \/ OperationRefused \/ RenameRefused \/ Cut
    PROVE  OrderInv'
  <1>1. /\ local' = local /\ phase # "idle" /\ phase' = "idle"
        /\ \/ remote' = remote
           \/ phase = "copying" /\ remote' = Without(upload.temp)
    BY DEF FinishSync, OperationRefused, RenameRefused, Cut, Stop
  <1>2. RemoteIsTree'
    <2>1. CASE remote' = remote
      BY <2>1 DEF OrderInv, RemoteIsTree, IsKind, Exists
    <2>2. CASE phase = "copying" /\ remote' = Without(upload.temp)
      <3>1. /\ DOMAIN remote' = DOMAIN remote \ {upload.temp}
            /\ \A q \in DOMAIN remote' : remote'[q] = remote[q]
        BY <2>2 DEF Without
      <3>2. remote[upload.temp].kind = "file"
        BY <2>2 DEF OrderInv, TempIsBesideFile, IsKind, Exists
      <3>3. QED
        BY <3>1, <3>2 DEF OrderInv, RemoteIsTree, IsKind, Exists
    <2>3. QED
      BY <1>1, <2>1, <2>2
  <1>3. QED
    BY <1>1, <1>2 DEF OrderInv, TempIsBesideFile

LEMMA QuietKeepsOrderInv ==
    ASSUME CopyInv, OrderInv, Download \/ UNCHANGED vars PROVE OrderInv'
  BY DEF Download, vars, OrderInv, RemoteIsTree, DeletionsAreThere, TempIsBesideFile,
     IsKind, Exists

\* Whatever the folders look like and whenever a run is cut, the plan of a run
\* says all it still has to do (syncMod, buildPlan).
THEOREM SyncInvAlways == Spec => []SyncInv
  <1>1. ASSUME CopyInv, [Next]_vars PROVE CopyInv'
    BY <1>1, StartKeepsCopyInv, RemovalKeepsCopyInv, MakeDirKeepsCopyInv,
       CreateKeepsCopyInv, RenameKeepsCopyInv, SetMtimeKeepsCopyInv,
       FinishKeepsCopyInv, StopKeepsCopyInv, DownloadKeepsCopyInv,
       StutterKeepsCopyInv DEF Next, SyncStep
  <1>2. ASSUME SyncInv, [Next]_vars PROVE SyncInv'
    BY <1>1, <1>2, StartKeepsOrderInv, RemovalKeepsOrderInv, MakeDirKeepsOrderInv,
       CreateKeepsOrderInv, RenameKeepsOrderInv, SetMtimeKeepsOrderInv,
       EndKeepsOrderInv, QuietKeepsOrderInv DEF SyncInv, Next, SyncStep
  <1>3. Init => SyncInv
    BY InitHasCopyInv, InitHasOrderInv DEF SyncInv
  <1>4. QED
    BY <1>2, <1>3, PTL DEF Spec

\* What syncServer records as synced is an exact copy of the local folder.
THEOREM SuccessMeansMirroredAlways == Spec => []SuccessMeansMirrored
  BY SyncInvAlways, PTL DEF SyncInv, CopyInv

\* uploadAtomically never lets a half-written file be seen under its name.
THEOREM NoHalfFileInPlaceAlways == Spec => []NoHalfFileInPlace
  BY SyncInvAlways, PTL DEF SyncInv, CopyInv

-----------------------------------------------------------------------------
\* Nothing is refused for the order of the lists.
LEMMA ConflictsGoUnlessBlocked ==
    ASSUME SyncInv, phase = "sync", NEW p \in NextConflicts, ~CanRemove(p)
    PROVE  Blocked
  <1>1. TypeOK /\ PlanCoversTheRest /\ DeletionsAreThere /\ RemoteIsTree
    BY DEF SyncInv, CopyInv, OrderInv
  <1>2. p \in plan.typeConflicts
    BY DEF NextConflicts, Deepest
  <1>3. p \in DOMAIN remote /\ p \in DOMAIN local /\ remote[p].kind # local[p]
    BY <1>1, <1>2 DEF DeletionsAreThere, PlanCoversTheRest, Locals
  <1>4. PICK q \in DOMAIN remote : q # Root /\ Parent(q) = p
    BY <1>3 DEF CanRemove, Exists, Children
  <1>5. IsKind(p, "dir")
    BY <1>1, <1>4 DEF RemoteIsTree
  <1>6. local[p] = "file"
    BY <1>1, <1>3, <1>5, LocalIsTree DEF IsKind, Kinds
  <1>7. QED
    BY <1>3, <1>4, <1>5, <1>6 DEF Blocked, Locals, Children

LEMMA ExtrasGo ==
    ASSUME SyncInv, phase = "sync", NEW p \in NextExtraFiles \cup NextExtraDirs
    PROVE  CanRemove(p)
  <1>1. TypeOK /\ PlanCoversTheRest /\ DeletionsAreThere /\ RemoteIsTree
    BY DEF SyncInv, CopyInv, OrderInv
  <1>2. SUFFICES ASSUME NEW q \in DOMAIN remote, q # Root, Parent(q) = p
                 PROVE  FALSE
    BY <1>1 DEF CanRemove, Exists, Children, DeletionsAreThere, IsKind,
       NextExtraFiles, NextExtraDirs, Deepest
  <1>3. IsKind(p, "dir")
    BY <1>1, <1>2 DEF RemoteIsTree
  <1>4. CASE p \in NextExtraFiles
    BY <1>1, <1>3, <1>4 DEF NextExtraFiles, DeletionsAreThere, IsKind
  <1>5. CASE p \in NextExtraDirs
    <2>1. p \in plan.extraDirs /\ FilesRemoved /\ \A r \in plan.extraDirs : Len(r) <= Len(p)
      BY <1>5 DEF NextExtraDirs, Deepest
    <2>2. p \in Paths \cup TempPaths /\ p \notin DOMAIN local /\ p # Root
      BY <1>1, <2>1, RootIsNoPath, TempNamesAreNew DEF TypeOK, PlanCoversTheRest
    <2>3. q \notin DOMAIN local
      BY <1>1, <1>2, <2>2, LocalParents DEF Locals
    <2>4. q \notin plan.extraFiles
      BY <2>1 DEF FilesRemoved
    <2>5. q \in plan.extraDirs
      BY <1>1, <1>2, <2>3, <2>4 DEF PlanCoversTheRest
    <2>6. q \in Paths \cup TempPaths
      BY <1>1, <1>2 DEF TypeOK
    <2>7. Len(q) \in Nat /\ Len(p) < Len(q) /\ Len(p) \in Nat
      BY <1>2, <2>2, <2>6, ChildrenAreLonger
    <2>8. QED
      BY <2>1, <2>5, <2>7
  <1>6. QED
    BY <1>4, <1>5

LEMMA FoldersCanBeMade ==
    ASSUME SyncInv, phase = "sync", NEW p \in NextMkdirs
    PROVE  CanMkdir(p)
  <1>1. TypeOK /\ PlanCoversTheRest /\ DeletionsAreThere /\ RemoteIsTree
    BY DEF SyncInv, CopyInv, OrderInv
  <1>2. SUFFICES ASSUME NEW q \in Ancestors(p) \cup {p}, IsKind(q, "file")
                 PROVE  FALSE
    BY DEF CanMkdir
  <1>3. p \in Locals("dir") /\ ConflictsGone
    BY <1>1 DEF NextMkdirs, Shallowest, PlanCoversTheRest
  <1>4. q # Root
    BY <1>1, <1>2 DEF RemoteIsTree, IsKind, Exists
  <1>5. q \in DOMAIN local /\ local[q] = "dir"
    BY <1>1, <1>2, <1>3, <1>4, LocalIsTree DEF Locals
  <1>6. QED
    BY <1>1, <1>2, <1>3, <1>5 DEF DeletionsAreThere, ConflictsGone, IsKind, Exists

LEMMA UploadsStartUnlessBlocked ==
    ASSUME SyncInv, phase = "sync", NEW p \in NextUploads, ~CanCreate(p)
    PROVE  Blocked
  <1>1. TypeOK /\ PlanCoversTheRest /\ RemoteIsTree
    BY DEF SyncInv, CopyInv, OrderInv
  <1>2. p \in DOMAIN local /\ FoldersMade /\ ~IsKind(Parent(p), "dir")
    BY <1>1 DEF NextUploads, PlanCoversTheRest, Locals, CanCreate
  <1>3. \A d \in Locals("dir") : IsKind(d, "dir")
    BY <1>1, <1>2 DEF PlanCoversTheRest, FoldersMade, Locals
  <1>4. Parent(p) = Root
    BY <1>1, <1>2, <1>3, LocalParents
  <1>5. DOMAIN remote = {}
    BY <1>1, <1>2, <1>4 DEF RemoteIsTree
  <1>6. QED
    BY <1>3, <1>5 DEF Blocked, IsKind, Exists

\* The lists of a plan are in an order the server accepts: deletions deepest
\* first, directories shallowest first, files into directories that are there
\* (buildPlan, syncMod).
THEOREM OrderIsAcceptedAlways == Spec => []OrderIsAccepted
  <1>1. SyncInv => OrderIsAccepted
    <2>1. SUFFICES ASSUME SyncInv, phase = "sync", Refused PROVE Blocked
      BY DEF OrderIsAccepted
    <2>2. CASE \E p \in NextConflicts \cup NextExtraFiles \cup NextExtraDirs : ~CanRemove(p)
      BY <2>1, <2>2, ConflictsGoUnlessBlocked, ExtrasGo
    <2>3. CASE \E p \in NextMkdirs : ~CanMkdir(p)
      BY <2>1, <2>3, FoldersCanBeMade
    <2>4. CASE \E p \in NextUploads : ~CanCreate(p)
      BY <2>1, <2>4, UploadsStartUnlessBlocked
    <2>5. QED
      BY <2>1, <2>2, <2>3, <2>4 DEF Refused
  <1>2. QED
    BY <1>1, SyncInvAlways, PTL

\* A step takes away entries the local folder lacks or has in another kind,
\* and temp files; every other step only adds.
LEMMA StepKeepsListedEntries ==
    ASSUME SyncInv, Next, NEW p \in DOMAIN local \cap DOMAIN remote, remote[p].kind = local[p]
    PROVE  p \in DOMAIN remote'
  <1>1. TypeOK /\ UploadIsPlanned /\ (phase # "idle" => PlanCoversTheRest /\ DeletionsAreThere)
    BY DEF SyncInv, CopyInv, OrderInv
  <1>2. p \notin TempPaths /\ p # Root
    BY <1>1, LocalIsTree, TempNamesAreNew, RootIsNoPath
  <1>3. \A q : remote' = Without(q) /\ q # p => p \in DOMAIN remote'
    BY DEF Without
  <1>4. CASE DeleteTypeConflict \/ DeleteExtraFile \/ DeleteExtraDir
    <2>1. PICK q : Remove(q) /\ q \in plan.typeConflicts \cup plan.extraFiles \cup plan.extraDirs
      BY <1>4 DEF DeleteTypeConflict, DeleteExtraFile, DeleteExtraDir, NextConflicts,
         NextExtraFiles, NextExtraDirs, Deepest
    <2>2. q # p
      BY <1>1, <2>1 DEF Remove, PlanCoversTheRest, DeletionsAreThere
    <2>3. QED
      BY <1>3, <2>1, <2>2 DEF Remove
  <1>5. CASE RenameRefused \/ Cut
    <2>1. remote' = remote \/ (phase = "copying" /\ remote' = Without(upload.temp))
      BY <1>5 DEF RenameRefused, Cut
    <2>2. phase = "copying" => upload.temp # p
      BY <1>1, <1>2 DEF UploadIsPlanned
    <2>3. QED
      BY <1>3, <2>1, <2>2
  <1>6. CASE RenameTemp
    <2>1. upload.temp # p
      BY <1>1, <1>2, <1>6 DEF UploadIsPlanned, RenameTemp
    <2>2. QED
      BY <1>6, <2>1 DEF RenameTemp
  <1>7. CASE MakeDir \/ CreateTemp \/ SetMtime
    BY <1>7 DEF MakeDir, Mkdir, CreateTemp, With, SetMtime
  <1>8. CASE StartSync \/ FinishSync \/ OperationRefused \/ Download
    BY <1>8 DEF StartSync, FinishSync, OperationRefused, Download
  <1>9. QED
    BY <1>4, <1>5, <1>6, <1>7, <1>8 DEF Next, SyncStep

\* The running server keeps every file and directory the new version has too:
\* what a sync deletes is never listed in the local folder (buildPlan).
THEOREM ListedEntriesStayAlways == Spec => ListedEntriesStay
  <1>1. ASSUME SyncInv, [Next]_vars
        PROVE  [\A p \in DOMAIN local \cap DOMAIN remote :
                   remote[p].kind = local[p] => p \in DOMAIN remote']_remote
    BY <1>1, StepKeepsListedEntries DEF vars
  <1>2. QED
    BY <1>1, SyncInvAlways, PTL DEF Spec, ListedEntriesStay
=============================================================================
