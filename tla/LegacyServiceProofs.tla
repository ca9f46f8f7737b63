------------------------ MODULE LegacyServiceProofs ------------------------
(***************************************************************************)
(* For any number of mods and versions: a record of the legacy program is  *)
(* never a lie about a remote folder.                                      *)
(***************************************************************************)
EXTENDS LegacyService, TLAPS

LEMMA InitInv == Init => LegacyInv
<1> SUFFICES ASSUME Init PROVE LegacyInv
  OBVIOUS
<1>1. TypeOK
  BY DEF Init, TypeOK, Record, NoRecord, Missing, NoAnswer
<1>2. RecordIsBehind
  <2>1. NoRecord < 1 /\ NoRecord <= 1
    BY DEF NoRecord
  <2>2. ASSUME NEW m \in Mods PROVE disk[m] = NoRecord /\ published[m] = 1
    BY DEF Init
  <2> QED
    BY <2>1, <2>2 DEF RecordIsBehind
<1>3. CycleGoesByPlan
  BY DEF Init, CycleGoesByPlan
<1> QED
  BY <1>1, <1>2, <1>3 DEF LegacyInv

LEMMA StepInv == LegacyInv /\ [Next]_vars => LegacyInv'
<1> SUFFICES ASSUME LegacyInv, [Next]_vars PROVE LegacyInv'
  OBVIOUS
<1> USE MarkersDiffer, LastPublishIsNat
    DEF LegacyInv, TypeOK, RecordIsBehind, CycleGoesByPlan, Record, NoRecord, Missing, NoAnswer
<1>1. CASE UNCHANGED vars
  BY <1>1 DEF vars
<1>2. CASE BeginCycle
  BY <1>2 DEF BeginCycle
<1>3. CASE Answers
  <2>1. PICK found \in SUBSET Mods, dated \in SUBSET Mods : FetchModDetails(found, dated)
    BY <1>3 DEF Answers
  <2>2. \A m \in Mods : details'[m] \in Record \cup {NoAnswer} /\ details'[m] <= published[m]
    BY <2>1 DEF FetchModDetails, Dateless
  <2>3. plan' \subseteq Mods /\ \A m \in plan' : details'[m] > st[m]
    BY <2>1 DEF FetchModDetails, BuildPlan
  <2> QED
    BY <2>1, <2>2, <2>3 DEF FetchModDetails, BuildPlan, Dateless
<1>4. ASSUME NEW m \in Mods, StartSync(m) PROVE LegacyInv'
  BY <1>4 DEF StartSync
<1>5. CASE EndSync
  BY <1>5 DEF EndSync
<1>6. CASE SaveCycle
  BY <1>6 DEF SaveCycle
<1>7. CASE AbandonCycle
  BY <1>7 DEF AbandonCycle
<1>8. CASE CalmDown
  BY <1>8 DEF CalmDown
<1>9. ASSUME NEW m \in Mods, PublishMod(m) PROVE LegacyInv'
  BY <1>9 DEF PublishMod
<1>10. ASSUME NEW m \in Mods, RefreshLocal(m) PROVE LegacyInv'
  BY <1>10 DEF RefreshLocal
<1> QED
  BY <1>1, <1>2, <1>3, <1>4, <1>5, <1>6, <1>7, <1>8, <1>9, <1>10 DEF Next, Cycle, World

\* A cycle's state is the disk's but for what it mirrored; records lag behind.
THEOREM LegacyInvAlways == Spec => []LegacyInv
  BY InitInv, StepInv, PTL DEF Spec

\* A mod no cycle would sync again is whole on the server.
THEOREM UpToDateIsWholeAlways == Spec => []UpToDateIsWhole
<1>1. LegacyInv => UpToDateIsWhole
  BY DEF LegacyInv, TypeOK, RecordIsBehind, UpToDateIsWhole, Record, NoRecord
<1> QED
  BY <1>1, LegacyInvAlways, PTL
=============================================================================
