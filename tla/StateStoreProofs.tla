-------------------------- MODULE StateStoreProofs --------------------------
(***************************************************************************)
(* The store is atomic for any number of goroutines, updates and crashes.  *)
(* The invariant says who is inside the store and that whoever is there    *)
(* works on the file as it is; the refinement follows step by step.        *)
(***************************************************************************)
EXTENDS StateStore, TLAPS

LEMMA LoadFileIsState ==
    ASSUME TypeOK PROVE LoadFile \in State
  BY DEF TypeOK, LoadFile, DefaultState, State

LEMMA ChangeIsState ==
    ASSUME NEW s \in State, NEW c \in Callers PROVE Change(c, s) \in State
  BY DEF Change, State

LEMMA InitHasStoreInv == Init => StoreInv
  <1> SUFFICES ASSUME Init PROVE StoreInv
    OBVIOUS
  <1>1. TypeOK
    BY DEF Init, TypeOK, DefaultState, State, Steps, Callers
  <1>2. MutexHeldByOne
    BY FreeIsNobody DEF Init, MutexHeldByOne, Locked, Callers
  <1>3. RolesHold
    BY DEF Init, RolesHold, Callers
  <1>4. CopiesAreFresh /\ WriterHasTemp
    BY DEF Init, CopiesAreFresh, WriterHasTemp
  <1>5. QED
    BY <1>1, <1>2, <1>3, <1>4 DEF StoreInv

\* Steps of the loop and of the process: nobody is inside the store, or the
\* step leaves whoever is there alone.
LEMMA LoopStepKeepsStoreInv ==
    ASSUME StoreInv,
           \/ StartPoll \/ PollDone \/ StartHandler \/ HandlerUpdates
           \/ HandlerDone \/ (\E last \in BOOLEAN : StartFlush(last))
           \/ (\E c \in Pollers : PollStep(c))
           \/ FlushSaves \/ CallbackHangs \/ Crash \/ Restart
    PROVE  StoreInv'
  <1> USE DEF StoreInv
  <1>1. TypeOK'
    <2>1. CASE \/ StartPoll \/ PollDone \/ StartHandler \/ HandlerUpdates \/ HandlerDone
               \/ \E last \in BOOLEAN : StartFlush(last)
      BY <2>1 DEF TypeOK, Steps, Callers, StartPoll, PollDone, StartHandler,
             HandlerUpdates, HandlerDone, StartFlush, Call
    <2>2. CASE \/ \E c \in Pollers : PollStep(c)
               \/ FlushSaves \/ CallbackHangs
      BY <2>2 DEF TypeOK, Steps, Callers, PollStep, PollFails, PollHangs, PollUpdates, Call,
             FlushSaves, CallbackHangs
    <2>3. CASE Crash
      <3>1. mem' \in [Callers -> State]
        BY <2>3 DEF Crash, DefaultState, State
      <3>2. pc' \in [Callers -> Steps]
        BY <2>3 DEF Crash, Steps
      <3>3. QED
        BY <2>3, <3>1, <3>2 DEF TypeOK, Crash
    <2>4. CASE Restart
      BY <2>4 DEF TypeOK, Restart
    <2>5. QED
      BY <2>1, <2>2, <2>3, <2>4
  <1>2. MutexHeldByOne'
    BY FreeIsNobody DEF TypeOK, MutexHeldByOne, Locked, Callers, StartPoll,
           PollDone, StartHandler, HandlerUpdates, HandlerDone, StartFlush,
           PollStep, PollFails, PollHangs, PollUpdates, Call, FlushSaves, CallbackHangs,
           Crash, Restart
  <1>3. RolesHold'
    BY MainIsNoPoller DEF TypeOK, RolesHold, Callers, StartPoll,
           PollDone, StartHandler, HandlerUpdates, HandlerDone, StartFlush,
           PollStep, PollFails, PollHangs, PollUpdates, Call, FlushSaves, CallbackHangs,
           Crash, Restart
  <1>4. CopiesAreFresh'
    BY DEF TypeOK, CopiesAreFresh, LoadFile, Change, Callers, StartPoll,
           PollDone, StartHandler, HandlerUpdates, HandlerDone, StartFlush,
           PollStep, PollFails, PollHangs, PollUpdates, Call, FlushSaves, CallbackHangs,
           Crash, Restart
  <1>5. WriterHasTemp'
    BY DEF TypeOK, WriterHasTemp, Callers, StartPoll,
           PollDone, StartHandler, HandlerUpdates, HandlerDone, StartFlush,
           PollStep, PollFails, PollHangs, PollUpdates, Call, FlushSaves, CallbackHangs,
           Crash, Restart
  <1>6. QED
    BY <1>1, <1>2, <1>3, <1>4, <1>5

\* A step inside the store: the mutex keeps everyone else out.
LEMMA StoreStepKeepsStoreInv ==
    ASSUME StoreInv, NEW c \in Callers, StoreStep(c)
    PROVE  StoreInv'
  <1> USE DEF StoreInv
  <1>1. TypeOK'
    <2>1. LoadFile \in State /\ Change(c, mem[c]) \in State
      BY LoadFileIsState, ChangeIsState DEF TypeOK
    <2>2. pc[c] = "writing" => temps > 0
      BY DEF WriterHasTemp
    <2>3. DefaultState \in State
      BY DEF DefaultState, State
    <2>4. CASE Lock(c) \/ Read(c) \/ RunCallback(c)
      BY <2>1, <2>4 DEF TypeOK, Steps, Lock, Read, RunCallback
    <2>5. CASE CreateTemp(c) \/ Rename(c)
      BY <2>2, <2>5 DEF TypeOK, Steps, CreateTemp, Rename
    <2>6. CASE Succeed(c)
      BY <2>3, <2>6 DEF TypeOK, Steps, Succeed, Return
    <2>7. CASE Fail(c)
      BY <2>2, <2>3, <2>7 DEF TypeOK, Steps, Fail, Fallible, Return
    <2>8. QED
      BY <2>4, <2>5, <2>6, <2>7 DEF StoreStep
  <1>2. MutexHeldByOne'
    BY FreeIsNobody DEF TypeOK, MutexHeldByOne, Locked, StoreStep, Lock, Read,
           RunCallback, CreateTemp, Rename, Return, Succeed, Fail, Fallible, Callers
  <1>3. RolesHold'
    BY MainIsNoPoller DEF TypeOK, RolesHold, Locked, StoreStep, Lock, Read,
           RunCallback, CreateTemp, Rename, Return, Succeed, Fail, Fallible, Callers
  <1>4. CopiesAreFresh'
    <2>1. CASE Rename(c)
      BY <2>1, MainIsNoPoller DEF TypeOK, CopiesAreFresh, RolesHold, MutexHeldByOne,
         Rename, LoadFile, Change, Callers, Locked
    <2>2. CASE ~Rename(c)
      BY <2>2 DEF TypeOK, CopiesAreFresh, RolesHold, Locked, StoreStep, Lock, Read,
           RunCallback, CreateTemp, Return, Succeed, Fail, Fallible, LoadFile, Change
    <2>3. QED
      BY <2>1, <2>2
  <1>5. WriterHasTemp'
    BY DEF TypeOK, WriterHasTemp, MutexHeldByOne, Locked, StoreStep, Lock, Read,
           RunCallback, CreateTemp, Rename, Return, Succeed, Fail, Fallible
  <1>6. QED
    BY <1>1, <1>2, <1>3, <1>4, <1>5

LEMMA StutterKeepsStoreInv ==
    ASSUME StoreInv, UNCHANGED vars PROVE StoreInv'
  BY DEF StoreInv, vars, TypeOK, MutexHeldByOne, RolesHold, CopiesAreFresh,
         WriterHasTemp, LoadFile, Change, DefaultState

\* Whatever fails and whenever the process dies, callers are inside the store
\* one at a time and never work on an outdated state (FileStore, flushState).
THEOREM StoreInvAlways == Spec => []StoreInv
  <1>1. ASSUME StoreInv, [Next]_vars PROVE StoreInv'
    <2>1. CASE Next
      BY <1>1, <2>1, LoopStepKeepsStoreInv, StoreStepKeepsStoreInv DEF Next
    <2>2. CASE UNCHANGED vars
      BY <1>1, <2>2, StutterKeepsStoreInv
    <2>3. QED
      BY <1>1, <2>1, <2>2
  <1>2. QED
    BY InitHasStoreInv, <1>1, PTL DEF Spec

-----------------------------------------------------------------------------
LEMMA StutterKeepsLeftovers ==
    ASSUME LeftoversHaveACause, UNCHANGED vars
    PROVE  LeftoversHaveACause'
  BY DEF LeftoversHaveACause, vars

LEMMA StepKeepsLeftovers ==
    ASSUME StoreInv, LeftoversHaveACause, Next
    PROVE  LeftoversHaveACause'
  <1> DEFINE SomeoneWrites == \E c \in Callers : pc[c] = "writing"
  <1>1. CASE \E c \in Callers : Lock(c) \/ Read(c) \/ RunCallback(c)
    BY <1>1 DEF StoreInv, TypeOK, LeftoversHaveACause, Lock, Read, RunCallback
  <1>2. ASSUME NEW c \in Callers, CreateTemp(c) PROVE LeftoversHaveACause'
    <2>1. ~SomeoneWrites
      BY <1>2 DEF StoreInv, MutexHeldByOne, Locked, CreateTemp
    <2>2. SomeoneWrites'
      BY <1>2 DEF StoreInv, TypeOK, CreateTemp
    <2>3. QED
      BY <1>2, <2>1, <2>2 DEF StoreInv, TypeOK, LeftoversHaveACause, CreateTemp
  <1>3. ASSUME NEW c \in Callers, Rename(c) \/ Succeed(c) \/ Fail(c)
        PROVE  LeftoversHaveACause'
    <2>1. ~SomeoneWrites'
      BY <1>3 DEF StoreInv, TypeOK, MutexHeldByOne, Locked, Rename, Succeed, Fail, Fallible, Return
    <2>2. pc[c] # "writing" => ~SomeoneWrites
      BY <1>3 DEF StoreInv, MutexHeldByOne, Locked, Rename, Succeed, Fail, Fallible
    <2>3. QED
      BY <1>3, <2>1, <2>2 DEF StoreInv, TypeOK, LeftoversHaveACause, Rename, Succeed, Fail, Fallible, Return
  <1>4. CASE \/ StartPoll \/ PollDone \/ StartHandler \/ HandlerUpdates
            \/ HandlerDone \/ (\E last \in BOOLEAN : StartFlush(last))
            \/ (\E c \in Pollers : PollStep(c)) \/ FlushSaves \/ CallbackHangs \/ Restart
    <2>1. SomeoneWrites' <=> SomeoneWrites
      BY <1>4 DEF StoreInv, TypeOK, Callers, StartPoll, PollDone, StartHandler,
         HandlerUpdates, HandlerDone, StartFlush, PollStep, PollFails, PollHangs, PollUpdates,
         Call, FlushSaves, CallbackHangs, Restart
    <2>2. UNCHANGED <<temps, crashes, unremoved>>
      BY <1>4 DEF StartPoll, PollDone, StartHandler,
         HandlerUpdates, HandlerDone, StartFlush, PollStep, PollFails, PollHangs, PollUpdates,
         FlushSaves, CallbackHangs, Restart
    <2>3. QED
      BY <2>1, <2>2 DEF LeftoversHaveACause
  <1>5. CASE Crash
    BY <1>5 DEF StoreInv, TypeOK, LeftoversHaveACause, Crash
  <1>6. QED
    BY <1>1, <1>2, <1>3, <1>4, <1>5 DEF Next, StoreStep

\* SaveAtomic cleans up after itself: a temp file stays only after a crash or
\* when it cannot be removed.
THEOREM LeftoversHaveACauseAlways == Spec => []LeftoversHaveACause
  <1>1. Init => LeftoversHaveACause
    BY DEF Init, LeftoversHaveACause
  <1>2. QED
    BY <1>1, StoreInvAlways, StepKeepsLeftovers, StutterKeepsLeftovers, PTL DEF Spec

-----------------------------------------------------------------------------
LEMMA InitIsPromised == Init => Promise!Init
  BY DEF Init, Promise!Init, LoadFile, DefaultState, RequestOf

\* The steps of an update are the store's actions, everything else is
\* invisible.
LEMMA StepIsPromised ==
    ASSUME StoreInv, [Next]_vars
    PROVE  [Promise!Next]_(Promise!vars)
  <1> DEFINE requests == [c \in Callers |-> RequestOf(c)]
  <1> USE DEF StoreInv
  <1>1. ASSUME \/ StartPoll \/ PollDone \/ StartHandler \/ HandlerDone
               \/ (\E c \in Pollers : PollFails(c) \/ PollHangs(c)) \/ FlushSaves
               \/ CallbackHangs \/ Restart
               \/ (\E last \in BOOLEAN : StartFlush(last)) \/ UNCHANGED vars
        PROVE  UNCHANGED Promise!vars
    <2>1. UNCHANGED <<file, reported>>
      BY <1>1 DEF StartPoll, PollDone, StartHandler, HandlerDone, PollFails, PollHangs,
         FlushSaves, CallbackHangs, Restart, StartFlush, vars
    <2>2. requests' = requests
      BY <1>1 DEF TypeOK, RolesHold, RequestOf, Callers, StartPoll, PollDone,
         StartHandler, HandlerDone, PollFails, PollHangs, FlushSaves, CallbackHangs,
         Restart, StartFlush,
         Call, vars
    <2>3. QED
      BY <2>1, <2>2 DEF Promise!vars, LoadFile
  <1>2. ASSUME NEW c \in Callers, Call(c, "update"), UNCHANGED <<file, reported>>
        PROVE  Promise!Ask(c)
    <2>1. requests[c] = "none"
      BY <1>2 DEF Call, RequestOf
    <2>2. requests' = [requests EXCEPT ![c] = "pending"]
      BY <1>2 DEF TypeOK, RequestOf, Call
    <2>3. QED
      BY <1>2, <2>1, <2>2 DEF Promise!Ask, LoadFile
  <1>3. ASSUME NEW c \in Callers, Lock(c) \/ Read(c) \/ RunCallback(c) \/ CreateTemp(c)
        PROVE  UNCHANGED Promise!vars
    <2>1. requests' = requests
      BY <1>3 DEF TypeOK, RolesHold, RequestOf, Lock, Read, RunCallback, CreateTemp
    <2>2. QED
      BY <1>3, <2>1 DEF Promise!vars, LoadFile, Lock, Read, RunCallback, CreateTemp
  <1>4. ASSUME NEW c \in Callers, Rename(c)
        PROVE  Promise!Apply(c) \/ UNCHANGED Promise!vars
    <2>1. CASE op[c] = "update"
      <3>1. LoadFile' = [LoadFile EXCEPT ![c] = @ + 1]
        <4>1. mem[c] = Change(c, LoadFile)
          BY <1>4, <2>1 DEF CopiesAreFresh, Rename
        <4>2. LoadFile' = mem[c]
          BY <1>4, NoFileIsNoState DEF Rename, LoadFile, TypeOK
        <4>3. QED
          BY <4>1, <4>2 DEF Change
      <3>2. requests[c] = "pending"
        BY <1>4, <2>1 DEF RequestOf, Rename
      <3>3. requests' = [requests EXCEPT ![c] = "applied"]
        BY <1>4, <2>1 DEF TypeOK, RequestOf, Rename
      <3>4. QED
        BY <1>4, <3>1, <3>2, <3>3 DEF Promise!Apply, Rename
    <2>2. CASE op[c] # "update"
      <3>1. op[c] = "save"
        BY <1>4, <2>2 DEF TypeOK, RolesHold, Rename
      <3>2. LoadFile' = LoadFile
        BY <1>4, <3>1 DEF CopiesAreFresh, Rename, LoadFile, TypeOK
      <3>3. requests' = requests
        BY <1>4, <2>2 DEF TypeOK, RequestOf, Rename
      <3>4. QED
        BY <1>4, <3>2, <3>3 DEF Promise!vars, Rename
    <2>3. QED
      BY <2>1, <2>2
  <1>5. ASSUME NEW c \in Callers, Succeed(c)
        PROVE  Promise!ReportDone(c) \/ UNCHANGED Promise!vars
    <2>1. CASE op[c] = "update"
      <3>1. requests[c] = "applied"
        BY <1>5, <2>1 DEF RequestOf, Succeed
      <3>2. requests' = [requests EXCEPT ![c] = "none"]
        BY <1>5, <2>1 DEF TypeOK, RequestOf, Succeed, Return
      <3>3. QED
        BY <1>5, <2>1, <3>1, <3>2 DEF Promise!ReportDone, Succeed, LoadFile
    <2>2. CASE op[c] # "update"
      <3>1. requests' = requests
        BY <1>5, <2>2 DEF TypeOK, RequestOf, Succeed, Return
      <3>2. QED
        BY <1>5, <2>2, <3>1 DEF Promise!vars, Succeed, LoadFile
    <2>3. QED
      BY <2>1, <2>2
  <1>6. ASSUME NEW c \in Callers, Fail(c)
        PROVE  Promise!ReportFailed(c) \/ UNCHANGED Promise!vars
    <2>1. CASE op[c] = "update"
      <3>1. requests[c] = "pending"
        BY <1>6, <2>1 DEF RequestOf, Fail, Fallible, Locked
      <3>2. requests' = [requests EXCEPT ![c] = "none"]
        BY <1>6, <2>1 DEF TypeOK, RequestOf, Fail, Return
      <3>3. QED
        BY <1>6, <3>1, <3>2 DEF Promise!ReportFailed, Fail, LoadFile
    <2>2. CASE op[c] # "update"
      <3>1. requests' = requests
        BY <1>6, <2>2 DEF TypeOK, RequestOf, Fail, Return
      <3>2. QED
        BY <1>6, <3>1 DEF Promise!vars, Fail, LoadFile
    <2>3. QED
      BY <2>1, <2>2
  <1>7. ASSUME Crash PROVE Promise!Crash
    <2>1. requests' = [c \in Callers |-> "none"]
      BY <1>7 DEF Crash, RequestOf
    <2>2. QED
      BY <1>7, <2>1 DEF Promise!Crash, Crash, LoadFile
  <1>8. HandlerUpdates => Promise!Ask(Main)
    BY <1>2 DEF HandlerUpdates, Callers
  <1>9. ASSUME NEW c \in Pollers, PollUpdates(c) PROVE Promise!Ask(c)
    BY <1>2, <1>9 DEF PollUpdates, Callers
  <1>10. QED
    <2>1. CASE UNCHANGED vars
      BY <1>1, <2>1
    <2>2. CASE \E c \in Callers : StoreStep(c)
      BY <1>3, <1>4, <1>5, <1>6, <2>2 DEF StoreStep, Promise!Next
    <2>3. CASE \E c \in Pollers : PollStep(c)
      BY <1>1, <1>9, <2>3 DEF PollStep, Promise!Next, Callers
    <2>4. CASE HandlerUpdates \/ Crash
      BY <1>7, <1>8, <2>4 DEF Promise!Next, Callers
    <2>5. CASE \/ StartPoll \/ PollDone \/ StartHandler \/ HandlerDone \/ FlushSaves
              \/ CallbackHangs \/ Restart \/ (\E last \in BOOLEAN : StartFlush(last))
      BY <1>1, <2>5
    <2>6. QED
      BY <2>1, <2>2, <2>3, <2>4, <2>5 DEF Next

\* FileStore with flushState implements the atomic store: every acknowledged
\* update is in state.json for good, every failed one is not in it.
THEOREM StoreIsAtomic == Spec => ImplementsAtomicStore
  BY InitIsPromised, StoreInvAlways, StepIsPromised, PTL
     DEF Spec, ImplementsAtomicStore, Promise!Spec
=============================================================================
