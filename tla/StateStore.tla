----------------------------- MODULE StateStore -----------------------------
(***************************************************************************)
(* state.json at file level.  The goroutines of a modlist poll and the     *)
(* daemon's main loop share one FileStore: Load, Save and Update hold its  *)
(* mutex from start to return, SaveAtomic writes a temp file beside        *)
(* state.json and renames it over it, and flushState is a Load and a Save  *)
(* that each take the mutex.  Any file operation may fail, removing a temp *)
(* file included, the SFTP client has calls that may never return, and the *)
(* process may die between any two steps.                                  *)
(*                                                                         *)
(* A State is abstracted to how many updates of each caller it contains.   *)
(***************************************************************************)
EXTENDS Integers

CONSTANTS
    Pollers,        \* the goroutines of runModlistPoll, one per server
    Main,           \* the goroutine of Run
    Free,           \* the mutex is not held
    NoFile,         \* state.json does not exist
    MaxUpdates,     \* bound: updates one caller gets into state.json
    MaxCrashes,     \* bound: how often the process dies
    MaxUnremoved    \* bound: how often os.Remove of a temp file fails

ASSUME MainIsNoPoller == Main \notin Pollers
ASSUME FreeIsNobody == Free \notin Pollers \cup {Main}
ASSUME StoreBounds == MaxUpdates \in Nat /\ MaxCrashes \in Nat /\ MaxUnremoved \in Nat

Callers == Pollers \cup {Main}
State == [Callers -> Nat]

ASSUME NoFileIsNoState == NoFile \notin State

VARIABLES
    file,       \* state.json
    temps,      \* how many state-*.tmp files lie in its directory
    holder,     \* who holds FileStore.mu
    pc,         \* where each caller is in its call
    op,         \* which method that call is
    mem,        \* the State each caller works on
    loop,       \* what Run is doing
    todo,       \* WaitGroup of runModlistPoll: pollers not done yet
    reported,   \* history: updates each caller was told are done
    crashes,    \* how often the process died
    unremoved   \* history: how often os.Remove of a temp file failed

vars == <<file, temps, holder, pc, op, mem, loop, todo, reported, crashes, unremoved>>

Steps == {"idle", "waiting", "reading", "running", "loaded", "saving",
          "writing", "renamed", "pollHangs", "callbackHangs"}
\* The steps a caller takes with the mutex held.
Locked == {"reading", "running", "saving", "writing", "renamed", "callbackHangs"}
\* A call that never returns: it ends with the process.
Hanging == {"pollHangs", "callbackHangs"}

DefaultState == [c \in Callers |-> 0]
\* Load: a missing file reads as the default state.
LoadFile == IF file = NoFile THEN DefaultState ELSE file
\* A callback adds to its copy and leaves what others added alone.
Change(c, s) == [s EXCEPT ![c] = @ + 1]

Init == /\ file \in {NoFile, DefaultState}
        /\ temps = 0
        /\ holder = Free
        /\ pc = [c \in Callers |-> "idle"]
        /\ op = [c \in Callers |-> "update"]
        /\ mem = [c \in Callers |-> DefaultState]
        /\ loop = "select"
        /\ todo = {}
        /\ reported = [c \in Callers |-> 0]
        /\ crashes = 0
        /\ unremoved = 0

-----------------------------------------------------------------------------
(* The select loop and its handlers *)

MayUpdate(c) == LoadFile[c] < MaxUpdates

StartPoll == /\ loop = "select"
             /\ loop' = "polling"
             /\ todo' = Pollers
             /\ UNCHANGED <<file, temps, holder, pc, op, mem, reported, crashes, unremoved>>

\* Mutant: a goroutine whose poll fails returns without wg.Done.
PollFailsUncounted(c) == /\ c \in todo
                         /\ pc[c] = "idle"
                         /\ UNCHANGED vars

\* pollModlist failed, or ctx was cancelled before the goroutine had a slot.
PollFails(c) == /\ c \in todo
                /\ pc[c] = "idle"
                /\ todo' = todo \ {c}
                /\ UNCHANGED <<file, temps, holder, pc, op, mem, loop, reported, crashes, unremoved>>

\* sftp.NewClient has no timeout and does not look at ctx.
PollHangs(c) == /\ c \in todo
                /\ pc[c] = "idle"
                /\ pc' = [pc EXCEPT ![c] = "pollHangs"]
                /\ UNCHANGED <<file, temps, holder, op, mem, loop, todo, reported, crashes,
                               unremoved>>

Call(c, method) == /\ pc[c] = "idle"
                   /\ pc' = [pc EXCEPT ![c] = "waiting"]
                   /\ op' = [op EXCEPT ![c] = method]

PollUpdates(c) == /\ c \in todo
                  /\ MayUpdate(c)
                  /\ Call(c, "update")
                  /\ UNCHANGED <<file, temps, holder, mem, loop, todo, reported, crashes, unremoved>>

\* Mutant: the loop goes on without wg.Wait.
PollDoneUnwaited == /\ loop = "polling"
                    /\ loop' = "select"
                    /\ UNCHANGED <<file, temps, holder, pc, op, mem, todo, reported, crashes, unremoved>>

PollDone == /\ loop = "polling"
            /\ todo = {}
            /\ loop' = "select"
            /\ UNCHANGED <<file, temps, holder, pc, op, mem, todo, reported, crashes, unremoved>>

\* runWorkshopPoll, runSteamCMDBatch, runSFTPSyncPhase and runRCONTick make
\* one Update after another.
StartHandler == /\ loop = "select"
                /\ loop' = "handling"
                /\ UNCHANGED <<file, temps, holder, pc, op, mem, todo, reported, crashes, unremoved>>

HandlerUpdates == /\ loop = "handling"
                  /\ MayUpdate(Main)
                  /\ Call(Main, "update")
                  /\ UNCHANGED <<file, temps, holder, mem, loop, todo, reported, crashes, unremoved>>

HandlerDone == /\ loop = "handling"
               /\ pc[Main] = "idle"
               /\ loop' = "select"
               /\ UNCHANGED <<file, temps, holder, pc, op, mem, todo, reported, crashes, unremoved>>

\* The flush ticker, or ctx.Done: then Run returns after the flush.
StartFlush(last) == /\ loop = "select"
                    /\ loop' = IF last THEN "stopping" ELSE "flushing"
                    /\ Call(Main, "load")
                    /\ UNCHANGED <<file, temps, holder, mem, todo, reported, crashes, unremoved>>

\* flushState passes the snapshot it loaded on to Save.
FlushSaves == /\ pc[Main] = "loaded"
              /\ pc' = [pc EXCEPT ![Main] = "waiting"]
              /\ op' = [op EXCEPT ![Main] = "save"]
              /\ UNCHANGED <<file, temps, holder, mem, loop, todo, reported, crashes, unremoved>>

-----------------------------------------------------------------------------
(* FileStore *)

\* Mutant: Update releases the mutex while it reads.
ReadUnlocked(c) == /\ pc[c] = "reading"
                   /\ mem' = [mem EXCEPT ![c] = LoadFile]
                   /\ pc' = [pc EXCEPT ![c] = IF op[c] = "load" THEN "loaded" ELSE "running"]
                   /\ holder' = Free
                   /\ UNCHANGED <<file, temps, op, loop, todo, reported, crashes, unremoved>>

Lock(c) == /\ pc[c] = "waiting"
           /\ holder = Free
           /\ holder' = c
           /\ pc' = [pc EXCEPT ![c] = IF op[c] = "save" THEN "saving" ELSE "reading"]
           /\ UNCHANGED <<file, temps, op, mem, loop, todo, reported, crashes, unremoved>>

\* Load(path); the Load method unlocks and returns, Update calls fn.
Read(c) == /\ pc[c] = "reading"
           /\ mem' = [mem EXCEPT ![c] = LoadFile]
           /\ IF op[c] = "load"
              THEN /\ pc' = [pc EXCEPT ![c] = "loaded"]
                   /\ holder' = Free
              ELSE /\ pc' = [pc EXCEPT ![c] = "running"]
                   /\ UNCHANGED holder
           /\ UNCHANGED <<file, temps, op, loop, todo, reported, crashes, unremoved>>

RunCallback(c) == /\ pc[c] = "running"
                  /\ mem' = [mem EXCEPT ![c] = Change(c, mem[c])]
                  /\ pc' = [pc EXCEPT ![c] = "saving"]
                  /\ UNCHANGED <<file, temps, holder, op, loop, todo, reported, crashes, unremoved>>

\* The callback of the SFTP phase waits for a server that says nothing, and
\* keeps the mutex; those of the pollers make no calls.
CallbackHangs == /\ pc[Main] = "running"
                 /\ pc' = [pc EXCEPT ![Main] = "callbackHangs"]
                 /\ UNCHANGED <<file, temps, holder, op, mem, loop, todo, reported, crashes,
                                unremoved>>

CreateTemp(c) == /\ pc[c] = "saving"
                 /\ temps' = temps + 1
                 /\ pc' = [pc EXCEPT ![c] = "writing"]
                 /\ UNCHANGED <<file, holder, op, mem, loop, todo, reported, crashes, unremoved>>

\* The temp file is written and closed; the rename makes it state.json.
Rename(c) == /\ pc[c] = "writing"
             /\ file' = mem[c]
             /\ temps' = temps - 1
             /\ pc' = [pc EXCEPT ![c] = "renamed"]
             /\ UNCHANGED <<holder, op, mem, loop, todo, reported, crashes, unremoved>>

\* The deferred calls: unlock, and wg.Done of a poller; the copy is gone and
\* Run goes on.
Return(c) == /\ holder' = Free
             /\ mem' = [mem EXCEPT ![c] = DefaultState]
             /\ pc' = [pc EXCEPT ![c] = "idle"]
             /\ todo' = todo \ {c}
             /\ loop' = CASE loop = "flushing" -> "select"
                          [] loop = "stopping" -> "down"
                          [] OTHER -> loop

Succeed(c) == /\ pc[c] = "renamed"
              /\ Return(c)
              /\ reported' = IF op[c] = "update"
                             THEN [reported EXCEPT ![c] = @ + 1] ELSE reported
              /\ UNCHANGED <<file, temps, op, crashes, unremoved>>

\* The steps that may fail.
Fallible == Locked \ {"renamed", "callbackHangs"}

\* Mutant: SaveAtomic returns an error without removing its temp file.
FailKeepingTemp(c) == /\ pc[c] \in Fallible
                      /\ Return(c)
                      /\ UNCHANGED <<file, temps, op, reported, crashes, unremoved>>

\* Reading, the callback, creating, writing or renaming the temp file fails.
\* os.Remove is deferred once the temp file exists, and may fail as well: its
\* error is dropped.
Fail(c) == /\ pc[c] \in Fallible
           /\ Return(c)
           /\ \/ /\ temps' = IF pc[c] = "writing" THEN temps - 1 ELSE temps
                 /\ UNCHANGED unremoved
              \/ /\ pc[c] = "writing"
                 /\ unremoved < MaxUnremoved
                 /\ unremoved' = unremoved + 1
                 /\ UNCHANGED temps
           /\ UNCHANGED <<file, op, reported, crashes>>

-----------------------------------------------------------------------------
(* The process *)

Crash == /\ loop # "down"
         /\ crashes < MaxCrashes
         /\ crashes' = crashes + 1
         /\ loop' = "down"
         /\ holder' = Free
         /\ pc' = [c \in Callers |-> "idle"]
         /\ mem' = [c \in Callers |-> DefaultState]
         /\ todo' = {}
         /\ UNCHANGED <<file, temps, op, reported, unremoved>>

\* The service manager starts the process again.
Restart == /\ loop = "down"
           /\ loop' = "select"
           /\ UNCHANGED <<file, temps, holder, pc, op, mem, todo, reported, crashes, unremoved>>

StoreStep(c) == \/ Lock(c)
                \/ Read(c)
                \/ RunCallback(c)
                \/ CreateTemp(c)
                \/ Rename(c)
                \/ Succeed(c)
                \/ Fail(c)
PollStep(c) == PollFails(c) \/ PollUpdates(c) \/ PollHangs(c)

Next == \/ StartPoll
        \/ \E c \in Pollers : PollStep(c)
        \/ PollDone
        \/ StartHandler
        \/ HandlerUpdates
        \/ HandlerDone
        \/ \E last \in BOOLEAN : StartFlush(last)
        \/ FlushSaves
        \/ \E c \in Callers : StoreStep(c)
        \/ CallbackHangs
        \/ Crash
        \/ Restart

\* The Go scheduler runs every goroutine that can run, sync.Mutex starves no
\* waiter, a poll or a callback that does not hang ends (whether it hangs is
\* open), a handler makes finitely many updates, Restart=always.
Fairness == /\ \A c \in Callers : WF_vars(StoreStep(c)) /\ SF_vars(Lock(c))
            /\ \A c \in Pollers : WF_vars(PollFails(c) \/ PollUpdates(c))
            /\ WF_vars(FlushSaves)
            /\ WF_vars(PollDone)
            /\ SF_vars(HandlerDone)
            /\ WF_vars(Restart)

Spec == Init /\ [][Next]_vars
FairSpec == Spec /\ Fairness

-----------------------------------------------------------------------------
(* What the store promises *)

TypeOK == /\ file \in State \cup {NoFile}
          /\ temps \in Nat
          /\ holder \in Callers \cup {Free}
          /\ pc \in [Callers -> Steps]
          /\ op \in [Callers -> {"load", "save", "update"}]
          /\ mem \in [Callers -> State]
          /\ loop \in {"select", "polling", "handling", "flushing", "stopping", "down"}
          /\ todo \in SUBSET Pollers
          /\ reported \in [Callers -> Nat]
          /\ crashes \in Nat
          /\ unremoved \in Nat

MutexHeldByOne == \A c \in Callers : pc[c] \in Locked <=> holder = c

\* Which calls each goroutine makes, and what the loop does meanwhile.
RolesHold ==
    /\ todo # {} => loop = "polling"
    /\ \A c \in Pollers : op[c] = "update" /\ (pc[c] # "idle" => c \in todo)
    /\ pc[Main] # "idle" => loop \in {"handling", "flushing", "stopping"}
    /\ loop \in {"flushing", "stopping"} => op[Main] \in {"load", "save"}
    /\ pc[Main] # "idle" /\ loop = "handling" => op[Main] = "update"
    /\ \A c \in Callers : /\ op[c] = "load" => pc[c] \in {"idle", "waiting", "reading", "loaded"}
                          /\ pc[c] \in {"reading", "running"} => op[c] # "save"
                          /\ pc[c] = "loaded" => op[c] = "load"

\* Nobody writes a state older than the file it replaces.
CopiesAreFresh ==
    \A c \in Callers :
        /\ pc[c] \in {"running", "loaded"} => mem[c] = LoadFile
        /\ op[c] = "save" /\ pc[c] \in {"waiting", "saving", "writing"} => mem[c] = LoadFile
        /\ op[c] = "update" /\ pc[c] \in {"saving", "writing"} => mem[c] = Change(c, LoadFile)

WriterHasTemp == (\E c \in Callers : pc[c] = "writing") => temps > 0

\* One caller at a time is inside the store, each works on the state that is
\* on disk, and a flush runs while no other call does: the inductive invariant.
StoreInv == /\ TypeOK
            /\ MutexHeldByOne
            /\ RolesHold
            /\ CopiesAreFresh
            /\ WriterHasTemp

\* Where the update of caller c is, as its caller sees it.
RequestOf(c) == IF op[c] # "update" \/ pc[c] \in {"idle", "pollHangs"} THEN "none"
                ELSE IF pc[c] = "renamed" THEN "applied" ELSE "pending"
Promise == INSTANCE AtomicStore
               WITH contents <- LoadFile,
                    request <- [c \in Callers |-> RequestOf(c)]

\* Load, Save, Update and flushState together behave as the atomic store: no
\* crash, failed file operation or flush undoes an update or splits one.
ImplementsAtomicStore == Promise!Spec

\* A temp file on disk is being written, or was left by a crash or by an
\* os.Remove that failed: no call that returns, with or without an error, just
\* leaves its own behind (store.go:125).
LeftoversHaveACause ==
    temps <= crashes + unremoved + (IF \E c \in Callers : pc[c] = "writing" THEN 1 ELSE 0)

\* No handler hangs on the mutex or the WaitGroup: whichever calls fail on the
\* way, the loop selects again, unless a call of the SFTP client hangs for good,
\* for which it then waits (orchestrator.go:127, engine.go:446).
LoopKeepsSelecting == []<>(loop = "select" \/ \E c \in Callers : pc[c] \in Hanging)
=============================================================================
