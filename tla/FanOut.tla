------------------------------- MODULE FanOut -------------------------------
(***************************************************************************)
(* One round of concurrent work as four places of the daemon do it: a      *)
(* goroutine per job waits for a slot of a semaphore or for ctx.Done, then *)
(* tries up to MaxRetries times.  The kinds of work share that shape and   *)
(* differ in what they retry, what times out and what they tell the join:  *)
(*   workshop  fetchBatched and FetchMetadata, a job is a batch of ids     *)
(*   modlist   runModlistPoll and fetchModlistHTML, a job is a server      *)
(*   sync      SyncServers up to dialSFTP, a job is a server               *)
(*   steamcmd  runSteamCMDWithRetry, one job                               *)
(* modlist and sync dial in a goroutine that outlives an attempt given up. *)
(***************************************************************************)
EXTENDS Integers, FiniteSets

CONSTANTS
    Jobs,        \* batches or servers
    MaxRetries,  \* *_max_retries, steamcmd_retries_per_mod
    Slots        \* *_parallelism

ASSUME JobsFinite == IsFiniteSet(Jobs)
ASSUME PositiveNumbers == MaxRetries \in Nat \ {0} /\ Slots \in Nat \ {0}

VARIABLES
    kind,       \* which of the four
    asked,      \* the jobs of this round
    at,         \* where a job's goroutine is
    attempt,    \* which attempt it is at
    dials,      \* the goroutine that dials for an attempt of a job
    conns,      \* attempts whose connection is open
    errs,       \* errors in errCh
    answers,    \* jobs that succeeded
    cancelled,  \* whether ctx is done
    outcome     \* what the round returns

vars == <<kind, asked, at, attempt, dials, conns, errs, answers, cancelled, outcome>>

Kinds == {"workshop", "modlist", "sync", "steamcmd"}
Dials == kind \in {"modlist", "sync"}
Working == {"dialing", "calling", "hung", "backoff"}
Attempts == 1..MaxRetries
Busy == {j \in Jobs : at[j] \in Working}

Init == /\ kind \in Kinds
        /\ asked \in SUBSET Jobs
        /\ kind = "steamcmd" => Cardinality(asked) = 1
        /\ at = [j \in Jobs |-> IF j \in asked THEN "waiting" ELSE "ended"]
        /\ attempt = [j \in Jobs |-> 1]
        /\ dials = [j \in Jobs |-> [n \in Attempts |-> "none"]]
        /\ conns = {}
        /\ errs = 0
        /\ answers = {}
        /\ cancelled = FALSE
        /\ outcome = "none"

-----------------------------------------------------------------------------
(* How an attempt begins and how a job goes on after it. *)

BeginAttempt(j, n) ==
    /\ attempt' = [attempt EXCEPT ![j] = n]
    /\ at' = [at EXCEPT ![j] = IF Dials THEN "dialing" ELSE "calling"]
    /\ dials' = IF Dials THEN [dials EXCEPT ![j][n] = "running"] ELSE dials

\* Mutant: workers send their error without a default case.
FailBlocking(j) ==
    /\ errs = 0
    /\ at' = [at EXCEPT ![j] = "ended"]
    /\ errs' = errs + 1
    /\ UNCHANGED attempt

\* Mutant: only the sync phase reports its errors.
FailSilently(j) == /\ at' = [at EXCEPT ![j] = "ended"]
                   /\ errs' = IF kind = "sync" THEN errs + 1 ELSE 0
                   /\ UNCHANGED attempt

\* errCh has room for one error in fetchBatched and for all in SyncServers;
\* a modlist poll only logs.
Fail(j) == /\ at' = [at EXCEPT ![j] = "ended"]
           /\ \/ kind = "workshop" /\ errs' = 1
              \/ kind = "modlist" /\ UNCHANGED errs
              \/ kind \in {"sync", "steamcmd"} /\ errs' = errs + 1
           /\ UNCHANGED attempt

TryAgainOrFail(j) ==
    \/ attempt[j] = MaxRetries /\ Fail(j)
    \/ /\ attempt[j] < MaxRetries
       /\ at' = [at EXCEPT ![j] = "backoff"]
       /\ UNCHANGED <<attempt, errs>>

Hangup(j) == conns' = conns \ {<<j, attempt[j]>>}

-----------------------------------------------------------------------------
(* The steps of a job. *)

\* Mutant: one slot too many.
TakeSlotOfOneMore(j) ==
    /\ at[j] = "waiting"
    /\ Cardinality(Busy) <= Slots
    /\ BeginAttempt(j, 1)
    /\ UNCHANGED <<kind, asked, conns, errs, answers, cancelled, outcome>>

TakeSlot(j) == /\ at[j] = "waiting"
               /\ Cardinality(Busy) < Slots
               /\ BeginAttempt(j, 1)
               /\ UNCHANGED <<kind, asked, conns, errs, answers, cancelled, outcome>>

\* Mutant: waiting for a slot does not end with ctx.
LeaveQueueWithSlot(j) ==
    /\ at[j] = "waiting"
    /\ cancelled
    /\ Cardinality(Busy) < Slots
    /\ at' = [at EXCEPT ![j] = "ended"]
    /\ UNCHANGED <<kind, asked, attempt, dials, conns, errs, answers, cancelled, outcome>>

LeaveQueue(j) ==
    /\ at[j] = "waiting"
    /\ cancelled
    /\ at' = [at EXCEPT ![j] = "ended"]
    /\ UNCHANGED <<kind, asked, attempt, dials, conns, errs, answers, cancelled, outcome>>

\* ssh.Dial returns at some time or never: it has no timeout of its own.
DialReturns(j, n, ok) ==
    /\ dials[j][n] = "running"
    /\ dials' = [dials EXCEPT ![j][n] = "returned"]
    /\ conns' = IF ok THEN conns \cup {<<j, n>>} ELSE conns
    /\ UNCHANGED <<kind, asked, at, attempt, errs, answers, cancelled, outcome>>

\* Mutant: connCh without a buffer.
DeliverDialUnbuffered(j, n) ==
    /\ dials[j][n] = "returned"
    /\ at[j] = "dialing"
    /\ attempt[j] = n
    /\ dials' = [dials EXCEPT ![j][n] = "delivered"]
    /\ UNCHANGED <<kind, asked, at, attempt, conns, errs, answers, cancelled, outcome>>

DeliverDial(j, n) ==
    /\ dials[j][n] = "returned"
    /\ dials' = [dials EXCEPT ![j][n] = "delivered"]
    /\ UNCHANGED <<kind, asked, at, attempt, conns, errs, answers, cancelled, outcome>>

ReceiveDial(j) ==
    /\ at[j] = "dialing"
    /\ dials[j][attempt[j]] = "delivered"
    /\ dials' = [dials EXCEPT ![j][attempt[j]] = "received"]
    /\ IF <<j, attempt[j]>> \in conns
       THEN at' = [at EXCEPT ![j] = "calling"] /\ UNCHANGED <<attempt, errs>>
       ELSE TryAgainOrFail(j)
    /\ UNCHANGED <<kind, asked, conns, answers, cancelled, outcome>>

\* An attempt that dials too long: an error like others in dialSFTP; in
\* fetchModlistHTML it is DeadlineExceeded and the last.
DialTimesOut(j) ==
    /\ at[j] = "dialing"
    /\ IF kind = "sync" THEN TryAgainOrFail(j) ELSE Fail(j)
    /\ UNCHANGED <<kind, asked, dials, conns, answers, cancelled, outcome>>

\* ctx is done: heard while dialing, in an HTTP request, while a file is read
\* and in the backoff, not in sftp.NewClient.
StopHeard(j) ==
    /\ cancelled
    /\ \/ at[j] \in {"dialing", "backoff"}
       \/ (at[j] = "calling" /\ kind # "sync")
    /\ Fail(j)
    /\ IF at[j] = "calling" THEN Hangup(j) ELSE UNCHANGED conns
    /\ UNCHANGED <<kind, asked, dials, answers, cancelled, outcome>>

CallSucceeds(j) ==
    /\ at[j] = "calling"
    /\ at' = [at EXCEPT ![j] = "ended"]
    /\ answers' = answers \cup {j}
    /\ Hangup(j)
    /\ UNCHANGED <<kind, asked, attempt, dials, errs, cancelled, outcome>>

\* Mutant: the connection stays open when sftp.NewClient fails.
CallFailsKeepingConnection(j) ==
    /\ at[j] = "calling"
    /\ TryAgainOrFail(j)
    /\ UNCHANGED <<kind, asked, dials, conns, answers, cancelled, outcome>>

\* A network error, status 429 or 5xx, sftp.NewClient, Open or ReadAll failing,
\* a cache file that cannot be written, an exit code.
CallFails(j) ==
    /\ at[j] = "calling"
    /\ TryAgainOrFail(j)
    /\ Hangup(j)
    /\ UNCHANGED <<kind, asked, dials, answers, cancelled, outcome>>

\* Not tried again: another status or bad JSON from the Web API, and a timeout
\* of the HTTP client or of reading the modlist, which are DeadlineExceeded.
CallFailsForGood(j) ==
    /\ at[j] = "calling"
    /\ kind \in {"workshop", "modlist"}
    /\ Fail(j)
    /\ Hangup(j)
    /\ UNCHANGED <<kind, asked, dials, answers, cancelled, outcome>>

\* sftp.NewClient and SteamCMD have no timeout.
CallHangs(j) ==
    /\ at[j] = "calling"
    /\ kind # "workshop"
    /\ at' = [at EXCEPT ![j] = "hung"]
    /\ UNCHANGED <<kind, asked, attempt, dials, conns, errs, answers, cancelled, outcome>>

\* exec.CommandContext kills SteamCMD, which fails like any other run.
KillHung(j) ==
    /\ at[j] = "hung"
    /\ kind = "steamcmd"
    /\ cancelled
    /\ TryAgainOrFail(j)
    /\ UNCHANGED <<kind, asked, dials, conns, answers, cancelled, outcome>>

BackoffOver(j) ==
    /\ at[j] = "backoff"
    /\ BeginAttempt(j, attempt[j] + 1)
    /\ UNCHANGED <<kind, asked, conns, errs, answers, cancelled, outcome>>

Step(j) == \/ TakeSlot(j) \/ LeaveQueue(j)
           \/ ReceiveDial(j) \/ DialTimesOut(j)
           \/ StopHeard(j)
           \/ CallSucceeds(j) \/ CallFails(j) \/ CallFailsForGood(j)
           \/ CallHangs(j) \/ KillHung(j)
           \/ BackoffOver(j)

-----------------------------------------------------------------------------
\* Mutant: without the look at ctx.Err().
JoinWithoutCtxErr == /\ \A j \in Jobs : at[j] = "ended"
                     /\ outcome = "none"
                     /\ outcome' = IF errs > 0 THEN "failed" ELSE "whole"
                     /\ UNCHANGED <<kind, asked, at, attempt, dials, conns, errs, answers, cancelled>>

\* wg.Wait, and what the round returns then.
Join == /\ \A j \in Jobs : at[j] = "ended"
        /\ outcome = "none"
        /\ LET failed == errs > 0 \/ (kind = "workshop" /\ cancelled)
           IN  \/ kind = "modlist" /\ outcome' = "ended"
               \/ kind # "modlist" /\ outcome' = IF failed THEN "failed" ELSE "whole"
        /\ UNCHANGED <<kind, asked, at, attempt, dials, conns, errs, answers, cancelled>>

Cancel == /\ ~cancelled
          /\ cancelled' = TRUE
          /\ UNCHANGED <<kind, asked, at, attempt, dials, conns, errs, answers, outcome>>

DialSteps == \E j \in Jobs, n \in Attempts :
                (\E ok \in BOOLEAN : DialReturns(j, n, ok)) \/ DeliverDial(j, n)

Next == (\E j \in Jobs : Step(j)) \/ DialSteps \/ Join \/ Cancel

Spec == Init /\ [][Next]_vars
\* Goroutines that can run do; a dial may take forever, a signal never come.
Fairness == /\ WF_vars(Join)
            /\ \A j \in Jobs : WF_vars(Step(j))
            /\ \A j \in Jobs, n \in Attempts : WF_vars(DeliverDial(j, n))
FairSpec == Spec /\ Fairness

-----------------------------------------------------------------------------
(* Properties *)

TypeOK ==
    /\ kind \in Kinds
    /\ asked \subseteq Jobs
    /\ at \in [Jobs -> Working \cup {"waiting", "ended"}]
    /\ attempt \in [Jobs -> Attempts]
    /\ dials \in [Jobs -> [Attempts -> {"none", "running", "returned", "delivered", "received"}]]
    /\ conns \subseteq Jobs \X Attempts
    /\ errs \in Nat
    /\ answers \subseteq asked
    /\ cancelled \in BOOLEAN
    /\ outcome \in {"none", "whole", "failed", "ended"}

\* A job that ended leaves an answer or an error, except when it heard of a
\* stop or only logs.
EndsLeaveATrace ==
    kind # "modlist" =>
        \A j \in asked : at[j] = "ended" => j \in answers \/ errs > 0 \/ cancelled

\* Only the attempt a job is at, or one before it, was ever begun, and one that
\* is being dialed has its goroutine.
JobInOrder(j) ==
    /\ j \notin asked \/ outcome # "none" => at[j] = "ended"
    /\ at[j] = "backoff" => attempt[j] < MaxRetries
    /\ at[j] = "dialing" => dials[j][attempt[j]] # "received"
    /\ \A n \in Attempts :
        /\ n > attempt[j] \/ ~Dials \/ at[j] = "waiting" => dials[j][n] = "none"
        /\ <<j, n>> \in conns => dials[j][n] \in {"returned", "delivered", "received"}
AttemptsInOrder == \A j \in Jobs : JobInOrder(j)

\* The inductive invariant.
FanOutInv == TypeOK /\ EndsLeaveATrace /\ AttemptsInOrder

\* At most Slots jobs work at a time, the ones in their backoff included.
SlotsHold == Cardinality(Busy) <= Slots

\* No partial answer passes for a whole one: PollMetadata would stamp mods it
\* got no answer for as checked.  A sync phase that was stopped may.
AnswerIsWhole ==
    outcome = "whole" => answers = asked \/ (kind # "workshop" /\ cancelled)

\* Connections are closed, however tries end, unless the attempt was given up
\* before its dial was through.
OnlyLateDialsStayOpen ==
    \A j \in Jobs, n \in Attempts :
        <<j, n>> \in conns =>
            \/ dials[j][n] # "received"
            \/ (at[j] \in {"calling", "hung"} /\ attempt[j] = n)

\* A goroutine whose dial returned ends, also when nobody waits for it.
DialersEnd == \A j \in Jobs, n \in Attempts :
                 dials[j][n] = "returned" ~> dials[j][n] # "returned"

\* No worker blocks: a round ends unless sftp.NewClient or SteamCMD hangs.
RoundsEnd == <>(outcome # "none" \/ \E j \in Jobs : at[j] = "hung")

\* After a stop every job ends, also those queued behind one that hangs for
\* good in sftp.NewClient.
StopsAreHeard ==
    cancelled ~> \A j \in Jobs : at[j] = "ended" \/ (at[j] = "hung" /\ kind # "steamcmd")
=============================================================================
