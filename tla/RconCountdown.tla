--------------------------- MODULE RconCountdown ---------------------------
(***************************************************************************)
(* The countdown of one server, second by second: RCON ticks announce the  *)
(* minutes that are left and, from the deadline on, send #shutdown; a new  *)
(* sync moves the deadline, which counts from the end of this server's     *)
(* sync and is saved when the others have ended too.  A tick keeps the now *)
(* it started with however long dialing takes, works on the copy its       *)
(* Update loaded, and is lost when the save fails or the process dies.     *)
(***************************************************************************)
EXTENDS Integers

CONSTANTS
    Minute,         \* seconds in a minute
    Grace,          \* shutdown.grace_period_seconds
    AnnounceEvery,  \* shutdown.announce_every_seconds
    Never,          \* a missing timestamp
    MaxNow,         \* bound: where the clock stops
    MaxSyncs        \* bound: how many syncs start a countdown

ASSUME PositiveTimes == /\ Minute \in Nat \ {0}
                        /\ Grace \in Nat \ {0}
                        /\ AnnounceEvery \in Nat \ {0}
ASSUME CountdownBounds == MaxNow \in Nat /\ MaxSyncs \in Nat
ASSUME NeverIsNoTime == Never \notin Int

VARIABLES
    now,        \* the clock
    disk,       \* the server's record in state.json
    mem,        \* the copy the SFTP phase or the tick works on, disk between them
    phase,      \* what the handlers are doing with this server
    tickNow,    \* the now Tick was called with, 0 between ticks
    takesSay,   \* whether the game server answers say commands
    syncs,      \* how many syncs started a countdown
    told,       \* history: what announcements said since the last #shutdown
    lastSaid    \* history: tickNow of the last announcement on record

vars == <<now, disk, mem, phase, tickNow, takesSay, syncs, told, lastSaid>>

Time == Nat \cup {Never}
Record == [needsShutdown : BOOLEAN, deadline : Time, nextAnnounce : Time]
NoCountdown == [needsShutdown |-> FALSE, deadline |-> Never, nextAnnounce |-> Never]

\* Mutant: always one minute more.
RemainingMinutesAndOne(deadline, t) == IF deadline <= t THEN 0 ELSE (deadline - t) \div Minute + 1
\* Mutant: whole minutes only.
RemainingWholeMinutes(deadline, t) == IF deadline <= t THEN 0 ELSE (deadline - t) \div Minute

\* The least number of minutes that covers what is left.
RemainingMinutes(deadline, t) ==
    IF deadline <= t THEN 0 ELSE (deadline - t + Minute - 1) \div Minute
\* Mutant: strictly after next.
ShouldAnnounceAfter(t, next) == next = Never \/ t > next
ShouldAnnounce(t, next) == next = Never \/ t >= next
BeforeDeadline == mem.deadline # Never /\ tickNow < mem.deadline

Init == /\ now = 0
        /\ disk = NoCountdown
        /\ mem = NoCountdown
        /\ phase = "idle"
        /\ tickNow = 0
        /\ takesSay \in BOOLEAN
        /\ syncs = 0
        /\ told = {}
        /\ lastSaid = Never

TimePasses == /\ now < MaxNow
              /\ now' = now + 1
              /\ UNCHANGED <<disk, mem, phase, tickNow, takesSay, syncs, told, lastSaid>>

\* Mutant: a countdown that is moved keeps its announcement time.
StartCountdownKeepingNext ==
    /\ phase = "idle"
    /\ syncs < MaxSyncs
    /\ now + Grace <= MaxNow
    /\ syncs' = syncs + 1
    /\ mem' = [needsShutdown |-> TRUE, deadline |-> now + Grace,
               nextAnnounce |-> IF disk.nextAnnounce = Never THEN now ELSE disk.nextAnnounce]
    /\ phase' = "syncing"
    /\ UNCHANGED <<now, disk, tickNow, takesSay, told, lastSaid>>

\* syncServer succeeded: a new countdown, or a running one is moved.  Other
\* servers are still being synced.
StartCountdown == /\ phase = "idle"
                  /\ syncs < MaxSyncs
                  /\ now + Grace <= MaxNow
                  /\ syncs' = syncs + 1
                  /\ mem' = [needsShutdown |-> TRUE, deadline |-> now + Grace,
                             nextAnnounce |-> now]
                  /\ phase' = "syncing"
                  /\ UNCHANGED <<now, disk, tickNow, takesSay, told, lastSaid>>

\* All servers are joined and none had an error; the deadline may be past.
SaveCountdown == /\ phase = "syncing"
                 /\ disk' = mem
                 /\ lastSaid' = Never
                 /\ phase' = "idle"
                 /\ UNCHANGED <<now, mem, tickNow, takesSay, syncs, told>>

BeginTick == /\ phase = "idle"
             /\ disk.needsShutdown
             /\ phase' = "ticking"
             /\ tickNow' = now
             /\ mem' = disk
             /\ UNCHANGED <<now, disk, takesSay, syncs, told, lastSaid>>

\* The dial fails, or ctx is done before this server's turn.
NotReached == /\ phase = "ticking"
              /\ phase' = "saving"
              /\ UNCHANGED <<now, disk, mem, tickNow, takesSay, syncs, told, lastSaid>>

NothingToSay == /\ phase = "ticking"
                /\ BeforeDeadline
                /\ ~ShouldAnnounce(tickNow, mem.nextAnnounce)
                /\ phase' = "saving"
                /\ UNCHANGED <<now, disk, mem, tickNow, takesSay, syncs, told, lastSaid>>

\* A command arrives and is answered, arrives and its answer is lost, or does
\* not arrive.
Outcomes == {"ok", "replyLost", "failed"}

\* Mutant: next_announce_at += announce_every_seconds.
AnnounceCatchingUp(outcome) ==
    /\ phase = "ticking"
    /\ BeforeDeadline
    /\ ShouldAnnounce(tickNow, mem.nextAnnounce)
    /\ outcome # "failed" => takesSay
    /\ mem' = IF outcome = "ok" THEN [mem EXCEPT !.nextAnnounce = @ + AnnounceEvery] ELSE mem
    /\ phase' = "saving"
    /\ UNCHANGED <<now, disk, tickNow, takesSay, syncs, told, lastSaid>>

\* What a player reads who gets the message now, and by how much now is later
\* than the time the minutes were computed for.
Said == [restartAfter |-> now + Minute * (RemainingMinutes(mem.deadline, tickNow) - 1),
         late |-> now - tickNow]
\* The messages whose claim, less their delay, reaches furthest.
Longest(claims) ==
    {said \in claims : \A other \in claims :
        said.restartAfter - said.late >= other.restartAfter - other.late}

Announce(outcome) ==
    /\ phase = "ticking"
    /\ BeforeDeadline
    /\ ShouldAnnounce(tickNow, mem.nextAnnounce)
    /\ outcome # "failed" => takesSay
    /\ told' = IF outcome = "failed" THEN told ELSE Longest(told \cup {Said})
    /\ mem' = IF outcome = "ok" THEN [mem EXCEPT !.nextAnnounce = tickNow + AnnounceEvery]
              ELSE mem
    /\ phase' = "saving"
    /\ UNCHANGED <<now, disk, tickNow, takesSay, syncs, lastSaid>>

\* Mutant: a final message that fails ends the attempt.
SendShutdownIfSaid(outcome) ==
    /\ phase = "ticking"
    /\ ~BeforeDeadline
    /\ takesSay
    /\ told' = IF outcome = "failed" THEN told ELSE {}
    /\ mem' = IF outcome = "ok" THEN [mem EXCEPT !.needsShutdown = FALSE] ELSE mem
    /\ phase' = "saving"
    /\ UNCHANGED <<now, disk, tickNow, takesSay, syncs, lastSaid>>

\* The error of the final message is only logged.
SendShutdown(outcome) ==
    /\ phase = "ticking"
    /\ ~BeforeDeadline
    /\ told' = IF outcome = "failed" THEN told ELSE {}
    /\ mem' = IF outcome = "ok" THEN [mem EXCEPT !.needsShutdown = FALSE] ELSE mem
    /\ phase' = "saving"
    /\ UNCHANGED <<now, disk, tickNow, takesSay, syncs, lastSaid>>

\* The end of the Update.
SaveTick == /\ phase = "saving"
            /\ disk' = mem
            /\ lastSaid' = IF mem.nextAnnounce # disk.nextAnnounce THEN tickNow ELSE lastSaid
            /\ phase' = "idle"
            /\ tickNow' = 0
            /\ UNCHANGED <<now, mem, takesSay, syncs, told>>

\* The save fails, another server had an error, or the process dies somewhere
\* in between and starts again: the copy is gone.
LoseUpdate == /\ phase # "idle"
              /\ phase' = "idle"
              /\ mem' = disk
              /\ tickNow' = 0
              /\ UNCHANGED <<now, disk, takesSay, syncs, told, lastSaid>>

Tick == \/ BeginTick
        \/ NotReached
        \/ NothingToSay
        \/ \E outcome \in Outcomes : Announce(outcome) \/ SendShutdown(outcome)
        \/ SaveTick

Next == TimePasses \/ StartCountdown \/ SaveCountdown \/ Tick \/ LoseUpdate

Spec == Init /\ [][Next]_vars
\* The RCON ticker fires again and again and a tick ends; a server that is asked
\* to shut down again and again does so at some time, and of the ticks in which
\* it does not every one is lost.  The SFTP phase may go on forever, as a server
\* in it may hang: SaveCountdown has no fairness.
Fairness == /\ WF_vars(TimePasses)
            /\ WF_vars(Tick)
            /\ SF_vars(SendShutdown("ok"))
            /\ SF_vars(SaveTick /\ ~mem.needsShutdown)
FairSpec == Spec /\ Fairness

-----------------------------------------------------------------------------
(* Properties *)

TypeOK == /\ now \in Nat
          /\ disk \in Record
          /\ mem \in Record
          /\ phase \in {"idle", "syncing", "ticking", "saving"}
          /\ tickNow \in Nat
          /\ takesSay \in BOOLEAN
          /\ syncs \in Nat
          /\ told \subseteq [restartAfter : Int, late : Nat]
          /\ lastSaid \in Time

\* What players were told does not run past t by more than it was late.
KeepsPromises(t) == \A said \in told : said.restartAfter - said.late < t

\* The record between a sync and its restart.
CountdownIsComplete ==
    /\ disk.needsShutdown => disk.deadline # Never /\ disk.nextAnnounce # Never
    /\ disk.deadline # Never => KeepsPromises(disk.deadline) /\ disk.deadline <= now + Grace
    /\ KeepsPromises(now + Grace)
    /\ lastSaid # Never => disk.nextAnnounce = lastSaid + AnnounceEvery
    /\ lastSaid = Never /\ disk.needsShutdown => disk.nextAnnounce <= now

\* A sync has a whole countdown to save.
SyncHasCountdown ==
    phase = "syncing" =>
        /\ mem.needsShutdown
        /\ mem.deadline # Never /\ KeepsPromises(mem.deadline) /\ mem.deadline <= now + Grace
        /\ mem.nextAnnounce # Never /\ mem.nextAnnounce <= now

\* A tick works on the record it loaded: no other handler runs meanwhile.
TickOwnsRecord ==
    phase \in {"ticking", "saving"} =>
        /\ disk.needsShutdown
        /\ mem.deadline = disk.deadline
        /\ tickNow <= now
        /\ lastSaid = Never => disk.nextAnnounce <= tickNow
        /\ phase = "ticking" => mem = disk
        /\ phase = "saving" => \/ mem.nextAnnounce = disk.nextAnnounce
                               \/ mem.nextAnnounce = tickNow + AnnounceEvery

\* The inductive invariant.
CountdownInv == TypeOK /\ CountdownIsComplete /\ SyncHasCountdown /\ TickOwnsRecord

ShutdownArrives == \E outcome \in Outcomes \ {"failed"} : SendShutdown(outcome)

\* What players are told holds but for its delay: whoever reads "restart in n
\* minutes" has more than n - 1 minutes, less the time this message took from
\* the start of its tick, though later syncs move the deadline, countdowns are
\* saved late, ticks are slow or lost and #shutdown is sent twice.
NoEarlierThanSaid ==
    [][ShutdownArrives => \A said \in told : now > said.restartAfter - said.late]_vars

\* No flood: however long RCON was away, an announcement keeps its distance to
\* the last one on record of this countdown.
AnnouncementsArePaced ==
    [][phase = "ticking" /\ phase' = "saving" /\ mem'.nextAnnounce # mem.nextAnnounce
           => lastSaid = Never \/ tickNow >= lastSaid + AnnounceEvery]_vars

\* A tick is silent before the deadline only when players of this countdown
\* were told less than AnnounceEvery ago.
PlayersStayWarned ==
    [][NothingToSay => lastSaid # Never /\ tickNow < lastSaid + AnnounceEvery]_vars

\* RemainingMinutes is the ceiling of what is left, as its test says.
MinutesAreCeiling ==
    \A deadline \in 0..MaxNow :
        LET n == RemainingMinutes(deadline, now)
        IN  /\ n * Minute >= deadline - now
            /\ \A k \in 0..n : k * Minute >= deadline - now => k = n

\* Every countdown ends, also on a server that takes no say command, unless a
\* sync phase comes that never ends.
CountdownsEnd == disk.needsShutdown ~> ~disk.needsShutdown \/ phase = "syncing"
=============================================================================
