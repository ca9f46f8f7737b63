------------------------ MODULE RconCountdownProofs ------------------------
(***************************************************************************)
(* For all lengths of minutes, grace periods and announcement intervals,   *)
(* and for any clock: what players read is kept but for its delay,         *)
(* announcements are paced, and a silent tick means that they were told.   *)
(***************************************************************************)
EXTENDS RconCountdown, TLAPS

\* The minutes on the screen, less one, are over before the deadline.
LEMMA MinutesBound ==
    ASSUME NEW deadline \in Int, NEW t \in Int, t < deadline
    PROVE  /\ RemainingMinutes(deadline, t) \in Int
           /\ Minute * (RemainingMinutes(deadline, t) - 1) < deadline - t
           /\ Minute * RemainingMinutes(deadline, t) >= deadline - t
<1> DEFINE x == deadline - t
           q == (x + Minute - 1) \div Minute
<1>1. Minute \in Int /\ Minute > 0
  BY PositiveTimes
<1>2. x \in Int
  OBVIOUS
<1> HIDE DEF x
<1>3. q \in Int /\ Minute * q <= x + Minute - 1 /\ Minute * q >= x
  BY <1>1, <1>2
<1>4. Minute * (q - 1) = Minute * q - Minute
  BY <1>1, <1>3
<1>5. RemainingMinutes(deadline, t) = q
  BY <1>1 DEF RemainingMinutes, x
<1> HIDE DEF q
<1> QED
  BY <1>1, <1>2, <1>3, <1>4, <1>5 DEF x

LEMMA InitInv == Init => CountdownInv
  BY PositiveTimes, NeverIsNoTime
  DEF Init, CountdownInv, TypeOK, CountdownIsComplete, SyncHasCountdown, TickOwnsRecord,
      KeepsPromises, Record, Time, NoCountdown

\* The facts about one state that every step below starts from.
LEMMA StateFacts ==
    ASSUME CountdownInv
    PROVE  /\ Minute \in Nat /\ Grace \in Nat /\ AnnounceEvery \in Nat
           /\ Grace > 0 /\ AnnounceEvery > 0 /\ MaxNow \in Int /\ MaxSyncs \in Int
           /\ Never \notin Int
           /\ disk.deadline \in Nat \cup {Never} /\ disk.nextAnnounce \in Nat \cup {Never}
           /\ mem.deadline \in Nat \cup {Never} /\ mem.nextAnnounce \in Nat \cup {Never}
           /\ disk.needsShutdown \in BOOLEAN /\ mem.needsShutdown \in BOOLEAN
           /\ now \in Nat /\ tickNow \in Nat
           /\ \A said \in told : said.restartAfter \in Int /\ said.late \in Int
  BY PositiveTimes, CountdownBounds, NeverIsNoTime DEF CountdownInv, TypeOK, Record, Time

LEMMA TimePassesInv == CountdownInv /\ TimePasses => CountdownInv'
<1> SUFFICES ASSUME CountdownInv, TimePasses PROVE CountdownInv'
  OBVIOUS
<1>1. TypeOK'
  BY DEF CountdownInv, TypeOK, TimePasses
<1>2. CountdownIsComplete'
  BY StateFacts DEF CountdownInv, CountdownIsComplete, KeepsPromises, TimePasses
<1>3. SyncHasCountdown'
  BY StateFacts DEF CountdownInv, SyncHasCountdown, KeepsPromises, TimePasses
<1>4. TickOwnsRecord'
  BY StateFacts DEF CountdownInv, TickOwnsRecord, TimePasses
<1> QED
  BY <1>1, <1>2, <1>3, <1>4 DEF CountdownInv

LEMMA StartCountdownInv == CountdownInv /\ StartCountdown => CountdownInv'
<1> SUFFICES ASSUME CountdownInv, StartCountdown PROVE CountdownInv'
  OBVIOUS
<1>1. TypeOK'
  BY StateFacts DEF CountdownInv, TypeOK, Record, Time, StartCountdown
<1>2. CountdownIsComplete'
  BY DEF CountdownInv, CountdownIsComplete, KeepsPromises, StartCountdown
<1>3. SyncHasCountdown'
  BY StateFacts DEF CountdownInv, CountdownIsComplete, SyncHasCountdown, KeepsPromises,
                    StartCountdown
<1>4. TickOwnsRecord'
  BY DEF TickOwnsRecord, StartCountdown
<1> QED
  BY <1>1, <1>2, <1>3, <1>4 DEF CountdownInv

\* The deadline may be past by then: what was told of the last one still holds.
LEMMA SaveCountdownInv == CountdownInv /\ SaveCountdown => CountdownInv'
<1> SUFFICES ASSUME CountdownInv, SaveCountdown PROVE CountdownInv'
  OBVIOUS
<1>1. TypeOK'
  BY DEF CountdownInv, TypeOK, Time, SaveCountdown
<1>2. CountdownIsComplete'
  BY StateFacts DEF CountdownInv, CountdownIsComplete, SyncHasCountdown, KeepsPromises,
                    SaveCountdown
<1>3. SyncHasCountdown' /\ TickOwnsRecord'
  BY DEF SyncHasCountdown, TickOwnsRecord, SaveCountdown
<1> QED
  BY <1>1, <1>2, <1>3 DEF CountdownInv

LEMMA BeginTickInv == CountdownInv /\ BeginTick => CountdownInv'
<1> SUFFICES ASSUME CountdownInv, BeginTick PROVE CountdownInv'
  OBVIOUS
<1>1. TypeOK'
  BY DEF CountdownInv, TypeOK, BeginTick
<1>2. CountdownIsComplete'
  BY DEF CountdownInv, CountdownIsComplete, KeepsPromises, BeginTick
<1>3. SyncHasCountdown'
  BY DEF SyncHasCountdown, BeginTick
<1>4. TickOwnsRecord'
  BY StateFacts DEF CountdownInv, CountdownIsComplete, TickOwnsRecord, BeginTick
<1> QED
  BY <1>1, <1>2, <1>3, <1>4 DEF CountdownInv

\* A tick that changes no time: nothing was sent, or only #shutdown.
LEMMA SilentTickInv ==
    ASSUME CountdownInv, NotReached \/ NothingToSay \/ \E o \in Outcomes : SendShutdown(o)
    PROVE  CountdownInv'
<1>1. mem \in Record /\ (mem' = mem \/ mem' = [mem EXCEPT !.needsShutdown = FALSE])
  BY DEF CountdownInv, TypeOK, NotReached, NothingToSay, SendShutdown
<1>2. told' \subseteq told
  BY DEF NotReached, NothingToSay, SendShutdown
<1>3. TypeOK'
  <2>1. mem' \in Record
    BY <1>1 DEF Record
  <2> QED
    BY <1>2, <2>1 DEF CountdownInv, TypeOK, NotReached, NothingToSay, SendShutdown
<1>4. CountdownIsComplete'
  BY <1>2 DEF CountdownInv, CountdownIsComplete, KeepsPromises, NotReached, NothingToSay,
              SendShutdown
<1>5. SyncHasCountdown'
  BY DEF SyncHasCountdown, NotReached, NothingToSay, SendShutdown
<1>6. mem'.deadline = mem.deadline /\ mem'.nextAnnounce = mem.nextAnnounce
  BY <1>1 DEF Record
<1>7. TickOwnsRecord'
  BY <1>6 DEF CountdownInv, TickOwnsRecord, NotReached, NothingToSay, SendShutdown
<1> QED
  BY <1>3, <1>4, <1>5, <1>7 DEF CountdownInv

\* What a message says, less its delay, is over before the deadline.
LEMMA SaidIsKept ==
    ASSUME CountdownInv, phase = "ticking", BeforeDeadline
    PROVE  /\ Said \in [restartAfter : Int, late : Nat]
           /\ Said.restartAfter - Said.late < mem.deadline
<1>1. mem.deadline \in Int /\ tickNow \in Int /\ now \in Nat /\ tickNow < mem.deadline
      /\ tickNow \in Nat /\ tickNow <= now
  BY StateFacts DEF BeforeDeadline, CountdownInv, TickOwnsRecord
<1> DEFINE less == Minute * (RemainingMinutes(mem.deadline, tickNow) - 1)
<1>2. less \in Int /\ less < mem.deadline - tickNow
  <2>1. /\ RemainingMinutes(mem.deadline, tickNow) \in Int
        /\ less < mem.deadline - tickNow
    BY <1>1, MinutesBound
  <2> QED
    BY <2>1, StateFacts
<1>3. Said = [restartAfter |-> now + less, late |-> now - tickNow]
  BY DEF Said
<1> HIDE DEF less
<1>4. now + less \in Int /\ now - tickNow \in Nat
  BY <1>1, <1>2
<1>5. (now + less) - (now - tickNow) < mem.deadline
  BY <1>1, <1>2
<1> QED
  BY <1>3, <1>4, <1>5

\* An announcement promises less than what is left, whatever becomes of it.
LEMMA AnnounceInv ==
    ASSUME CountdownInv, NEW o \in Outcomes, Announce(o)
    PROVE  CountdownInv'
<1>1. /\ mem.deadline = disk.deadline /\ phase = "ticking" /\ mem = disk
      /\ disk.needsShutdown /\ BeforeDeadline /\ disk.deadline \in Nat
  BY StateFacts DEF CountdownInv, TickOwnsRecord, Announce, BeforeDeadline
<1>2. told' \subseteq told \cup {Said}
  BY DEF Announce, Longest
<1>3. /\ Said \in [restartAfter : Int, late : Nat]
      /\ Said.restartAfter - Said.late < disk.deadline
  BY <1>1, SaidIsKept
<1>4. KeepsPromises(disk.deadline)'
  <2>1. ASSUME NEW said \in told' PROVE said.restartAfter - said.late < disk.deadline
    <3>1. said \in told => said.restartAfter - said.late < disk.deadline
      BY <1>1, StateFacts DEF CountdownInv, CountdownIsComplete, KeepsPromises
    <3>2. CASE said \in told
      BY <3>1, <3>2
    <3>3. CASE said = Said
      BY <1>3, <3>3
    <3> QED
      BY <1>2, <2>1, <3>2, <3>3
  <2> QED
    BY <2>1 DEF KeepsPromises, Announce
<1>5. told' \subseteq [restartAfter : Int, late : Nat]
  BY <1>2, <1>3 DEF CountdownInv, TypeOK
<1>6. TypeOK'
  <2>1. mem' \in Record
    BY StateFacts DEF CountdownInv, TypeOK, Record, Time, Announce
  <2> QED
    BY <1>5, <2>1 DEF CountdownInv, TypeOK, Announce
<1>7. disk.deadline <= now + Grace
  BY <1>1, StateFacts DEF CountdownInv, CountdownIsComplete
<1>8. KeepsPromises(now + Grace)'
  <2>1. ASSUME NEW said \in told' PROVE said.restartAfter - said.late < now + Grace
    <3>1. said.restartAfter \in Int /\ said.late \in Int
      BY <1>5
    <3>2. said.restartAfter - said.late < disk.deadline
      BY <1>4 DEF KeepsPromises, Announce
    <3> QED
      BY <1>1, <1>7, <3>1, <3>2, StateFacts
  <2> QED
    BY <2>1 DEF KeepsPromises, Announce
<1>9. CountdownIsComplete'
  BY <1>1, <1>4, <1>7, <1>8 DEF CountdownInv, CountdownIsComplete, Announce
<1>10. SyncHasCountdown'
  BY DEF SyncHasCountdown, Announce
<1>11. mem'.deadline = mem.deadline
       /\ (mem'.nextAnnounce = mem.nextAnnounce \/ mem'.nextAnnounce = tickNow + AnnounceEvery)
  BY DEF CountdownInv, TypeOK, Record, Announce
<1>12. TickOwnsRecord'
  BY <1>1, <1>11 DEF CountdownInv, TickOwnsRecord, Announce
<1> QED
  BY <1>6, <1>9, <1>10, <1>12 DEF CountdownInv

LEMMA SaveTickInv == CountdownInv /\ SaveTick => CountdownInv'
<1> SUFFICES ASSUME CountdownInv, SaveTick PROVE CountdownInv'
  OBVIOUS
<1>1. TypeOK'
  BY StateFacts DEF CountdownInv, TypeOK, Record, Time, SaveTick
<1>2. CountdownIsComplete'
  BY StateFacts DEF CountdownInv, CountdownIsComplete, TickOwnsRecord, KeepsPromises, SaveTick
<1>3. SyncHasCountdown' /\ TickOwnsRecord'
  BY DEF SyncHasCountdown, TickOwnsRecord, SaveTick
<1> QED
  BY <1>1, <1>2, <1>3 DEF CountdownInv

LEMMA LoseUpdateInv == CountdownInv /\ LoseUpdate => CountdownInv'
  BY DEF CountdownInv, TypeOK, CountdownIsComplete, SyncHasCountdown, TickOwnsRecord,
         KeepsPromises, LoseUpdate

LEMMA NextInv == CountdownInv /\ [Next]_vars => CountdownInv'
<1> SUFFICES ASSUME CountdownInv, [Next]_vars PROVE CountdownInv'
  OBVIOUS
<1>1. CASE UNCHANGED vars
  BY <1>1 DEF vars, CountdownInv, TypeOK, CountdownIsComplete, SyncHasCountdown,
                TickOwnsRecord, KeepsPromises
<1>2. CASE Next
  BY <1>2, TimePassesInv, StartCountdownInv, SaveCountdownInv, BeginTickInv, SilentTickInv,
     AnnounceInv, SaveTickInv, LoseUpdateInv DEF Next, Tick
<1> QED
  BY <1>1, <1>2

\* A countdown, saved or about to be, is complete and at most a grace period
\* away; its deadline is later than anything players were told, less the time
\* the message took; and a tick owns the record it works on.
THEOREM CountdownInvAlways == Spec => []CountdownInv
  BY InitInv, NextInv, PTL DEF Spec

\* A number of minutes that covers what is left is no less than the one shown:
\* RemainingMinutes rounds up and no further, at every deadline and time.
THEOREM MinutesAreCeilingAlways == Spec => []MinutesAreCeiling
<1>1. TypeOK => MinutesAreCeiling
  <2>1. SUFFICES ASSUME TypeOK, NEW deadline \in 0..MaxNow
                 PROVE  LET n == RemainingMinutes(deadline, now)
                        IN  /\ n * Minute >= deadline - now
                            /\ \A k \in 0..n : k * Minute >= deadline - now => k = n
    BY DEF MinutesAreCeiling
  <2>2. deadline \in Int /\ now \in Int /\ Minute \in Int /\ Minute > 0
    BY <2>1, CountdownBounds, PositiveTimes DEF TypeOK
  <2> DEFINE n == RemainingMinutes(deadline, now)
  <2>3. CASE deadline <= now
    BY <2>2, <2>3 DEF RemainingMinutes
  <2>4. CASE now < deadline
    <3>1. n \in Int /\ Minute * (n - 1) < deadline - now /\ Minute * n >= deadline - now
      BY <2>2, <2>4, MinutesBound
    <3> HIDE DEF n
    <3>2. n * Minute = Minute * n
      BY <2>2, <3>1
    <3>3. ASSUME NEW k \in 0..n, k * Minute >= deadline - now
          PROVE  k = n
      <4>1. SUFFICES ASSUME k <= n - 1 PROVE FALSE
        BY <3>1
      <4>2. Minute * k <= Minute * (n - 1)
        BY <2>2, <3>1, <4>1
      <4> QED
        BY <2>2, <3>1, <3>3, <4>2
    <3>4. n * Minute >= deadline - now /\ \A k \in 0..n : k * Minute >= deadline - now => k = n
      BY <2>2, <3>1, <3>2, <3>3
    <3> QED
      BY <3>4 DEF n
  <2> QED
    BY <2>2, <2>3, <2>4
<1> QED
  BY <1>1, CountdownInvAlways, PTL DEF CountdownInv

\* No restart before the time players were told by more than their message was
\* late, for any clock and interval.
THEOREM NoEarlierThanSaidAlways == Spec => NoEarlierThanSaid
<1>1. CountdownInv /\ [Next]_vars =>
        [ShutdownArrives => \A said \in told : now > said.restartAfter - said.late]_vars
  <2> SUFFICES ASSUME CountdownInv, ShutdownArrives, NEW said \in told
               PROVE  now > said.restartAfter - said.late
    BY DEF vars
  <2>1. phase = "ticking" /\ ~BeforeDeadline
    BY DEF ShutdownArrives, SendShutdown
  <2>2. mem = disk /\ disk.needsShutdown /\ tickNow <= now
    BY <2>1 DEF CountdownInv, TickOwnsRecord
  <2>3. disk.deadline \in Nat /\ disk.deadline <= tickNow
    BY <2>1, <2>2, StateFacts DEF BeforeDeadline, CountdownInv, CountdownIsComplete
  <2>4. said.restartAfter - said.late < disk.deadline
    BY <2>3, StateFacts DEF CountdownInv, CountdownIsComplete, KeepsPromises
  <2> QED
    BY <2>2, <2>3, <2>4, StateFacts
<1> QED
  BY <1>1, CountdownInvAlways, PTL DEF Spec, NoEarlierThanSaid

\* Announcements of one countdown keep their distance, however ticks are lost.
THEOREM AnnouncementsArePacedAlways == Spec => AnnouncementsArePaced
<1>1. CountdownInv /\ [Next]_vars =>
        [phase = "ticking" /\ phase' = "saving" /\ mem'.nextAnnounce # mem.nextAnnounce
            => lastSaid = Never \/ tickNow >= lastSaid + AnnounceEvery]_vars
  <2> SUFFICES ASSUME CountdownInv, Next, phase = "ticking", phase' = "saving",
                      mem'.nextAnnounce # mem.nextAnnounce, lastSaid # Never
               PROVE  tickNow >= lastSaid + AnnounceEvery
    BY DEF vars
  <2>1. PICK o \in Outcomes : Announce(o)
    BY DEF Next, Tick, TimePasses, StartCountdown, SaveCountdown, BeginTick, NotReached,
           NothingToSay, SendShutdown, SaveTick, LoseUpdate, CountdownInv, TypeOK, Record
  <2>2. mem = disk /\ disk.nextAnnounce = lastSaid + AnnounceEvery /\ lastSaid \in Nat
    BY DEF CountdownInv, TypeOK, Time, TickOwnsRecord, CountdownIsComplete
  <2> QED
    BY <2>1, <2>2, StateFacts DEF Announce, ShouldAnnounce
<1> QED
  BY <1>1, CountdownInvAlways, PTL DEF Spec, AnnouncementsArePaced

\* A tick before the deadline that says nothing follows a recent announcement.
THEOREM PlayersStayWarnedAlways == Spec => PlayersStayWarned
<1>1. CountdownInv /\ [Next]_vars =>
        [NothingToSay => lastSaid # Never /\ tickNow < lastSaid + AnnounceEvery]_vars
  <2> SUFFICES ASSUME CountdownInv, NothingToSay
               PROVE  lastSaid # Never /\ tickNow < lastSaid + AnnounceEvery
    OBVIOUS
  <2>1. phase = "ticking" /\ mem.nextAnnounce # Never /\ ~(tickNow >= mem.nextAnnounce)
    BY DEF NothingToSay, ShouldAnnounce
  <2>2. mem = disk /\ (lastSaid = Never => disk.nextAnnounce <= tickNow)
    BY <2>1 DEF CountdownInv, TickOwnsRecord
  <2>3. lastSaid # Never
    BY <2>1, <2>2, StateFacts
  <2>4. disk.nextAnnounce = lastSaid + AnnounceEvery /\ lastSaid \in Nat
    BY <2>3 DEF CountdownInv, TypeOK, Time, CountdownIsComplete
  <2> QED
    BY <2>1, <2>2, <2>3, <2>4, StateFacts
<1> QED
  BY <1>1, CountdownInvAlways, PTL DEF Spec, PlayersStayWarned
=============================================================================
