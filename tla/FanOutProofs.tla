---------------------------- MODULE FanOutProofs ----------------------------
(***************************************************************************)
(* For any number of jobs, slots and retries: slots hold, partial answers  *)
(* never pass for whole ones, and connections are closed.                  *)
(***************************************************************************)
EXTENDS FanOut, FiniteSetTheorems, TLAPS

\* What the proof says of one job.
LateOnly(j) == \A n \in Attempts :
                  <<j, n>> \in conns => \/ dials[j][n] # "received"
                                        \/ (at[j] \in {"calling", "hung"} /\ attempt[j] = n)
JobInv(j) == JobInOrder(j) /\ LateOnly(j)
AllInv == TypeOK /\ EndsLeaveATrace /\ \A j \in Jobs : JobInv(j)

\* A step that leaves job j alone.
Untouched(j) == /\ at'[j] = at[j] /\ attempt'[j] = attempt[j] /\ dials'[j] = dials[j]
                /\ \A n \in Attempts : <<j, n>> \in conns' <=> <<j, n>> \in conns
Only(i) == /\ kind' = kind /\ asked' = asked /\ outcome' = outcome
           /\ \A j \in Jobs \ {i} : Untouched(j)

LEMMA AttemptFacts == MaxRetries \in Nat /\ 1 \in Attempts /\ Attempts \subseteq Nat
  BY PositiveNumbers DEF Attempts

LEMMA InitInv == Init => AllInv
<1> SUFFICES ASSUME Init PROVE AllInv
  OBVIOUS
<1>1. TypeOK
  BY AttemptFacts DEF Init, TypeOK
<1>2. EndsLeaveATrace
  BY DEF Init, EndsLeaveATrace
<1>3. ASSUME NEW j \in Jobs PROVE JobInv(j)
  BY DEF Init, JobInv, JobInOrder, LateOnly
<1> QED
  BY <1>1, <1>2, <1>3 DEF AllInv

\* A job is only disturbed by its own steps.
LEMMA OtherJobs ==
    ASSUME AllInv, NEW i \in Jobs, Only(i), JobInv(i)'
    PROVE  \A j \in Jobs : JobInv(j)'
<1> SUFFICES ASSUME NEW j \in Jobs, j # i PROVE JobInv(j)'
  OBVIOUS
<1>1. JobInv(j) /\ Untouched(j) /\ kind' = kind /\ asked' = asked /\ outcome' = outcome
  BY DEF AllInv, Only
<1> QED
  BY <1>1 DEF JobInv, JobInOrder, LateOnly, Untouched, Dials

LEMMA TakeSlotInv ==
    ASSUME AllInv, NEW i \in Jobs, TakeSlot(i)
    PROVE  AllInv'
<1>1. TypeOK'
  BY AttemptFacts DEF AllInv, TypeOK, TakeSlot, BeginAttempt, Working
<1>2. EndsLeaveATrace'
  BY DEF AllInv, TypeOK, EndsLeaveATrace, TakeSlot, BeginAttempt
<1>3. Only(i)
  BY DEF AllInv, TypeOK, Only, Untouched, TakeSlot, BeginAttempt
<1>4. JobInv(i)'
  BY AttemptFacts DEF AllInv, TypeOK, JobInv, JobInOrder, LateOnly, TakeSlot, BeginAttempt, Dials
<1> QED
  BY <1>1, <1>2, <1>3, <1>4, OtherJobs DEF AllInv

LEMMA ReceiveDialInv ==
    ASSUME AllInv, NEW i \in Jobs, ReceiveDial(i)
    PROVE  AllInv'
<1>1. TypeOK'
  BY AttemptFacts DEF AllInv, TypeOK, ReceiveDial, TryAgainOrFail, Fail, Working
<1>2. EndsLeaveATrace'
  BY DEF AllInv, TypeOK, EndsLeaveATrace, ReceiveDial, TryAgainOrFail, Fail
<1>3. Only(i)
  BY DEF AllInv, TypeOK, Only, Untouched, ReceiveDial, TryAgainOrFail, Fail
<1>4. JobInv(i)'
  <2>1. /\ attempt'[i] = attempt[i] /\ attempt[i] \in Attempts /\ attempt[i] \in Nat
        /\ dials'[i] = [dials[i] EXCEPT ![attempt[i]] = "received"]
        /\ dials[i][attempt[i]] = "delivered"
        /\ conns' = conns /\ kind' = kind /\ asked' = asked /\ outcome' = outcome
        /\ at[i] = "dialing"
    BY AttemptFacts DEF AllInv, TypeOK, ReceiveDial, TryAgainOrFail, Fail
  <2>2. \A n \in Attempts : dials'[i][n] = IF n = attempt[i] THEN "received" ELSE dials[i][n]
    BY <2>1 DEF AllInv, TypeOK
  <2>3. \/ at'[i] = "calling" /\ <<i, attempt[i]>> \in conns
        \/ at'[i] = "ended" /\ <<i, attempt[i]>> \notin conns
        \/ at'[i] = "backoff" /\ attempt[i] < MaxRetries /\ <<i, attempt[i]>> \notin conns
    BY DEF AllInv, TypeOK, ReceiveDial, TryAgainOrFail, Fail
  <2>4. JobInOrder(i)'
    BY <2>1, <2>2, <2>3, AttemptFacts DEF AllInv, JobInv, JobInOrder, Dials
  <2>5. LateOnly(i)'
    BY <2>1, <2>2, <2>3 DEF AllInv, JobInv, LateOnly
  <2> QED
    BY <2>4, <2>5 DEF JobInv
<1> QED
  BY <1>1, <1>2, <1>3, <1>4, OtherJobs DEF AllInv

\* Every step of a job that has no business with its dialing goroutine: it may
\* end the job, or its attempt, and hangs up when the attempt had a connection.
QuietStep(i) ==
    \/ LeaveQueue(i) \/ DialTimesOut(i) \/ StopHeard(i) \/ CallSucceeds(i) \/ CallFails(i)
    \/ CallFailsForGood(i) \/ CallHangs(i) \/ KillHung(i)

LEMMA QuietStepInv ==
    ASSUME AllInv, NEW i \in Jobs, QuietStep(i)
    PROVE  AllInv'
<1> USE DEF QuietStep, LeaveQueue, DialTimesOut, StopHeard, CallSucceeds, CallFails,
            CallFailsForGood, CallHangs, KillHung, TryAgainOrFail, Fail, Hangup
<1>1. TypeOK'
  <2>1. /\ UNCHANGED <<kind, asked, attempt, dials, cancelled, outcome>>
        /\ answers' \subseteq answers \cup {i} /\ conns' \subseteq conns
    OBVIOUS
  <2>2. /\ errs' \in {errs, errs + 1, 1}
        /\ \E to \in {"backoff", "hung", "ended"} : at' = [at EXCEPT ![i] = to]
    OBVIOUS
  <2>3. at[i] = "calling" => i \in asked
    BY DEF AllInv, JobInv, JobInOrder
  <2>4. answers' \subseteq asked
    BY <2>3 DEF AllInv, TypeOK
  <2> HIDE DEF QuietStep
  <2>5. /\ errs' \in Nat
        /\ at' \in [Jobs -> Working \cup {"waiting", "ended"}]
    BY <2>2 DEF AllInv, TypeOK, Working
  <2> QED
    BY <2>1, <2>4, <2>5 DEF AllInv, TypeOK
<1>2. EndsLeaveATrace'
  BY DEF AllInv, TypeOK, EndsLeaveATrace
<1>3. Only(i)
  BY DEF AllInv, TypeOK, Only, Untouched
<1>4. JobInv(i)'
  BY AttemptFacts DEF AllInv, TypeOK, JobInv, JobInOrder, LateOnly, Dials
<1> QED
  BY <1>1, <1>2, <1>3, <1>4, OtherJobs DEF AllInv
LEMMA BackoffOverInv ==
    ASSUME AllInv, NEW i \in Jobs, BackoffOver(i)
    PROVE  AllInv'
<1>1. attempt[i] + 1 \in Attempts
  BY AttemptFacts DEF AllInv, TypeOK, JobInv, JobInOrder, BackoffOver, Attempts
<1>2. TypeOK'
  BY <1>1 DEF AllInv, TypeOK, BackoffOver, BeginAttempt, Working
<1>3. EndsLeaveATrace'
  BY DEF AllInv, TypeOK, EndsLeaveATrace, BackoffOver, BeginAttempt
<1>4. Only(i)
  BY DEF AllInv, TypeOK, Only, Untouched, BackoffOver, BeginAttempt
<1>5. JobInv(i)'
  <2>1. /\ attempt'[i] = attempt[i] + 1 /\ attempt[i] \in Nat /\ at[i] = "backoff"
        /\ at'[i] = IF Dials THEN "dialing" ELSE "calling"
        /\ conns' = conns /\ kind' = kind /\ asked' = asked /\ outcome' = outcome
    BY AttemptFacts DEF AllInv, TypeOK, BackoffOver, BeginAttempt
  <2>2. \A n \in Attempts : dials'[i][n] = IF Dials /\ n = attempt[i] + 1 THEN "running" ELSE dials[i][n]
    BY <1>1 DEF AllInv, TypeOK, BackoffOver, BeginAttempt
  <2>3. JobInv(i) /\ dials[i][attempt[i] + 1] = "none"
    <3>1. JobInv(i) /\ attempt[i] + 1 > attempt[i]
      BY <2>1 DEF AllInv
    <3> QED
      BY <1>1, <3>1 DEF JobInv, JobInOrder
  <2>4. JobInOrder(i)'
    BY <1>1, <2>1, <2>2, <2>3, AttemptFacts DEF JobInv, JobInOrder, Dials
  <2>5. LateOnly(i)'
    BY <2>1, <2>2, <2>3 DEF JobInv, JobInOrder, LateOnly
  <2> QED
    BY <2>4, <2>5 DEF JobInv
<1> QED
  BY <1>2, <1>3, <1>4, <1>5, OtherJobs DEF AllInv

\* The goroutine that dials: its job may be elsewhere by now.
LEMMA DialStepInv ==
    ASSUME AllInv, NEW i \in Jobs, NEW n \in Attempts,
           (\E ok \in BOOLEAN : DialReturns(i, n, ok)) \/ DeliverDial(i, n)
    PROVE  AllInv'
<1>1. TypeOK'
  <2>1. PICK how \in {"returned", "delivered"} : dials' = [dials EXCEPT ![i][n] = how]
    BY DEF DialReturns, DeliverDial
  <2>2. dials'
          \in [Jobs -> [Attempts -> {"none", "running", "returned", "delivered", "received"}]]
    BY <2>1 DEF AllInv, TypeOK
  <2>3. /\ UNCHANGED <<kind, asked, at, attempt, errs, answers, cancelled, outcome>>
        /\ conns' \subseteq conns \cup {<<i, n>>}
    BY DEF DialReturns, DeliverDial
  <2> QED
    BY <2>2, <2>3 DEF AllInv, TypeOK
<1>2. EndsLeaveATrace'
  BY DEF AllInv, TypeOK, EndsLeaveATrace, DialReturns, DeliverDial
<1>3. Only(i)
  BY DEF AllInv, TypeOK, Only, Untouched, DialReturns, DeliverDial
<1>4. JobInv(i)'
  <2>1. /\ at'[i] = at[i] /\ attempt'[i] = attempt[i] /\ kind' = kind /\ asked' = asked /\ outcome' = outcome
    BY DEF AllInv, TypeOK, DialReturns, DeliverDial
  <2>2. /\ dials[i][n] \in {"running", "returned"}
        /\ dials'[i][n] \in {"returned", "delivered"}
    BY DEF AllInv, TypeOK, DialReturns, DeliverDial
  <2>3. JobInOrder(i) /\ LateOnly(i) /\ attempt[i] \in Attempts
    BY DEF AllInv, TypeOK, JobInv
  <2>4. ASSUME NEW m \in Attempts
        PROVE  /\ dials[i][m] = "none" => dials'[i][m] = "none"
               /\ dials'[i][m] = "received" => dials[i][m] = "received"
               /\ <<i, m>> \in conns' => dials'[i][m] \in {"returned", "delivered", "received"}
               /\ <<i, m>> \in conns' /\ dials'[i][m] = "received" => <<i, m>> \in conns
    <3>1. CASE m = n
      BY <2>2, <3>1
    <3>2. CASE m # n
      <4>1. dials'[i][m] = dials[i][m] /\ (<<i, m>> \in conns' <=> <<i, m>> \in conns)
        BY <3>2 DEF AllInv, TypeOK, DialReturns, DeliverDial
      <4>2. <<i, m>> \in conns => dials[i][m] \in {"returned", "delivered", "received"}
        BY <2>3 DEF JobInOrder
      <4> QED
        BY <4>1, <4>2
    <3> QED
      BY <3>1, <3>2
  <2>5. JobInOrder(i)'
    BY <2>1, <2>3, <2>4 DEF JobInOrder, Dials
  <2>6. LateOnly(i)'
    BY <2>1, <2>3, <2>4 DEF LateOnly
  <2> QED
    BY <2>5, <2>6 DEF JobInv
<1> QED
  BY <1>1, <1>2, <1>3, <1>4, OtherJobs DEF AllInv

LEMMA RoundInv ==
    ASSUME AllInv, Join \/ Cancel \/ UNCHANGED vars
    PROVE  AllInv'
<1>1. TypeOK'
  BY DEF AllInv, TypeOK, Join, Cancel, vars
<1>2. EndsLeaveATrace'
  BY DEF AllInv, TypeOK, EndsLeaveATrace, Join, Cancel, vars
<1>3. ASSUME NEW j \in Jobs PROVE JobInv(j)'
  BY DEF AllInv, JobInv, JobInOrder, LateOnly, Join, Cancel, vars, Dials
<1> QED
  BY <1>1, <1>2, <1>3 DEF AllInv

LEMMA NextInv == AllInv /\ [Next]_vars => AllInv'
<1> SUFFICES ASSUME AllInv, [Next]_vars PROVE AllInv'
  OBVIOUS
<1>1. CASE Join \/ Cancel \/ UNCHANGED vars
  BY <1>1, RoundInv
<1>2. CASE DialSteps
  BY <1>2, DialStepInv DEF DialSteps
<1>3. ASSUME NEW j \in Jobs, Step(j) PROVE AllInv'
  BY <1>3, TakeSlotInv, ReceiveDialInv, QuietStepInv, BackoffOverInv DEF Step, QuietStep
<1> QED
  BY <1>1, <1>2, <1>3 DEF Next

LEMMA AllInvAlways == Spec => []AllInv
  BY InitInv, NextInv, PTL DEF Spec

\* Jobs work in order, and one that ended left an answer or an error unless it
\* heard of a stop.
THEOREM FanOutInvAlways == Spec => []FanOutInv
<1>1. AllInv => FanOutInv
  BY DEF AllInv, JobInv, FanOutInv, AttemptsInOrder
<1> QED
  BY <1>1, AllInvAlways, PTL

\* Connections are closed but for dials that came too late.
THEOREM OnlyLateDialsStayOpenAlways == Spec => []OnlyLateDialsStayOpen
<1>1. AllInv => OnlyLateDialsStayOpen
  BY DEF AllInv, JobInv, LateOnly, OnlyLateDialsStayOpen
<1> QED
  BY <1>1, AllInvAlways, PTL

\* Any number of batches: an answer that is not whole is an error.
THEOREM AnswerIsWholeAlways == Spec => []AnswerIsWhole
<1>1. Init => AnswerIsWhole
  BY DEF Init, AnswerIsWhole
<1>2. ASSUME AllInv, AnswerIsWhole, [Next]_vars PROVE AnswerIsWhole'
  <2>1. CASE UNCHANGED vars \/ Cancel \/ DialSteps
    BY <1>2, <2>1 DEF AnswerIsWhole, vars, Cancel, DialSteps, DialReturns, DeliverDial
  <2>2. CASE Join
    BY <1>2, <2>2 DEF AllInv, TypeOK, EndsLeaveATrace, AnswerIsWhole, Join
  <2>3. ASSUME NEW j \in Jobs, Step(j) PROVE AnswerIsWhole'
    <3>1. at[j] # "ended"
      BY <2>3 DEF Step, TakeSlot, LeaveQueue, ReceiveDial, DialTimesOut, StopHeard, CallSucceeds,
         CallFails, CallFailsForGood, CallHangs, KillHung, BackoffOver
    <3>2. outcome' = outcome /\ outcome = "none"
      BY <1>2, <2>3, <3>1 DEF AllInv, JobInv, JobInOrder, Step, TakeSlot, LeaveQueue, ReceiveDial,
         DialTimesOut, StopHeard, CallSucceeds, CallFails, CallFailsForGood, CallHangs, KillHung,
         BackoffOver
    <3> QED
      BY <3>2 DEF AnswerIsWhole
  <2> QED
    BY <1>2, <2>1, <2>2, <2>3 DEF Next
<1> QED
  BY <1>1, <1>2, AllInvAlways, PTL DEF Spec

\* The semaphore holds for any number of jobs.
THEOREM SlotsHoldAlways == Spec => []SlotsHold
<1>1. Init => SlotsHold
  <2>1. Init => Busy = {}
    BY DEF Init, Busy, Working
  <2> QED
    BY <2>1, FS_EmptySet, PositiveNumbers DEF SlotsHold
<1>2. ASSUME AllInv, SlotsHold, [Next]_vars PROVE SlotsHold'
  <2>1. IsFiniteSet(Busy) /\ Cardinality(Busy) \in Nat
    BY JobsFinite, FS_Subset, FS_CardinalityType DEF Busy
  <2>2. Slots \in Nat
    BY PositiveNumbers
  <2>3. CASE \E j \in Jobs : TakeSlot(j)
    <3>1. PICK j \in Jobs : TakeSlot(j)
      BY <2>3
    <3>2. Busy' = Busy \cup {j}
      BY <1>2, <3>1 DEF AllInv, TypeOK, Busy, TakeSlot, BeginAttempt, Working
    <3>3. Cardinality(Busy) < Slots
      BY <3>1 DEF TakeSlot
    <3>4. Cardinality(Busy') = Cardinality(Busy) \/ Cardinality(Busy') = Cardinality(Busy) + 1
      BY <2>1, <3>2, FS_AddElement
    <3> QED
      BY <2>1, <2>2, <3>3, <3>4 DEF SlotsHold
  <2>4. CASE ~\E j \in Jobs : TakeSlot(j)
    <3>1. Busy' \subseteq Busy
      <4>1. ASSUME NEW i \in Jobs, Step(i) PROVE Busy' \subseteq Busy
        <5>1. \E to \in Working \cup {"ended"} : at' = [at EXCEPT ![i] = to]
          BY <2>4, <4>1 DEF Step, Working, LeaveQueue, ReceiveDial, DialTimesOut, StopHeard,
             CallSucceeds, CallFails, CallFailsForGood, CallHangs, KillHung, BackoffOver,
             BeginAttempt, TryAgainOrFail, Fail
        <5>2. at[i] \in Working \/ at'[i] = "ended"
          BY <1>2, <2>4, <4>1 DEF AllInv, TypeOK, Step, Working, LeaveQueue, ReceiveDial,
             DialTimesOut, StopHeard, CallSucceeds, CallFails, CallFailsForGood, CallHangs,
             KillHung, BackoffOver
        <5> QED
          BY <1>2, <5>1, <5>2 DEF AllInv, TypeOK, Busy, Working
      <4>2. CASE DialSteps \/ Join \/ Cancel \/ UNCHANGED vars
        BY <4>2 DEF DialSteps, DialReturns, DeliverDial, Join, Cancel, vars, Busy
      <4> QED
        BY <1>2, <4>1, <4>2 DEF Next
    <3>2. Cardinality(Busy') <= Cardinality(Busy) /\ Cardinality(Busy') \in Nat
      BY <2>1, <3>1, FS_Subset, FS_CardinalityType
    <3> QED
      BY <1>2, <2>1, <2>2, <3>2 DEF SlotsHold
  <2> QED
    BY <2>3, <2>4
<1> QED
  BY <1>1, <1>2, AllInvAlways, PTL DEF Spec
=============================================================================
