-------------------------- MODULE GgrsClock_proofs --------------------------
(***************************************************************************)
(* The timestep and Time<GgrsTime> are right for every frame rate, every   *)
(* sequence of deltas and every prediction window, and however long the    *)
(* App runs.                                                               *)
(***************************************************************************)
EXTENDS GgrsClock, GgrsSnapshots_proofs

----------------------------------------------------------------------------
(* Integer division *)

(***************************************************************************)
(* What the quotient is, for the naturals the code divides.                *)
(***************************************************************************)
LEMMA Quotient ==
    ASSUME NEW a \in Nat, NEW n \in Nat \ {0}
    PROVE  /\ a \div n \in Nat
           /\ n * (a \div n) <= a
           /\ a < n * (a \div n) + n
  OBVIOUS

(***************************************************************************)
(* Of two numbers divided by the same one, the larger has the larger       *)
(* quotient.                                                               *)
(***************************************************************************)
LEMMA QuotientMonotone ==
    ASSUME NEW a \in Nat, NEW b \in Nat, NEW n \in Nat \ {0}, a <= b
    PROVE  a \div n <= b \div n
<1> DEFINE p == a \div n
           q == b \div n
<1>1. p \in Nat /\ q \in Nat /\ n * p <= a /\ b < n * q + n
  BY Quotient
<1> HIDE DEF p, q
<1>2. n * p < n * (q + 1)
  BY <1>1
<1>3. p < q + 1
  BY <1>1, <1>2
<1> QED BY <1>1, <1>3 DEF p, q

(***************************************************************************)
(* run_slow makes the frame longer, and no frame takes no time at all.     *)
(***************************************************************************)
LEMMA Periods ==
    /\ NormalPeriod \in Nat \ {0}
    /\ SlowPeriod \in Nat \ {0}
    /\ NormalPeriod <= SlowPeriod
<1> DEFINE p == Second \div Rate
           q == (Second * 11) \div (Rate * 10)
<1>1. Second \in Nat /\ Rate \in Nat \ {0} /\ Rate <= Second
  BY GgrsClockAssumption
<1>2. p \in Nat /\ Rate * p <= Second /\ Second < Rate * p + Rate
  BY <1>1, Quotient
<1>3. q \in Nat /\ Second * 11 < (Rate * 10) * q + Rate * 10
  <2>1. Second * 11 \in Nat /\ Rate * 10 \in Nat \ {0}
    BY <1>1
  <2> QED BY <2>1, Quotient
<1> HIDE DEF p, q
<1>4. p # 0
  BY <1>1, <1>2
<1>5. p <= q
  <2>1. 10 * (Rate * p) < 10 * (Rate * (q + 1))
    BY <1>1, <1>2, <1>3
  <2>2. Rate * p < Rate * (q + 1)
    BY <1>1, <1>2, <1>3, <2>1
  <2>3. p < q + 1
    BY <1>1, <1>2, <1>3, <2>2
  <2> QED BY <1>2, <1>3, <2>3
<1> QED BY <1>2, <1>3, <1>4, <1>5 DEF p, q, NormalPeriod, SlowPeriod

(***************************************************************************)
(* Game time does not go back from one frame to the next.                  *)
(***************************************************************************)
LEMMA RuntimeGrows ==
    ASSUME NEW f \in Nat
    PROVE  /\ Runtime(f) \in Nat
           /\ Runtime(f + 1) \in Nat
           /\ Runtime(f) <= Runtime(f + 1)
<1>1. Second \in Nat /\ Rate \in Nat \ {0}
  BY GgrsClockAssumption
<1>2. f * Second \in Nat /\ (f + 1) * Second \in Nat /\ f * Second <= (f + 1) * Second
  BY <1>1
<1> QED BY <1>1, <1>2, Quotient, QuotientMonotone DEF Runtime

----------------------------------------------------------------------------
(* The timestep *)

(***************************************************************************)
(* What RealTimeKept rests on: the time that is not in the accumulator was *)
(* spent on steps, each of them a normal or a slow period, and less than a *)
(* slow period is left when an update has ended.                           *)
(***************************************************************************)
TimestepInv ==
    /\ accumulator \in Nat /\ real \in Nat /\ steps \in Nat
    /\ fpsDelta \in {NormalPeriod, SlowPeriod}
    /\ steps * NormalPeriod + accumulator <= real
    /\ real <= steps * SlowPeriod + accumulator
    /\ ~ looping => accumulator < SlowPeriod

(***************************************************************************)
(* A step of the loop moves one period from the accumulator to the steps.  *)
(***************************************************************************)
LEMMA SpendKeeps ==
    ASSUME TimestepInv, Spend
    PROVE  TimestepInv'
<1>1. /\ accumulator >= fpsDelta
      /\ accumulator' = accumulator - fpsDelta
      /\ steps' = steps + 1
      /\ fpsDelta' = fpsDelta /\ looping' = looping /\ real' = real
      /\ looping
  BY DEF Spend, Ready
<1>2. /\ NormalPeriod \in Nat /\ SlowPeriod \in Nat
      /\ NormalPeriod <= fpsDelta /\ fpsDelta <= SlowPeriod /\ fpsDelta \in Nat
  BY Periods DEF TimestepInv
<1>3. accumulator' \in Nat /\ steps' \in Nat /\ real' \in Nat
  BY <1>1, <1>2 DEF TimestepInv
<1>4. steps' * NormalPeriod + accumulator' <= real'
  <2>1. (steps + 1) * NormalPeriod = steps * NormalPeriod + NormalPeriod
    BY <1>2 DEF TimestepInv
  <2> QED BY <1>1, <1>2, <2>1 DEF TimestepInv
<1>5. real' <= steps' * SlowPeriod + accumulator'
  <2>1. (steps + 1) * SlowPeriod = steps * SlowPeriod + SlowPeriod
    BY <1>2 DEF TimestepInv
  <2> QED BY <1>1, <1>2, <2>1 DEF TimestepInv
<1>6. ~ looping' => accumulator' < SlowPeriod
  BY <1>1
<1>7. fpsDelta' \in {NormalPeriod, SlowPeriod}
  BY <1>1 DEF TimestepInv
<1> QED BY <1>3, <1>4, <1>5, <1>6, <1>7 DEF TimestepInv

(***************************************************************************)
(* Every action keeps TimestepInv.                                         *)
(***************************************************************************)
LEMMA TimestepInvKept ==
    ASSUME TimestepInv, [Next]_vars
    PROVE  TimestepInv'
<1>1. CASE UNCHANGED timestepVars
  BY <1>1 DEF TimestepInv, timestepVars
<1>2. ASSUME NEW k \in Kinds, InsertSession(k) PROVE TimestepInv'
  BY <1>1, <1>2 DEF InsertSession
<1>3. CASE RemoveSession
  BY <1>1, <1>3 DEF RemoveSession
<1>4. ASSUME NEW delta \in Deltas, BeginUpdate(delta) PROVE TimestepInv'
  <2>1. delta \in Nat
    BY GgrsClockAssumption
  <2>2. /\ fpsDelta' \in {NormalPeriod, SlowPeriod}
        /\ accumulator' = accumulator + delta
        /\ looping'
        /\ real' = real + delta
        /\ steps' = steps
    BY <1>4 DEF BeginUpdate
  <2>3. steps * NormalPeriod \in Nat /\ steps * SlowPeriod \in Nat
    BY Periods DEF TimestepInv
  <2> QED BY <2>1, <2>2, <2>3 DEF TimestepInv
<1>5. CASE Step
  <2>1. CASE \E ahead, advance \in BOOLEAN, k \in -1 .. MaxFrame, load \in -1 .. MaxFrame :
                StepP2P(ahead, k, load, advance)
    BY <2>1, SpendKeeps DEF StepP2P
  <2>2. CASE \E ahead \in BOOLEAN : StepInVain(ahead)
    BY <2>2, SpendKeeps DEF StepInVain
  <2>3. CASE StepSyncTest
    BY <2>3, SpendKeeps DEF StepSyncTest
  <2>4. CASE \E count \in 1 .. CatchUp : StepSpectator(count)
    BY <2>4, SpendKeeps DEF StepSpectator
  <2>5. CASE StepWithoutSession
    <3>1. /\ accumulator' = 0 /\ real' = 0 /\ steps' = 0
          /\ fpsDelta' = fpsDelta /\ looping'
      BY <2>5 DEF StepWithoutSession, Ready
    <3>2. 0 * NormalPeriod = 0 /\ 0 * SlowPeriod = 0
      BY Periods
    <3> QED BY <3>1, <3>2 DEF TimestepInv
  <2> QED BY <1>5, <2>1, <2>2, <2>3, <2>4, <2>5 DEF Step
<1>6. CASE HandleRequest
  BY <1>1, <1>6 DEF HandleRequest, HandleSave, HandleLoad, HandleAdvance, NextRequest
<1>7. CASE EndUpdate
  <2>1. /\ accumulator < fpsDelta
        /\ UNCHANGED <<accumulator, fpsDelta, real, steps>>
    BY <1>7 DEF EndUpdate
  <2>2. accumulator < SlowPeriod
    BY <2>1, Periods DEF TimestepInv
  <2> QED BY <2>1, <2>2 DEF TimestepInv
<1>8. CASE UNCHANGED vars
  BY <1>1, <1>8 DEF vars
<1> QED BY <1>2, <1>3, <1>4, <1>5, <1>6, <1>7, <1>8 DEF Next, Update

(***************************************************************************)
(* The timestep keeps TimestepInv from the start.                          *)
(***************************************************************************)
LEMMA TimestepInvAlways == Spec => []TimestepInv
<1>1. Init => TimestepInv
  <2> SUFFICES ASSUME Init PROVE TimestepInv
    OBVIOUS
  <2>1. 0 * NormalPeriod = 0 /\ 0 * SlowPeriod = 0
    BY Periods
  <2> QED BY <2>1, Periods DEF Init, TimestepInv
<1>2. TimestepInv /\ [Next]_vars => TimestepInv'
  BY TimestepInvKept
<1> QED BY <1>1, <1>2, PTL DEF Spec

(***************************************************************************)
(* The timestep of run_ggrs_schedules neither loses nor gains real time,   *)
(* for every frame rate and every sequence of deltas, although run_slow    *)
(* may change in every round of its loop.                                  *)
(***************************************************************************)
THEOREM RealTimeKeptAlways == Spec => []RealTimeKept
<1>1. TimestepInv => RealTimeKept
  <2> SUFFICES ASSUME TimestepInv PROVE RealTimeKept
    OBVIOUS
  <2>1. NormalPeriod \in Nat /\ SlowPeriod \in Nat
    BY Periods
  <2>2. steps * NormalPeriod \in Nat /\ steps * SlowPeriod \in Nat
        /\ (steps + 1) * SlowPeriod = steps * SlowPeriod + SlowPeriod
    BY <2>1 DEF TimestepInv
  <2> QED BY <2>1, <2>2 DEF TimestepInv, RealTimeKept
<1> QED BY <1>1, TimestepInvAlways, PTL

----------------------------------------------------------------------------
(* The snapshots of the time *)

(***************************************************************************)
(* A rollback to a stored frame leaves an entry of that frame at the front.*)
(***************************************************************************)
LEMMA RollbackEntries ==
    ASSUME NEW S, NEW s \in Queues(S), NEW f, CanRollback(s, f)
    PROVE  /\ Rollback(s, f) \in Queues(S)
           /\ Front(Rollback(s, f)) \in S
           /\ Front(Rollback(s, f)).frame = f
<1> DEFINE t == Rollback(s, f).entries
<1>1. Rollback(s, f) \in Queues(S)
  BY RollbackShape
<1>2. PICK a \in 1 .. Len(s.entries) : s.entries[a].frame = f /\ FrontPopped(t, s.entries, a)
  BY RollbackShape
<1>3. s.entries \in Seq(S) /\ Len(s.entries) \in Nat
  BY LenProperties DEF Queues
<1> HIDE DEF t
<1>4. 1 \in 1 .. Len(t) /\ a + 1 - 1 = a
  BY <1>2, <1>3 DEF FrontPopped
<1>5. t[1] = s.entries[a]
  BY <1>2, <1>4 DEF FrontPopped
<1>6. s.entries[a] \in S
  BY <1>3, ElementOfSeq
<1> QED BY <1>1, <1>2, <1>5, <1>6 DEF Front, t

----------------------------------------------------------------------------
(* Time<GgrsTime> *)

\* The entries that may be stored: the time of the frame they are stored under.
TimedEntries == {Entry(f, TimeAt(f)) : f \in Nat}

\* Before and in the first session the time and its snapshots follow the frame count.
FirstSessionInv ==
    /\ ~ panicked
    /\ frame \in Nat
    /\ store \in Queues(TimedEntries)
    /\ \A s \in seen : s.time = TimeAt(s.frame)
    /\ (kind # "None" \/ sessions = 0) => time = TimeAt(frame)

(***************************************************************************)
(* What ClockFollowsFrames rests on: requests are pending only while the   *)
(* loop of an update handles a session, the first session finds frame 0    *)
(* and a fresh Time<GgrsTime>, and every snapshot is the time of its frame.*)
(***************************************************************************)
ClockInv ==
    /\ sessions \in Nat
    /\ requests # <<>> => looping /\ kind # "None"
    /\ sessions = 0 => kind = "None" /\ frame = 0
    /\ sessions <= 1 => FirstSessionInv

(***************************************************************************)
(* In a fresh App the time is that of frame 0.                             *)
(***************************************************************************)
LEMMA NoTimeIsFirst == NoTime = TimeAt(0)
<1>1. Second \in Nat /\ Rate \in Nat \ {0}
  BY GgrsClockAssumption
<1>2. 0 * Second = 0 /\ 0 \div Rate = 0
  BY <1>1
<1> QED BY <1>2 DEF NoTime, TimeAt, Runtime

(***************************************************************************)
(* advance_to, from the time of a frame to the run time of the next.       *)
(***************************************************************************)
LEMMA AdvanceOneFrame ==
    ASSUME NEW f \in Nat
    PROVE  /\ CanAdvanceTo(TimeAt(f), Runtime(f + 1))
           /\ AdvanceTo(TimeAt(f), Runtime(f + 1)) = TimeAt(f + 1)
<1>1. TimeAt(f).elapsed = Runtime(f)
  BY DEF TimeAt
<1>2. f + 1 # 0 /\ f + 1 - 1 = f
  OBVIOUS
<1>3. CanAdvanceTo(TimeAt(f), Runtime(f + 1))
  BY <1>1, RuntimeGrows DEF CanAdvanceTo
<1> QED BY <1>1, <1>2, <1>3 DEF AdvanceTo, TimeAt

(***************************************************************************)
(* The step of a session starts a list of requests and touches no clock.   *)
(***************************************************************************)
LEMMA StepOfSessionKeeps ==
    ASSUME ClockInv, kind # "None", looping,
           UNCHANGED <<looping, kind, sessions, clockVars>>
    PROVE  ClockInv'
  BY DEF ClockInv, FirstSessionInv, clockVars

(***************************************************************************)
(* HandleSave stores the time under its own frame.                         *)
(***************************************************************************)
LEMMA HandleSaveKeeps ==
    ASSUME ClockInv, HandleSave
    PROVE  ClockInv'
<1>1. /\ requests # <<>>
      /\ UNCHANGED <<looping, kind, sessions, frame, time, panicked, seen>>
      /\ store' = SaveChain(store, MaxPrediction, confirmed', frame, time)
  BY DEF HandleSave, NextRequest, timestepVars, sessionVars
<1>2. looping /\ kind # "None"
  BY <1>1 DEF ClockInv
<1>3. sessions <= 1 => store' \in Queues(TimedEntries)
  <2> SUFFICES ASSUME sessions <= 1 PROVE store' \in Queues(TimedEntries)
    OBVIOUS
  <2>1. store \in Queues(TimedEntries) /\ time = TimeAt(frame) /\ frame \in Nat
    BY <1>2 DEF ClockInv, FirstSessionInv
  <2>2. Entry(frame, time) \in TimedEntries
    BY <1>2, <2>1 DEF TimedEntries
  <2>3. MaxPrediction \in Nat
    BY GgrsClockAssumption
  <2> QED BY <1>1, <2>1, <2>2, <2>3, SaveChainShape
<1> QED BY <1>1, <1>2, <1>3 DEF ClockInv, FirstSessionInv

(***************************************************************************)
(* HandleLoad brings back the time of the frame it sets the count to.      *)
(***************************************************************************)
LEMMA HandleLoadKeeps ==
    ASSUME ClockInv, HandleLoad
    PROVE  ClockInv'
<1>1. /\ requests # <<>>
      /\ UNCHANGED <<looping, kind, sessions, panicked, seen>>
      /\ CanRollback(store, frame')
      /\ store' = Rollback(store, frame')
      /\ time' = Get(store')
  BY DEF HandleLoad, NextRequest, timestepVars, sessionVars
<1>2. looping /\ kind # "None" /\ sessions # 0
  BY <1>1 DEF ClockInv
<1>3. sessions <= 1 => FirstSessionInv'
  <2> SUFFICES ASSUME sessions <= 1 PROVE FirstSessionInv'
    OBVIOUS
  <2>1. FirstSessionInv
    BY DEF ClockInv
  <2>2. /\ store' \in Queues(TimedEntries)
        /\ Front(store') \in TimedEntries
        /\ Front(store').frame = frame'
    BY <1>1, <2>1, RollbackEntries DEF FirstSessionInv
  <2>3. PICK f \in Nat : Front(store') = Entry(f, TimeAt(f))
    BY <2>2 DEF TimedEntries
  <2>4. frame' = f /\ time' = TimeAt(f)
    BY <1>1, <2>2, <2>3 DEF Entry, Get
  <2>5. time' = TimeAt(frame') /\ frame' \in Nat
    BY <2>4
  <2> QED BY <1>1, <2>1, <2>2, <2>5 DEF FirstSessionInv
<1> QED BY <1>1, <1>2, <1>3 DEF ClockInv

(***************************************************************************)
(* HandleAdvance does not panic in the first session, and shows the game   *)
(* the time of the new frame.                                              *)
(***************************************************************************)
LEMMA HandleAdvanceKeeps ==
    ASSUME ClockInv, HandleAdvance
    PROVE  ClockInv'
<1>1. /\ requests # <<>>
      /\ UNCHANGED <<looping, kind, sessions, store>>
      /\ frame' = frame + 1
  BY DEF HandleAdvance, NextRequest, timestepVars, sessionVars
<1>2. looping /\ kind # "None" /\ sessions # 0
  BY <1>1 DEF ClockInv
<1>3. sessions <= 1 => FirstSessionInv'
  <2> SUFFICES ASSUME sessions <= 1 PROVE FirstSessionInv'
    OBVIOUS
  <2>1. FirstSessionInv /\ time = TimeAt(frame)
    BY <1>2 DEF ClockInv, FirstSessionInv
  <2>2. /\ frame \in Nat /\ frame' \in Nat
        /\ CanAdvanceTo(time, Runtime(frame'))
        /\ AdvanceTo(time, Runtime(frame')) = TimeAt(frame')
    BY <1>1, <2>1, AdvanceOneFrame DEF FirstSessionInv
  <2>3. /\ time' = TimeAt(frame')
        /\ seen' = {[frame |-> frame', time |-> time']}
        /\ panicked' = panicked
    BY <2>2 DEF HandleAdvance
  <2>4. \A s \in seen' : s.time = TimeAt(s.frame)
    BY <2>3
  <2> QED BY <1>1, <2>1, <2>2, <2>3, <2>4 DEF FirstSessionInv
<1> QED BY <1>1, <1>2, <1>3 DEF ClockInv

(***************************************************************************)
(* Every action keeps ClockInv.                                            *)
(***************************************************************************)
LEMMA ClockInvKept ==
    ASSUME ClockInv, [Next]_vars
    PROVE  ClockInv'
<1>1. ASSUME NEW k \in Kinds, InsertSession(k) PROVE ClockInv'
  <2>1. /\ ~ looping /\ kind = "None" /\ frame = 0
        /\ kind' = k /\ sessions' = sessions + 1
        /\ UNCHANGED <<looping, requests, frame, time, store, panicked, seen>>
    BY <1>1 DEF InsertSession, timestepVars, clockVars
  <2>2. requests = <<>>
    BY <2>1 DEF ClockInv
  <2>3. sessions \in Nat /\ sessions' \in Nat /\ sessions' # 0
    BY <2>1 DEF ClockInv
  <2>4. sessions' <= 1 => sessions = 0
    BY <2>1, <2>3
  <2>5. sessions = 0 => FirstSessionInv'
    BY <2>1 DEF ClockInv, FirstSessionInv
  <2> QED BY <2>1, <2>2, <2>3, <2>4, <2>5 DEF ClockInv
<1>2. CASE RemoveSession
  <2>1. /\ ~ looping /\ kind # "None" /\ kind' = "None"
        /\ UNCHANGED <<looping, sessions, requests, frame, time, store, panicked, seen>>
    BY <1>2 DEF RemoveSession, timestepVars, clockVars
  <2>2. requests = <<>> /\ sessions # 0
    BY <2>1 DEF ClockInv
  <2> QED BY <2>1, <2>2 DEF ClockInv, FirstSessionInv
<1>3. ASSUME NEW delta \in Deltas, BeginUpdate(delta) PROVE ClockInv'
  <2>1. /\ looping'
        /\ UNCHANGED <<kind, sessions, requests, frame, time, store, panicked, seen>>
    BY <1>3 DEF BeginUpdate, sessionVars, clockVars
  <2> QED BY <2>1 DEF ClockInv, FirstSessionInv
<1>4. CASE Step
  <2>1. CASE \E ahead, advance \in BOOLEAN, k \in -1 .. MaxFrame, load \in -1 .. MaxFrame :
                StepP2P(ahead, k, load, advance)
    BY <2>1, StepOfSessionKeeps DEF StepP2P, Spend, Ready
  <2>2. CASE \E ahead \in BOOLEAN : StepInVain(ahead)
    BY <2>2, StepOfSessionKeeps DEF StepInVain, Spend, Ready, sessionVars
  <2>3. CASE StepSyncTest
    BY <2>3, StepOfSessionKeeps DEF StepSyncTest, Spend, Ready
  <2>4. CASE \E count \in 1 .. CatchUp : StepSpectator(count)
    BY <2>4, StepOfSessionKeeps DEF StepSpectator, Spend, Ready
  <2>5. CASE StepWithoutSession
    <3>1. /\ kind = "None" /\ frame' = 0
          /\ UNCHANGED <<looping, kind, sessions, requests, time, store, panicked, seen>>
      BY <2>5 DEF StepWithoutSession, sessionVars
    <3>2. sessions = 0 => frame' = frame
      BY <3>1 DEF ClockInv
    <3> QED BY <3>1, <3>2 DEF ClockInv, FirstSessionInv
  <2> QED BY <1>4, <2>1, <2>2, <2>3, <2>4, <2>5 DEF Step
<1>5. CASE HandleRequest
  BY <1>5, HandleSaveKeeps, HandleLoadKeeps, HandleAdvanceKeeps DEF HandleRequest
<1>6. CASE EndUpdate
  <2>1. /\ requests = <<>>
        /\ UNCHANGED <<kind, sessions, requests, frame, time, store, panicked, seen>>
    BY <1>6 DEF EndUpdate, Ready, sessionVars, clockVars
  <2> QED BY <2>1 DEF ClockInv, FirstSessionInv
<1>7. CASE UNCHANGED vars
  BY <1>7 DEF vars, timestepVars, sessionVars, clockVars, ClockInv, FirstSessionInv
<1> QED BY <1>1, <1>2, <1>3, <1>4, <1>5, <1>6, <1>7 DEF Next, Update

(***************************************************************************)
(* The clock keeps ClockInv from the start.                                *)
(***************************************************************************)
LEMMA ClockInvAlways == Spec => []ClockInv
<1>1. Init => ClockInv
  <2> SUFFICES ASSUME Init PROVE ClockInv
    OBVIOUS
  <2>1. EmptySnapshots \in Queues(TimedEntries)
    <3>1. <<>> \in Seq(TimedEntries)
      BY EmptySeq
    <3> QED BY <3>1 DEF EmptySnapshots, DefaultFps, Queues
  <2> QED BY <2>1, NoTimeIsFirst DEF Init, ClockInv, FirstSessionInv
<1>2. ClockInv /\ [Next]_vars => ClockInv'
  BY ClockInvKept
<1> QED BY <1>1, <1>2, PTL DEF Spec

(***************************************************************************)
(* In the first session of an App, Time<GgrsTime> is a function of the     *)
(* frame count for every frame rate, whatever is rolled back, resimulated  *)
(* or skipped, and advance_to never panics.                                *)
(***************************************************************************)
THEOREM ClockFollowsFramesAlways == Spec => []ClockFollowsFrames
<1>1. ClockInv => ClockFollowsFrames
  BY DEF ClockInv, FirstSessionInv, ClockFollowsFrames, ReflectsFrameCount
<1> QED BY <1>1, ClockInvAlways, PTL

----------------------------------------------------------------------------
(* The requests of a step *)

\* A request, and the frame the world is at when it is done.
Request == [type : {"Save", "Load"}, frame : Nat]
             \union [type : {"Advance"}, frame : Nat, input : {"input"}]

FrameAfter(r) == IF r.type = "Advance" THEN r.frame + 1 ELSE r.frame

\* Executed in frame a, the requests s end in frame b; only a load changes the
\* frame by more than the advance before it.
Leads(s, a, b) ==
    /\ s \in Seq(Request)
    /\ s = <<>> => a = b
    /\ s # <<>> => /\ s[1].type = "Load" \/ s[1].frame = a
                   /\ FrameAfter(s[Len(s)]) = b
    /\ \A i \in 1 .. (Len(s) - 1) :
          s[i + 1].type = "Load" \/ s[i + 1].frame = FrameAfter(s[i])

(***************************************************************************)
(* One list of requests after the other.                                   *)
(***************************************************************************)
LEMMA LeadsOn ==
    ASSUME NEW s, NEW t, NEW a, NEW b, NEW c, Leads(s, a, b), Leads(t, b, c)
    PROVE  Leads(s \o t, a, c)
<1> DEFINE u == s \o t
<1>1. /\ s \in Seq(Request) /\ t \in Seq(Request)
      /\ Len(s) \in Nat /\ Len(t) \in Nat
      /\ (s = <<>> <=> Len(s) = 0) /\ (t = <<>> <=> Len(t) = 0)
  BY LenProperties, EmptySeq DEF Leads
<1>2. /\ u \in Seq(Request)
      /\ Len(u) = Len(s) + Len(t)
      /\ \A i \in 1 .. Len(s) + Len(t) : u[i] = IF i <= Len(s) THEN s[i] ELSE t[i - Len(s)]
      /\ u = <<>> <=> Len(u) = 0
  BY <1>1, ConcatProperties, EmptySeq
<1> HIDE DEF u
<1>3. u = <<>> => a = c
  BY <1>1, <1>2 DEF Leads
<1>4. u # <<>> => u[1].type = "Load" \/ u[1].frame = a
  <2>1. CASE s = <<>>
    <3>1. u # <<>> => t # <<>> /\ u[1] = t[1] /\ a = b
      BY <1>1, <1>2, <2>1 DEF Leads
    <3> QED BY <3>1 DEF Leads
  <2>2. CASE s # <<>>
    <3>1. u[1] = s[1]
      BY <1>1, <1>2, <2>2
    <3> QED BY <2>2, <3>1 DEF Leads
  <2> QED BY <2>1, <2>2
<1>5. u # <<>> => FrameAfter(u[Len(u)]) = c
  <2>1. CASE t = <<>>
    <3>1. u # <<>> => s # <<>> /\ u[Len(u)] = s[Len(s)] /\ b = c
      BY <1>1, <1>2, <2>1 DEF Leads
    <3> QED BY <3>1 DEF Leads
  <2>2. CASE t # <<>>
    <3>1. u[Len(u)] = t[Len(t)]
      BY <1>1, <1>2, <2>2
    <3> QED BY <2>2, <3>1 DEF Leads
  <2> QED BY <2>1, <2>2
<1>6. ASSUME NEW i \in 1 .. (Len(u) - 1)
      PROVE  u[i + 1].type = "Load" \/ u[i + 1].frame = FrameAfter(u[i])
  <2>1. CASE i < Len(s)
    <3>1. i \in 1 .. (Len(s) - 1) /\ u[i] = s[i] /\ u[i + 1] = s[i + 1]
      BY <1>1, <1>2, <2>1
    <3> QED BY <3>1 DEF Leads
  <2>2. CASE i = Len(s)
    <3>1. /\ s # <<>> /\ t # <<>> /\ i \in 1 .. Len(s) + Len(t) /\ i <= Len(s)
          /\ i + 1 \in 1 .. Len(s) + Len(t) /\ ~ (i + 1 <= Len(s)) /\ i + 1 - Len(s) = 1
      BY <1>1, <1>2, <2>2
    <3>2. u[i] = s[Len(s)] /\ u[i + 1] = t[1]
      BY <1>2, <2>2, <3>1
    <3> QED BY <3>1, <3>2 DEF Leads
  <2>3. CASE i > Len(s)
    <3> DEFINE j == i - Len(s)
    <3>1. j \in 1 .. (Len(t) - 1) /\ u[i] = t[j] /\ u[i + 1] = t[j + 1]
      <4>1. j \in 1 .. (Len(t) - 1) /\ i + 1 - Len(s) = j + 1
        BY <1>1, <1>2, <2>3
      <4>2. ~ (i <= Len(s)) /\ ~ (i + 1 <= Len(s)) /\ i + 1 \in 1 .. Len(s) + Len(t)
        BY <1>1, <1>2, <2>3
      <4> QED BY <1>2, <4>1, <4>2
    <3> HIDE DEF j
    <3> QED BY <3>1 DEF Leads
  <2> QED BY <1>1, <1>2, <2>1, <2>2, <2>3
<1>7. Leads(u, a, c)
  BY <1>2, <1>3, <1>4, <1>5, <1>6 DEF Leads
<1> QED BY <1>7 DEF u

(***************************************************************************)
(* What is left after the first request.                                   *)
(***************************************************************************)
LEMMA LeadsAfterHead ==
    ASSUME NEW s, NEW a, NEW b, Leads(s, a, b), s # <<>>
    PROVE  /\ Head(s).type = "Load" \/ Head(s).frame = a
           /\ Leads(Tail(s), FrameAfter(Head(s)), b)
<1> DEFINE t == Tail(s)
           r == Head(s)
<1>1. s \in Seq(Request)
  BY DEF Leads
<1>2. Len(s) \in Nat \ {0}
  BY <1>1, EmptySeq, LenProperties
<1>3. /\ r = s[1]
      /\ t \in Seq(Request)
      /\ Len(t) = Len(s) - 1
      /\ \A i \in 1 .. Len(t) : t[i] = s[i + 1]
      /\ t = <<>> <=> Len(t) = 0
  <2>1. /\ r = s[1]
        /\ t \in Seq(Request)
        /\ Len(t) = Len(s) - 1
        /\ \A i \in 1 .. Len(t) : t[i] = s[i + 1]
    BY <1>1, <1>2, HeadTailProperties
  <2> HIDE DEF t
  <2>2. t = <<>> <=> Len(t) = 0
    BY <2>1, EmptySeq
  <2> QED BY <2>1, <2>2
<1> HIDE DEF t, r
<1>4. r.type = "Load" \/ r.frame = a
  BY <1>3 DEF Leads
<1>5. t = <<>> => FrameAfter(r) = b
  <2> SUFFICES ASSUME t = <<>> PROVE FrameAfter(r) = b
    OBVIOUS
  <2>1. Len(s) = 1
    BY <1>2, <1>3
  <2> QED BY <1>3, <2>1 DEF Leads
<1>6. t # <<>> => /\ t[1].type = "Load" \/ t[1].frame = FrameAfter(r)
                  /\ FrameAfter(t[Len(t)]) = b
  <2> SUFFICES ASSUME t # <<>>
               PROVE  /\ t[1].type = "Load" \/ t[1].frame = FrameAfter(r)
                      /\ FrameAfter(t[Len(t)]) = b
    OBVIOUS
  <2>1. 1 \in 1 .. (Len(s) - 1) /\ t[1] = s[1 + 1] /\ t[Len(t)] = s[Len(s)]
    BY <1>2, <1>3
  <2> QED BY <1>3, <2>1 DEF Leads
<1>7. ASSUME NEW i \in 1 .. (Len(t) - 1)
      PROVE  t[i + 1].type = "Load" \/ t[i + 1].frame = FrameAfter(t[i])
  <2>1. i + 1 \in 1 .. (Len(s) - 1) /\ t[i] = s[i + 1] /\ t[i + 1] = s[(i + 1) + 1]
    BY <1>2, <1>3
  <2> QED BY <2>1 DEF Leads
<1>8. Leads(t, FrameAfter(r), b)
  BY <1>3, <1>5, <1>6, <1>7 DEF Leads
<1> QED BY <1>4, <1>8 DEF t, r

(***************************************************************************)
(* Lists of one request.                                                   *)
(***************************************************************************)
LEMMA OneLeads ==
    ASSUME NEW r \in Request, NEW a, r.type = "Load" \/ r.frame = a
    PROVE  Leads(<<r>>, a, FrameAfter(r))
<1>1. <<r>> \in Seq(Request) /\ Len(<<r>>) = 1 /\ <<r>>[1] = r /\ <<r>> # <<>>
  OBVIOUS
<1> QED BY <1>1 DEF Leads

LEMMA NoneLeads ==
    ASSUME NEW a
    PROVE  Leads(<<>>, a, a)
BY EmptySeq DEF Leads

LEMMA SaveLeads ==
    ASSUME NEW f \in Nat
    PROVE  SaveGameState(f) \in Request /\ Leads(<<SaveGameState(f)>>, f, f)
<1> DEFINE r == SaveGameState(f)
<1>1. r \in Request /\ r.frame = f /\ FrameAfter(r) = f
  BY DEF SaveGameState, Request, FrameAfter
<1> HIDE DEF r
<1>2. Leads(<<r>>, f, f)
  BY <1>1, OneLeads
<1> QED BY <1>1, <1>2 DEF r

LEMMA LoadLeads ==
    ASSUME NEW a, NEW f \in Nat
    PROVE  Leads(<<LoadGameState(f)>>, a, f)
<1> DEFINE r == LoadGameState(f)
<1>1. r \in Request /\ r.type = "Load" /\ FrameAfter(r) = f
  BY DEF LoadGameState, Request, FrameAfter
<1> HIDE DEF r
<1>2. Leads(<<r>>, a, f)
  BY <1>1, OneLeads
<1> QED BY <1>2 DEF r

LEMMA AdvanceLeads ==
    ASSUME NEW f \in Nat, NEW x \in {"input"}
    PROVE  /\ AdvanceFrame(f, x) \in Request
           /\ AdvanceFrame(f, x).frame = f
           /\ FrameAfter(AdvanceFrame(f, x)) = f + 1
           /\ Leads(<<AdvanceFrame(f, x)>>, f, f + 1)
<1> DEFINE r == AdvanceFrame(f, x)
<1>1. r \in Request /\ r.frame = f /\ FrameAfter(r) = f + 1
  BY DEF AdvanceFrame, Request, FrameAfter
<1> HIDE DEF r
<1>2. Leads(<<r>>, f, f + 1)
  BY <1>1, OneLeads
<1> QED BY <1>1, <1>2 DEF r

(***************************************************************************)
(* The resimulation ends in the frame that was left by the rollback.       *)
(***************************************************************************)
LEMMA ResimulationLeads ==
    ASSUME NEW from \in Nat, NEW to \in Nat, from < to, to <= MaxFrame, MaxFrame \in Nat
    PROVE  Leads(Resimulation(from, to, NoInputs), from, to)
<1> DEFINE n == 2 * (to - from)
           s == Resimulation(from, to, NoInputs)
           at(i) == from + (i \div 2)
<1>1. n \in Nat \ {0} /\ n \div 2 = to - from /\ n % 2 = 0
  OBVIOUS
<1>2. \A i \in 1 .. n : s[i] = IF i % 2 = 1 THEN AdvanceFrame(at(i), NoInputs[at(i) + 1])
                                            ELSE SaveGameState(at(i))
  BY DEF Resimulation
<1>3. ASSUME NEW i \in 1 .. n
      PROVE  /\ s[i] \in Request /\ s[i].frame = at(i)
             /\ i % 2 = 1 => FrameAfter(s[i]) = at(i) + 1
             /\ i % 2 # 1 => FrameAfter(s[i]) = at(i)
  <2> DEFINE f == at(i)
  <2>1. f \in Nat /\ (i % 2 = 1 => f < to)
    OBVIOUS
  <2>2. CASE i % 2 = 1
    <3>1. s[i] = AdvanceFrame(f, NoInputs[f + 1])
      BY <1>2, <2>2
    <3> HIDE DEF s, f
    <3>2. NoInputs[f + 1] \in {"input"}
      BY <2>1, <2>2 DEF NoInputs
    <3>3. /\ s[i] \in Request /\ s[i].frame = f /\ FrameAfter(s[i]) = f + 1
      BY <2>1, <3>1, <3>2, AdvanceLeads
    <3> QED BY <2>2, <3>3 DEF f
  <2>3. CASE i % 2 # 1
    <3>1. s[i] = SaveGameState(f)
      BY <1>2, <2>3
    <3> HIDE DEF s, f
    <3>2. s[i] \in Request /\ s[i].frame = f /\ s[i].type = "Save"
      BY <2>1, <3>1 DEF SaveGameState, Request
    <3> QED BY <2>3, <3>2 DEF f, FrameAfter
  <2> QED BY <2>2, <2>3
<1>4. s \in Seq(Request) /\ Len(s) = n
  <2>1. s = [i \in 1 .. n |-> s[i]]
    BY DEF Resimulation
  <2>2. s \in [1 .. n -> Request]
    <3> HIDE DEF s
    <3> QED BY <1>3, <2>1
  <2> HIDE DEF s, n
  <2> QED BY <1>1, <2>2
<1>5. s # <<>>
  <2> HIDE DEF s, n
  <2> QED BY <1>1, <1>4, EmptySeq
<1> HIDE DEF s
<1>6. s[1].frame = from /\ FrameAfter(s[n]) = to
  <2>1. 1 \in 1 .. n /\ n \in 1 .. n /\ at(1) = from /\ at(n) = to /\ n % 2 # 1
    BY <1>1
  <2> HIDE DEF n, at
  <2> QED BY <1>3, <2>1
<1>7. ASSUME NEW i \in 1 .. (n - 1) PROVE s[i + 1].frame = FrameAfter(s[i])
  <2>1. i \in 1 .. n /\ i + 1 \in 1 .. n
    OBVIOUS
  <2>2. /\ i % 2 = 1 => at(i + 1) = at(i) + 1
        /\ i % 2 # 1 => at(i + 1) = at(i)
    OBVIOUS
  <2> HIDE DEF n, at
  <2> QED BY <1>3, <2>1, <2>2
<1>8. Leads(s, from, to)
  BY <1>4, <1>5, <1>6, <1>7 DEF Leads
<1> QED BY <1>8 DEF s

(***************************************************************************)
(* advance_frame of a P2P and of a SyncTest session: whatever is rolled    *)
(* back, a step ends in the current frame or in the next one.              *)
(***************************************************************************)
LEMMA CorrectAndSaveLeads ==
    ASSUME NEW c \in 0 .. MaxFrame, NEW load \in {NullFrame} \union (0 .. (c - 1)),
           MaxFrame \in Nat
    PROVE  Leads(CorrectAndSave(c, load, NoInputs), c, c)
<1>1. CASE load = NullFrame
  BY <1>1, SaveLeads DEF CorrectAndSave
<1>2. CASE load # NullFrame
  <2> DEFINE t == Resimulation(load, c, NoInputs)
  <2>1. load \in Nat /\ load < c /\ c \in Nat /\ c <= MaxFrame
    BY <1>2
  <2>2. Leads(t, load, c)
    BY <2>1, ResimulationLeads
  <2>3. Leads(<<LoadGameState(load)>>, c, load)
    BY <2>1, LoadLeads
  <2> HIDE DEF t
  <2>4. Leads(<<LoadGameState(load)>> \o t, c, c)
    BY <2>2, <2>3, LeadsOn
  <2> QED BY <1>2, <2>4 DEF CorrectAndSave, t
<1> QED BY <1>1, <1>2

LEMMA ProceedLeads ==
    ASSUME NEW c \in 0 .. MaxFrame, NEW advance \in BOOLEAN, advance => c < MaxFrame,
           MaxFrame \in Nat
    PROVE  Leads(Proceed(c, advance, NoInputs), c, IF advance THEN c + 1 ELSE c)
<1>1. CASE advance
  <2>1. c \in Nat /\ NoInputs[c + 1] \in {"input"}
    BY <1>1 DEF NoInputs
  <2>2. Leads(<<AdvanceFrame(c, NoInputs[c + 1])>>, c, c + 1)
    BY <2>1, AdvanceLeads
  <2> QED BY <1>1, <2>2 DEF Proceed
<1>2. CASE ~ advance
  BY <1>2, NoneLeads DEF Proceed
<1> QED BY <1>1, <1>2

LEMMA P2PLeads ==
    ASSUME NEW c \in 0 .. MaxFrame, NEW load \in {NullFrame} \union (0 .. (c - 1)),
           NEW advance \in BOOLEAN, advance => c < MaxFrame, MaxFrame \in Nat
    PROVE  Leads(P2PRequests(c, load, advance, NoInputs), c, IF advance THEN c + 1 ELSE c)
<1> DEFINE first == IF c = 0 THEN <<SaveGameState(0)>> ELSE <<>>
           cs == CorrectAndSave(c, load, NoInputs)
           pr == Proceed(c, advance, NoInputs)
           n == IF advance THEN c + 1 ELSE c
<1>1. Leads(cs, c, c)
  BY CorrectAndSaveLeads
<1>2. Leads(pr, c, n)
  BY ProceedLeads
<1>3. Leads(first, c, c)
  <2>1. c = 0 => Leads(<<SaveGameState(0)>>, c, c)
    BY SaveLeads
  <2> QED BY <2>1, NoneLeads
<1>4. P2PRequests(c, load, advance, NoInputs) = (first \o cs) \o pr
  BY DEF P2PRequests
<1> HIDE DEF first, cs, pr, n
<1>5. Leads((first \o cs) \o pr, c, n)
  BY <1>1, <1>2, <1>3, LeadsOn
<1> QED BY <1>4, <1>5 DEF n

LEMMA SyncTestLeads ==
    ASSUME NEW c \in 0 .. MaxFrame, NEW load \in {NullFrame} \union (0 .. (c - 1)),
           c < MaxFrame, MaxFrame \in Nat
    PROVE  Leads(SyncTestRequests(c, load, NoInputs), c, c + 1)
<1> DEFINE cs == CorrectAndSave(c, load, NoInputs)
           pr == Proceed(c, TRUE, NoInputs)
<1>1. Leads(cs, c, c)
  BY CorrectAndSaveLeads
<1>2. Leads(pr, c, c + 1)
  <2>1. Leads(pr, c, IF TRUE THEN c + 1 ELSE c)
    BY ProceedLeads
  <2> QED BY <2>1
<1>3. SyncTestRequests(c, load, NoInputs) = cs \o pr
  BY DEF SyncTestRequests
<1> HIDE DEF cs, pr
<1> QED BY <1>1, <1>2, <1>3, LeadsOn

----------------------------------------------------------------------------
(* Game time and real time *)

(***************************************************************************)
(* What GameTimeNotAhead rests on: the requests of a step take the world   *)
(* to the session's current frame, and no step moves that by more than one.*)
(***************************************************************************)
PaceInv ==
    /\ current \in 0 .. MaxFrame
    /\ (sessions = 1 /\ kind \in {"P2P", "SyncTest"}) =>
          /\ current <= steps
          /\ Leads(requests, frame, current)

(***************************************************************************)
(* The step of a session that moves the current frame to c.                *)
(***************************************************************************)
LEMMA StepKeepsPace ==
    ASSUME TimestepInv, PaceInv, Spend, NEW c \in 0 .. MaxFrame,
           current' = c, kind' = kind, sessions' = sessions, frame' = frame,
           kind \in {"P2P", "SyncTest"} => c <= current + 1 /\ Leads(requests', current, c)
    PROVE  PaceInv'
<1>1. requests = <<>> /\ steps' = steps + 1 /\ steps \in Nat
  BY DEF Spend, Ready, TimestepInv
<1>2. ASSUME sessions = 1, kind \in {"P2P", "SyncTest"}
      PROVE  current' <= steps' /\ Leads(requests', frame', current')
  <2>1. current <= steps /\ Leads(requests, frame, current) /\ current \in 0 .. MaxFrame
    BY <1>2 DEF PaceInv
  <2>2. frame = current
    BY <1>1, <2>1 DEF Leads
  <2>3. c <= steps + 1
    BY <1>1, <1>2, <2>1, GgrsClockAssumption
  <2> QED BY <1>1, <1>2, <2>2, <2>3
<1> QED BY <1>2 DEF PaceInv

(***************************************************************************)
(* A request takes the world where it says.                                *)
(***************************************************************************)
LEMMA RequestKeepsPace ==
    ASSUME PaceInv, HandleRequest
    PROVE  PaceInv'
<1> DEFINE r == Head(requests)
<1>1. /\ requests # <<>> /\ requests' = Tail(requests)
      /\ UNCHANGED <<kind, sessions, current, steps>>
  BY DEF HandleRequest, HandleSave, HandleLoad, HandleAdvance, NextRequest, timestepVars, sessionVars
<1>2. \/ r.type = "Save" /\ frame' = frame
      \/ r.type = "Load" /\ frame' = r.frame
      \/ r.type = "Advance" /\ frame' = frame + 1
  BY DEF HandleRequest, HandleSave, HandleLoad, HandleAdvance, NextRequest
<1> HIDE DEF r
<1>3. ASSUME sessions = 1, kind \in {"P2P", "SyncTest"}
      PROVE  Leads(requests', frame', current)
  <2>1. /\ r.type = "Load" \/ r.frame = frame
        /\ Leads(Tail(requests), FrameAfter(r), current)
    BY <1>1, <1>3, LeadsAfterHead DEF PaceInv, r
  <2>2. frame' = FrameAfter(r)
    BY <1>2, <2>1 DEF FrameAfter
  <2> QED BY <1>1, <2>1, <2>2
<1> QED BY <1>1, <1>3 DEF PaceInv

(***************************************************************************)
(* Every action keeps PaceInv.                                             *)
(***************************************************************************)
LEMMA PaceInvKept ==
    ASSUME TimestepInv, ClockInv, PaceInv, [Next]_vars
    PROVE  PaceInv'
<1>1. MaxFrame \in Nat /\ CheckDistance \in Nat \ {0} /\ CatchUp \in Nat \ {0}
  BY GgrsClockAssumption
<1>2. current \in 0 .. MaxFrame /\ NullFrame = -1
  BY DEF PaceInv, NullFrame
<1>3. CASE UNCHANGED <<kind, sessions, current, steps, requests, frame>>
  BY <1>3 DEF PaceInv
<1>4. ASSUME NEW k \in Kinds, InsertSession(k) PROVE PaceInv'
  <2>1. /\ ~ looping /\ frame = 0 /\ current' = 0
        /\ UNCHANGED <<steps, requests, frame>>
    BY <1>4 DEF InsertSession, timestepVars, clockVars
  <2>2. requests = <<>> /\ steps \in Nat
    BY <2>1 DEF ClockInv, TimestepInv
  <2> QED BY <1>1, <2>1, <2>2, NoneLeads DEF PaceInv
<1>5. CASE RemoveSession
  <2>1. kind' = "None" /\ current' = current
    BY <1>5 DEF RemoveSession
  <2> QED BY <2>1 DEF PaceInv
<1>6. ASSUME NEW delta \in Deltas, BeginUpdate(delta) PROVE PaceInv'
  BY <1>3, <1>6 DEF BeginUpdate, sessionVars, clockVars
<1>7. ASSUME NEW ahead, NEW advance \in BOOLEAN, NEW k \in -1 .. MaxFrame,
             NEW load \in -1 .. MaxFrame, StepP2P(ahead, k, load, advance)
      PROVE  PaceInv'
  <2> DEFINE c == IF advance THEN current + 1 ELSE current
  <2>1. /\ Spend /\ current' = c
        /\ UNCHANGED <<kind, sessions, frame>>
        /\ requests' = P2PRequests(current, load, advance, NoInputs)
        /\ load \in {f \in (k + 1) .. (current - 1) : f >= 0} \union {NullFrame}
        /\ advance => current < MaxFrame
    BY <1>7 DEF StepP2P, clockVars, Loadable
  <2>2. load \in {NullFrame} \union (0 .. (current - 1))
    BY <1>2, <2>1
  <2>3. Leads(requests', current, c)
    BY <1>1, <1>2, <2>1, <2>2, P2PLeads
  <2>4. c \in 0 .. MaxFrame /\ c <= current + 1
    BY <1>1, <1>2, <2>1
  <2> HIDE DEF c
  <2> QED BY <2>1, <2>3, <2>4, StepKeepsPace
<1>8. ASSUME NEW ahead, StepInVain(ahead) PROVE PaceInv'
  <2>1. /\ Spend /\ current' = current
        /\ UNCHANGED <<kind, sessions, frame, requests>>
    BY <1>8 DEF StepInVain, sessionVars, clockVars
  <2>2. Leads(requests', current, current)
    BY <2>1, NoneLeads DEF Spend, Ready
  <2>3. current <= current + 1
    BY <1>1, <1>2
  <2> QED BY <1>2, <2>1, <2>2, <2>3, StepKeepsPace
<1>9. CASE StepSyncTest
  <2> DEFINE load == IF current > CheckDistance THEN current - CheckDistance ELSE NullFrame
  <2>1. /\ Spend /\ current' = current + 1 /\ current < MaxFrame
        /\ UNCHANGED <<kind, sessions, frame>>
        /\ requests' = SyncTestRequests(current, load, NoInputs)
    BY <1>9 DEF StepSyncTest, clockVars
  <2>2. load \in {NullFrame} \union (0 .. (current - 1))
    BY <1>1, <1>2
  <2> HIDE DEF load
  <2>3. Leads(requests', current, current + 1)
    BY <1>1, <1>2, <2>1, <2>2, SyncTestLeads
  <2>4. current + 1 \in 0 .. MaxFrame /\ current + 1 <= current + 1
    BY <1>1, <1>2, <2>1
  <2> QED BY <2>1, <2>3, <2>4, StepKeepsPace
<1>10. ASSUME NEW count \in 1 .. CatchUp, StepSpectator(count) PROVE PaceInv'
  <2>1. kind' = "Spectator" /\ current' = current + count /\ current + count <= MaxFrame
    BY <1>10 DEF StepSpectator
  <2>2. current' \in 0 .. MaxFrame
    BY <1>1, <1>2, <2>1
  <2> QED BY <2>1, <2>2 DEF PaceInv
<1>11. CASE StepWithoutSession
  <2>1. kind' = "None" /\ current' = current
    BY <1>11 DEF StepWithoutSession, sessionVars
  <2> QED BY <2>1 DEF PaceInv
<1>12. CASE Step
  BY <1>7, <1>8, <1>9, <1>10, <1>11, <1>12 DEF Step
<1>13. CASE HandleRequest
  BY <1>13, RequestKeepsPace
<1>14. CASE EndUpdate
  BY <1>3, <1>14 DEF EndUpdate, sessionVars, clockVars
<1>15. CASE UNCHANGED vars
  BY <1>3, <1>15 DEF vars, timestepVars, sessionVars, clockVars
<1> QED BY <1>4, <1>5, <1>6, <1>12, <1>13, <1>14, <1>15 DEF Next, Update

(***************************************************************************)
(* The run time of n frames is at most n rounded frame periods and n units.*)
(***************************************************************************)
LEMMA RuntimeBound ==
    ASSUME NEW n \in Nat
    PROVE  Runtime(n) <= n * NormalPeriod + n
<1> DEFINE p == Second \div Rate
           q == (n * Second) \div Rate
<1>1. Second \in Nat /\ Rate \in Nat \ {0} /\ n * Second \in Nat
  BY GgrsClockAssumption
<1>2. p \in Nat /\ Second < Rate * p + Rate
  BY <1>1, Quotient
<1>3. q \in Nat /\ Rate * q <= n * Second
  <2> DEFINE a == n * Second
  <2> HIDE DEF a
  <2>1. a \div Rate \in Nat /\ Rate * (a \div Rate) <= a
    BY <1>1, Quotient DEF a
  <2> QED BY <2>1 DEF a
<1> HIDE DEF p, q
<1>4. n * Second <= n * (Rate * p + Rate)
  BY <1>1, <1>2
<1>5. n * (Rate * p + Rate) = Rate * (n * p + n)
  BY <1>1, <1>2
<1>6. Rate * q <= Rate * (n * p + n)
  BY <1>1, <1>2, <1>3, <1>4, <1>5
<1>7. q <= n * p + n
  BY <1>1, <1>2, <1>3, <1>6
<1> QED BY <1>7 DEF p, q, Runtime, NormalPeriod

(***************************************************************************)
(* src/schedule_systems.rs and src/time.rs: in a P2P or SyncTest session   *)
(* game time never runs ahead of real time by more than the rounding of    *)
(* one unit per step, for every frame rate, although a step may roll back  *)
(* and simulate many frames again.                                         *)
(***************************************************************************)
THEOREM GameTimeNotAheadAlways == Spec => []GameTimeNotAhead
<1>1. Init => PaceInv
  <2> SUFFICES ASSUME Init PROVE PaceInv
    OBVIOUS
  <2>1. 0 \in 0 .. MaxFrame
    BY GgrsClockAssumption
  <2> QED BY <2>1 DEF Init, PaceInv
<1>2. TimestepInv /\ ClockInv /\ PaceInv /\ [Next]_vars => PaceInv'
  BY PaceInvKept
<1>3. TimestepInv /\ ClockInv /\ PaceInv => GameTimeNotAhead
  <2> SUFFICES ASSUME TimestepInv, ClockInv, PaceInv,
                      sessions = 1, kind \in {"P2P", "SyncTest"}, requests = <<>>
               PROVE  time.elapsed <= real + steps
    BY DEF GameTimeNotAhead
  <2>1. time = TimeAt(frame) /\ frame = current /\ current <= steps /\ current \in Nat
    BY GgrsClockAssumption DEF ClockInv, FirstSessionInv, PaceInv, Leads
  <2>2. /\ time.elapsed = Runtime(current) /\ Runtime(current) \in Nat
        /\ Runtime(current) <= current * NormalPeriod + current
    BY <2>1, RuntimeBound, RuntimeGrows DEF TimeAt
  <2>3. /\ steps \in Nat /\ real \in Nat /\ accumulator \in Nat
        /\ steps * NormalPeriod + accumulator <= real
    BY DEF TimestepInv
  <2> DEFINE p == NormalPeriod
  <2>4. p \in Nat
    BY Periods
  <2> HIDE DEF p
  <2>5. current * p <= steps * p
    BY <2>1, <2>3, <2>4
  <2>6. current * p \in Nat /\ steps * p \in Nat
    BY <2>1, <2>3, <2>4
  <2> QED BY <2>1, <2>2, <2>3, <2>5, <2>6 DEF p
<1> QED BY <1>1, <1>2, <1>3, TimestepInvAlways, ClockInvAlways, PTL DEF Spec
=============================================================================
