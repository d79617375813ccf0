------------------------------ MODULE GgrsClock ------------------------------
(***************************************************************************)
(* Real time and game time: the fixed timestep of run_ggrs_schedules       *)
(* (src/schedule_systems.rs), which turns the deltas of Bevy's Time into   *)
(* steps of the session, and Time<GgrsTime> (src/time.rs), which follows   *)
(* RollbackFrameCount and is rolled back like any other resource.          *)
(*                                                                         *)
(* Durations are integers, in units of which a second has Second           *)
(* (nanoseconds in the code).  What the session asks for in a step is left *)
(* open as far as GGRS leaves it open: rollbacks to any stored frame that  *)
(* is not confirmed, frames skipped at the prediction threshold, steps of  *)
(* a session that is not running.                                          *)
(***************************************************************************)
EXTENDS GgrsSnapshots, GgrsSession

CONSTANTS Second,         \* 1_000_000_000 in the code
          Rate,           \* RollbackFrameRate
          Deltas,         \* durations of one Bevy update
          Kinds,          \* the kinds of session the user inserts
          MaxPrediction,  \* max_prediction() of the session
          CheckDistance,  \* check_distance() of a SyncTest session
          CatchUp,        \* frames a spectator may advance in one step
          MaxSessions,    \* bound: sessions inserted one after the other
          MaxFrame,       \* bound: frames simulated in a session
          MaxReal         \* bound: real time since the accumulator was reset

\* A rate of 0 divides by zero, one above Second makes the timestep endless.
ASSUME GgrsClockAssumption ==
    /\ Second \in Nat \ {0}
    /\ Rate \in 1 .. Second
    /\ Deltas \subseteq Nat
    /\ Kinds \subseteq {"P2P", "SyncTest", "Spectator"}
    /\ MaxPrediction \in Nat \ {0}
    /\ CheckDistance \in Nat \ {0} /\ CheckDistance < MaxPrediction
    /\ CatchUp \in Nat \ {0}
    /\ MaxSessions \in Nat
    /\ MaxFrame \in Nat /\ MaxFrame < Half
    /\ MaxReal \in Nat

VARIABLES
    \* FixedTimestepData and the running update
    accumulator,  \* accumulated time that is not yet spent on steps
    runSlow,      \* run_slow
    fpsDelta,     \* fps_delta, fixed before the loop of an update
    looping,      \* is the loop of an update running?
    \* the session
    kind,         \* the variant of the Session resource, or "None"
    sessions,     \* sessions inserted so far
    current,      \* the session's current frame
    confirmed,    \* ConfirmedFrameCount, as the session reports it
    requests,     \* the requests handle_requests has not executed yet
    \* resources of bevy_ggrs
    frame,        \* RollbackFrameCount
    time,         \* Time<GgrsTime>
    store,        \* its snapshots
    panicked,     \* Time::advance_to was asked to go back
    \* for the properties
    seen,         \* frame and Res<Time> of the last run of GgrsSchedule
    real,         \* real time since the accumulator was reset
    steps         \* steps of the timestep since then

timestepVars == <<accumulator, runSlow, fpsDelta, looping, real, steps>>
sessionVars == <<kind, sessions, current>>
clockVars == <<frame, time, store, panicked, seen>>
vars == <<timestepVars, sessionVars, confirmed, requests, clockVars>>

----------------------------------------------------------------------------
(* The arithmetic. *)

\* Variant: the factor for running slow is turned upside down.
SlowPeriod_Inverted == (Second * 10) \div (Rate * 11)

NormalPeriod == Second \div Rate
SlowPeriod == (Second * 11) \div (Rate * 10)

\* The time that has passed at a frame, and the Time<GgrsTime> of that frame.
Runtime(f) == (f * Second) \div Rate

NoTime == [elapsed |-> 0, delta |-> 0]

(***************************************************************************)
(* Bevy's Time::advance_to, under its assertion that time does not go back.*)
(***************************************************************************)
CanAdvanceTo(t, elapsed) == elapsed >= t.elapsed
AdvanceTo(t, elapsed) == [elapsed |-> elapsed, delta |-> elapsed - t.elapsed]

----------------------------------------------------------------------------
Init ==
    /\ accumulator = 0
    /\ runSlow = FALSE
    /\ fpsDelta = NormalPeriod
    /\ looping = FALSE
    /\ kind = "None"
    /\ sessions = 0
    /\ current = 0
    /\ confirmed = 0
    /\ requests = <<>>
    /\ frame = 0
    /\ time = NoTime
    /\ store = EmptySnapshots
    /\ panicked = FALSE
    /\ seen = {}
    /\ real = 0
    /\ steps = 0

(***************************************************************************)
(* The user inserts and removes the Session resource between two updates.  *)
(* A session is inserted at start-up or after a step without session has   *)
(* reset the frame counters.  A new P2P session has confirmed nothing.     *)
(***************************************************************************)
InsertSession(k) ==
    /\ ~ looping
    /\ kind = "None"
    /\ frame = 0
    /\ sessions < MaxSessions
    /\ kind' = k
    /\ sessions' = sessions + 1
    /\ current' = 0
    /\ confirmed' = IF k = "P2P" THEN NullFrame ELSE confirmed
    /\ UNCHANGED <<timestepVars, requests, clockVars>>

RemoveSession ==
    /\ ~ looping
    /\ kind # "None"
    /\ kind' = "None"
    /\ UNCHANGED <<timestepVars, sessions, current, confirmed, requests, clockVars>>

----------------------------------------------------------------------------
(* run_ggrs_schedules *)

\* An update begins: the frame duration is fixed, the delta accumulated.
BeginUpdate(delta) ==
    /\ ~ looping
    /\ real + delta <= MaxReal
    /\ fpsDelta' = IF runSlow THEN SlowPeriod ELSE NormalPeriod
    /\ accumulator' = accumulator + delta
    /\ looping' = TRUE
    /\ real' = real + delta
    /\ UNCHANGED <<runSlow, steps, sessionVars, confirmed, requests, clockVars>>

\* The loop may go round again when all requests of the last step are done.
Ready == looping /\ requests = <<>> /\ ~ panicked

\* What a step of the loop does first, for every kind of session.
Spend ==
    /\ Ready
    /\ accumulator >= fpsDelta
    /\ accumulator' = accumulator - fpsDelta
    /\ steps' = steps + 1
    /\ UNCHANGED <<fpsDelta, looping, real>>

EndUpdate ==
    /\ Ready
    /\ accumulator < fpsDelta
    /\ looping' = FALSE
    /\ UNCHANGED <<accumulator, runSlow, fpsDelta, real, steps,
                   sessionVars, confirmed, requests, clockVars>>

\* The time does not depend on the inputs.
NoInputs == [i \in 1 .. (MaxFrame + 1) |-> "input"]

(***************************************************************************)
(* run_p2p: frames_ahead() decides on run_slow; a session that is running  *)
(* confirms frames up to k, may ask for a rollback to a later frame and    *)
(* advances unless it has to wait.                                         *)
(***************************************************************************)
Loadable(k) == {f \in (k + 1) .. (current - 1) : f >= 0 /\ CanRollback(store, f)}

StepP2P(ahead, k, load, advance) ==
    /\ kind = "P2P"
    /\ Spend
    /\ runSlow' = ahead
    /\ k \in confirmed .. current
    /\ load \in Loadable(k) \union {NullFrame}
    /\ advance => current < MaxFrame
    /\ confirmed' = k
    /\ current' = IF advance THEN current + 1 ELSE current
    /\ requests' = P2PRequests(current, load, advance, NoInputs)
    /\ UNCHANGED <<kind, sessions, clockVars>>

(***************************************************************************)
(* A step that leads to no request: the session is not running, or         *)
(* advance_frame returns an error.                                         *)
(***************************************************************************)
StepInVain(ahead) ==
    /\ kind # "None"
    /\ Spend
    /\ runSlow' = IF kind = "P2P" THEN ahead ELSE runSlow
    /\ UNCHANGED <<sessionVars, confirmed, requests, clockVars>>

StepSyncTest ==
    LET load == IF current > CheckDistance THEN current - CheckDistance ELSE NullFrame
    IN  /\ kind = "SyncTest"
        /\ current < MaxFrame
        /\ Spend
        /\ current' = current + 1
        /\ requests' = SyncTestRequests(current, load, NoInputs)
        /\ UNCHANGED <<runSlow, kind, sessions, confirmed, clockVars>>

StepSpectator(count) ==
    /\ kind = "Spectator"
    /\ current + count <= MaxFrame
    /\ Spend
    /\ current' = current + count
    /\ requests' = SpectatorRequests(current, count, NoInputs)
    /\ UNCHANGED <<runSlow, kind, sessions, confirmed, clockVars>>

\* Variant: no time is spent on a step without a session.
StepWithoutSession_Free ==
    /\ kind = "None"
    /\ Ready
    /\ accumulator >= fpsDelta
    /\ runSlow' = FALSE
    /\ frame' = 0
    /\ confirmed' = -1
    /\ real' = 0
    /\ steps' = 0
    /\ UNCHANGED <<accumulator, fpsDelta, looping, sessionVars, requests, time, store,
                   panicked, seen>>

\* Without a session the time data and the frame counters are reset.
StepWithoutSession ==
    /\ kind = "None"
    /\ Ready
    /\ accumulator >= fpsDelta
    /\ accumulator' = 0
    /\ runSlow' = FALSE
    /\ frame' = 0
    /\ confirmed' = -1
    /\ real' = 0
    /\ steps' = 0
    /\ UNCHANGED <<fpsDelta, looping, sessionVars, requests, time, store, panicked, seen>>

----------------------------------------------------------------------------
(* handle_requests *)

SessionConfirmedFrame ==
    CASE kind = "P2P"       -> confirmed
      [] kind = "SyncTest"  -> IF frame >= CheckDistance THEN frame - CheckDistance
                                                         ELSE confirmed
      [] kind = "Spectator" -> frame

NextRequest(type) ==
    /\ requests # <<>> /\ ~ panicked
    /\ Head(requests).type = type
    /\ requests' = Tail(requests)
    /\ confirmed' = SessionConfirmedFrame
    /\ UNCHANGED <<timestepVars, sessionVars>>

HandleSave ==
    /\ NextRequest("Save")
    /\ store' = SaveChain(store, MaxPrediction, confirmed', frame, time)
    /\ UNCHANGED <<frame, time, panicked, seen>>

\* Variants: Time<GgrsTime> is not registered for rollback; RollbackFrameCount is
\* not set.
HandleLoad_KeepTime ==
    /\ NextRequest("Load")
    /\ frame' = Head(requests).frame
    /\ CanRollback(store, frame')
    /\ store' = Rollback(store, frame')
    /\ UNCHANGED <<time, panicked, seen>>

HandleLoad_KeepCount ==
    /\ NextRequest("Load")
    /\ CanRollback(store, Head(requests).frame)
    /\ store' = Rollback(store, Head(requests).frame)
    /\ time' = Get(store')
    /\ UNCHANGED <<frame, panicked, seen>>

HandleLoad ==
    /\ NextRequest("Load")
    /\ frame' = Head(requests).frame
    /\ CanRollback(store, frame')
    /\ store' = Rollback(store, frame')
    /\ time' = Get(store')
    /\ UNCHANGED <<panicked, seen>>

(***************************************************************************)
(* AdvanceWorld: GgrsTimePlugin::update, then replace_default_with_ggrs,   *)
(* so that GgrsSchedule reads the new Time<GgrsTime> as Res<Time>.         *)
(***************************************************************************)
HandleAdvance ==
    /\ NextRequest("Advance")
    /\ frame' = frame + 1
    /\ \/ /\ CanAdvanceTo(time, Runtime(frame'))
          /\ time' = AdvanceTo(time, Runtime(frame'))
          /\ seen' = {[frame |-> frame', time |-> time']}
          /\ UNCHANGED panicked
       \/ /\ ~ CanAdvanceTo(time, Runtime(frame'))
          /\ panicked' = TRUE
          /\ UNCHANGED <<time, seen>>
    /\ UNCHANGED store

----------------------------------------------------------------------------
Step ==
    \/ \E ahead, advance \in BOOLEAN, k \in -1 .. MaxFrame, load \in -1 .. MaxFrame :
          StepP2P(ahead, k, load, advance)
    \/ \E ahead \in BOOLEAN : StepInVain(ahead)
    \/ StepSyncTest
    \/ \E count \in 1 .. CatchUp : StepSpectator(count)
    \/ StepWithoutSession

HandleRequest == HandleSave \/ HandleLoad \/ HandleAdvance

Update == Step \/ HandleRequest \/ EndUpdate

Next ==
    \/ \E k \in Kinds : InsertSession(k)
    \/ RemoveSession
    \/ \E delta \in Deltas : BeginUpdate(delta)
    \/ Update

\* An update is one call: it runs until it ends.
Spec == Init /\ [][Next]_vars /\ WF_vars(Update)

----------------------------------------------------------------------------
TimeAt(f) == [elapsed |-> Runtime(f),
              delta   |-> IF f = 0 THEN 0 ELSE Runtime(f) - Runtime(f - 1)]

(***************************************************************************)
(* src/time.rs: Time<GgrsTime> is guaranteed to reflect that exactly       *)
(* RollbackFrameCount frames have passed.  Elapsed time and delta are      *)
(* functions of the frame, for the systems in GgrsSchedule and between two *)
(* steps, whatever was rolled back, skipped or simulated twice before.     *)
(***************************************************************************)
ReflectsFrameCount ==
    /\ ~ panicked
    /\ \A s \in seen : s.time = TimeAt(s.frame)
    /\ (kind # "None" /\ frame > 0) => time = TimeAt(frame)

(***************************************************************************)
(* In the first session of the App the time does reflect the frame count.  *)
(***************************************************************************)
ClockFollowsFrames == sessions <= 1 => ReflectsFrameCount

(***************************************************************************)
(* The timestep neither loses nor gains real time: n steps take at least n *)
(* frame periods, and between two updates at most n + 1 slow ones have     *)
(* passed, although run_slow may change in the middle of an update.        *)
(***************************************************************************)
RealTimeKept ==
    /\ steps * NormalPeriod <= real
    /\ ~ looping => real < (steps + 1) * SlowPeriod

(***************************************************************************)
(* Game time is at most one unit of time per step ahead of real time: no   *)
(* step advances the session by more than one frame on balance, rollbacks  *)
(* and resimulation included.  (A spectator may catch up, and see          *)
(* ReflectsFrameCount for a second session.)                               *)
(***************************************************************************)
GameTimeNotAhead ==
    (sessions = 1 /\ kind \in {"P2P", "SyncTest"} /\ requests = <<>>) =>
        time.elapsed <= real + steps

(***************************************************************************)
(* An update ends, unless it panics: while steps are executed no real time *)
(* is added.                                                               *)
(***************************************************************************)
UpdateEnds == looping ~> (~ looping \/ panicked)
==============================================================================
