------------------------------ MODULE SyncTest ------------------------------
(***************************************************************************)
(* A SyncTest session that is to find out whether the game is              *)
(* deterministic: run_synctest and handle_requests of                      *)
(* src/schedule_systems.rs with the checksum of every saved frame and the  *)
(* event SyncTestMismatch.                                                 *)
(*                                                                         *)
(* What the systems of the game do in a frame is one of Ops.  They are     *)
(* deterministic when they do the same whenever the frame is simulated;    *)
(* when the game is Leaky, one simulation of one frame may do something    *)
(* else, because a system looks at state that is not rolled back.          *)
(***************************************************************************)
EXTENDS GgrsSnapshots, GgrsSession, Checksum

CONSTANTS Values,          \* values the game gives the component and the resources
          InitialValue,    \* the value all of them start with
          Places,          \* the entities the game changes, by their place in the order
          InitialEntities, \* entities spawned before the session starts
          MaxEntities,     \* bound: registered RollbackIds
          MaxPrediction,   \* max_prediction() of the session
          CheckDistance,   \* check_distance() of the session
          Leaky,           \* may the game be nondeterministic?
          MaxFrame         \* bound: frames simulated

ASSUME SyncTestAssumption ==
    /\ InitialEntities \in Nat /\ MaxEntities \in Nat
    /\ MaxPrediction \in Nat
    /\ CheckDistance \in Nat \ {0} /\ CheckDistance < MaxPrediction
    /\ Leaky \in BOOLEAN
    /\ MaxFrame \in Nat /\ MaxFrame < Half

VARIABLES
    \* resources and entities of bevy_ggrs
    frame,        \* RollbackFrameCount
    confirmed,    \* ConfirmedFrameCount
    store,        \* the snapshots
    state,        \* the rollback state
    nextEntity,   \* the next Entity Bevy hands out, not rolled back
    parts,        \* ChecksumFlag -> ChecksumPart, not rolled back
    checksum,     \* Checksum
    requests,     \* the requests handle_requests has not executed yet
    mismatch,     \* the last SyncTestMismatch
    \* the session
    current,      \* its current frame
    cells,        \* frame -> checksum in the cell saved last for it
    history,      \* frame -> first checksum compared for it
    \* the game, and what the properties need to know
    script,       \* what the game did when it simulated frames 0 .. n - 1 first
    leaked,       \* has it ever done something else?
    first,        \* frame -> the state as it was first saved
    diverged      \* frames whose last saved state differs from that

bevyVars == <<frame, confirmed, store, state, nextEntity, parts, checksum>>
gameVars == <<script, leaked, first, diverged>>
vars == <<bevyVars, requests, mismatch, current, cells, history, gameVars>>

\* The function f with x mapped to y.
With(f, x, y) == [z \in DOMAIN f \union {x} |-> IF z = x THEN y ELSE f[z]]

NoMismatch == [current |-> NullFrame, frames |-> {}]

\* RollbackIds differ between two simulations; what counts is the place in the order.
View(s) ==
    [components |-> [i \in {j \in DOMAIN s.ordered : s.ordered[j] \in DOMAIN s.components} |->
                        s.components[s.ordered[i]]],
     total      |-> Len(s.ordered),
     resources  |-> s.resources]

----------------------------------------------------------------------------
(* The systems of the game in GgrsSchedule. *)

Quiet == [op |-> "quiet"]

Ops ==
    {Quiet}
        \union [op : {"spawn"}, value : Values]
        \union [op : {"change"}, place : Places, value : Values]
        \union [op : {"despawn"}, place : Places]
        \union [op : {"set"}, resource : Resources, value : Values]

Active(s, place) == place \in DOMAIN s.ordered /\ s.ordered[place] \in DOMAIN s.components

\* An operation on an entity that is not there does nothing.
Play(s, op) ==
    CASE op.op = "spawn" /\ Len(s.ordered) < MaxEntities ->
            [s EXCEPT !.ordered = Append(@, nextEntity),
                      !.components = With(@, nextEntity, op.value)]
      [] op.op = "change" /\ Active(s, op.place) ->
            [s EXCEPT !.components[s.ordered[op.place]] = op.value]
      [] op.op = "despawn" /\ Active(s, op.place) ->
            [s EXCEPT !.components = [id \in DOMAIN @ \ {s.ordered[op.place]} |-> @[id]]]
      [] op.op = "set" ->
            [s EXCEPT !.resources[op.resource] = op.value]
      [] OTHER -> s

(***************************************************************************)
(* What the game may do in frame f: it is free the first time.  (The last  *)
(* frame within the bound is never saved.)                                 *)
(***************************************************************************)
Playable(f) ==
    CASE f = MaxFrame - 1                                           -> {Quiet}
      [] f < MaxFrame - 1 /\ (f = Len(script) \/ (Leaky /\ ~ leaked)) -> Ops
      [] OTHER                                                      -> {script[f + 1]}

----------------------------------------------------------------------------
Init ==
    /\ frame = 0
    /\ confirmed = -1
    /\ store = EmptySnapshots
    /\ state = [ordered    |-> [i \in 1 .. InitialEntities |-> i],
                components |-> [i \in 1 .. InitialEntities |-> InitialValue],
                resources  |-> [r \in Resources |-> InitialValue]]
    /\ nextEntity = InitialEntities + 1
    /\ parts = <<>>
    /\ checksum = {}
    /\ requests = <<>>
    /\ mismatch = NoMismatch
    /\ current = 0
    /\ cells = <<>>
    /\ history = <<>>
    /\ script = <<>>
    /\ leaked = FALSE
    /\ first = <<>>
    /\ diverged = {}

----------------------------------------------------------------------------
(* SyncTestSession::advance_frame *)

\* The frames it compares, once it has come far enough, and has a cell for.
Checked ==
    IF current > CheckDistance
    THEN ((current - CheckDistance) .. current) \intersect DOMAIN cells
    ELSE {}

Mismatched == {f \in Checked \intersect DOMAIN history : cells[f] # history[f]}

\* Older checksums are forgotten, the first one of a frame is kept.
NextHistory ==
    LET kept == {f \in DOMAIN history : Checked = {} \/ f >= current - CheckDistance}
    IN  [f \in kept \union Checked |-> IF f \in kept THEN history[f] ELSE cells[f]]

NoInputs == [i \in 1 .. (MaxFrame + 1) |-> "input"]

(***************************************************************************)
(* run_synctest: the requests are handled, or the error is turned into a   *)
(* SyncTestMismatch and the step has no other effect.                      *)
(***************************************************************************)
RunConsistent ==
    LET load == IF current > CheckDistance THEN current - CheckDistance ELSE NullFrame
    IN  /\ requests = <<>>
        /\ Mismatched = {}
        /\ current < MaxFrame
        /\ history' = NextHistory
        /\ current' = current + 1
        /\ requests' = SyncTestRequests(current, load, NoInputs)
        /\ UNCHANGED <<bevyVars, mismatch, cells, gameVars>>

RunMismatched ==
    /\ requests = <<>>
    /\ Mismatched # {}
    /\ history' = NextHistory
    /\ mismatch' = [current |-> current, frames |-> Mismatched]
    /\ UNCHANGED <<bevyVars, requests, current, cells, gameVars>>

----------------------------------------------------------------------------
(* handle_requests *)

NextRequest(type) ==
    /\ requests # <<>>
    /\ Head(requests).type = type
    /\ requests' = Tail(requests)
    /\ confirmed' = IF frame >= CheckDistance THEN frame - CheckDistance ELSE confirmed
    /\ UNCHANGED <<mismatch, current, history>>

\* SaveWorld: checksum parts, total, snapshots; then the cell gets the checksum.
HandleSave ==
    /\ NextRequest("Save")
    /\ parts' = UpdateParts(parts, state)
    /\ checksum' = Total(parts')
    /\ store' = SaveChain(store, MaxPrediction, confirmed', frame, state)
    /\ cells' = With(cells, Head(requests).frame, checksum')
    /\ first' = IF frame \in DOMAIN first THEN first ELSE With(first, frame, View(state))
    /\ diverged' = IF View(state) = first'[frame] THEN diverged \ {frame}
                                                  ELSE diverged \union {frame}
    /\ UNCHANGED <<frame, state, nextEntity, script, leaked>>

\* Variant: RollbackOrdered is not rolled back.
HandleLoad_KeepsOrder ==
    /\ NextRequest("Load")
    /\ frame' = Head(requests).frame
    /\ CanRollback(store, frame')
    /\ store' = Rollback(store, frame')
    /\ state' = [Get(store') EXCEPT !.ordered = state.ordered]
    /\ UNCHANGED <<nextEntity, parts, checksum, cells, gameVars>>

HandleLoad ==
    /\ NextRequest("Load")
    /\ frame' = Head(requests).frame
    /\ CanRollback(store, frame')
    /\ store' = Rollback(store, frame')
    /\ state' = Get(store')
    /\ UNCHANGED <<nextEntity, parts, checksum, cells, gameVars>>

HandleAdvance(op) ==
    /\ NextRequest("Advance")
    /\ op \in Playable(frame)
    /\ frame' = frame + 1
    /\ state' = Play(state, op)
    /\ nextEntity' = nextEntity + Len(state'.ordered) - Len(state.ordered)
    /\ script' = IF frame = Len(script) THEN Append(script, op) ELSE script
    /\ leaked' = (leaked \/ op # script'[frame + 1])
    /\ UNCHANGED <<store, parts, checksum, cells, first, diverged>>

----------------------------------------------------------------------------
HandleRequest == HandleSave \/ HandleLoad \/ \E op \in Ops : HandleAdvance(op)

RunSyncTest == RunConsistent \/ RunMismatched

Next == RunSyncTest \/ HandleRequest

\* handle_requests runs to its end, and the schedule runs again and again.
Spec == Init /\ [][Next]_vars /\ WF_vars(Next)

----------------------------------------------------------------------------
(***************************************************************************)
(* SyncTestMismatch names exactly the frames whose resimulated state       *)
(* differs from the first: no false alarm because a resimulation spawned   *)
(* other Entities, and no diverged frame left out.                         *)
(***************************************************************************)
MismatchIsExact == mismatch # NoMismatch => mismatch.frames = diverged

(***************************************************************************)
(* A game that does the same whenever it simulates a frame is never        *)
(* accused: what is loaded, and the Entities Bevy hands out after it, lead *)
(* to the same states again and to the same checksums.                     *)
(***************************************************************************)
DeterminismAccepted == ~ leaked => diverged = {} /\ mismatch = NoMismatch

(***************************************************************************)
(* A resimulation that diverges is reported: the session never forgets the *)
(* first checksum before it is compared.                                   *)
(***************************************************************************)
DivergenceReported == diverged # {} ~> mismatch # NoMismatch
=============================================================================
