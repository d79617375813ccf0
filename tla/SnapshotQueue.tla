--------------------------- MODULE SnapshotQueue ---------------------------
(***************************************************************************)
(* A resource that is rolled back: ResourceSnapshotPlugin drives its       *)
(* GgrsSnapshots from SaveWorld (sync_depth, discard_old_snapshots, save)  *)
(* and LoadWorld (load), on i32 frame numbers that wrap around, with the   *)
(* Strategy it was registered with.  The game may insert, change and       *)
(* remove the resource in any frame.                                       *)
(*                                                                         *)
(* `now` is the frame the simulation is really at, as an unbounded         *)
(* integer; the storage only ever sees Wrap(now).  The saved data carries  *)
(* the real frame, so that the stored queue can be compared with           *)
(* SnapshotHistory.                                                        *)
(***************************************************************************)
EXTENDS GgrsSnapshots

CONSTANTS Fields, Reflected, FieldValues, FromWorld,    \* see Strategy
          None,           \* the resource is not there
          Depths,         \* the values MaxPredictionWindow takes
          Start,          \* first frame
          MaxNow,         \* bound: last frame explored
          Lag,            \* the confirmed frame is at most Lag behind the saved one,
          LagAcrossWrap,  \* ... at most LagAcrossWrap when the wraparound is in between,
          Lead            \* ... and at most Lead ahead of it (input delay)

S == INSTANCE Strategy

\* What is stored for the resource: nothing, or what a strategy makes of it.
StoredValues ==
    {None} \union S!Targets \union {S!ReflectStore(t) : t \in S!Targets}

\* push takes frames more than u32::MAX / 2 apart to have wrapped around: a
\* prediction window is shorter than that.
ASSUME SnapshotQueueAssumption ==
    /\ Reflected \subseteq Fields
    /\ None \notin S!Targets /\ \A t \in S!Targets : None # S!ReflectStore(t)
    /\ Depths \subseteq 1 .. (Half - 1)
    /\ Start \in Int /\ MaxNow \in Int /\ Start <= MaxNow
    /\ Lag \in Nat /\ LagAcrossWrap \in Nat /\ Lead \in Nat

VARIABLES now,         \* the frame the simulation is really at
          confirmed,   \* the frame ConfirmedFrameCount really stands for
          strategy,    \* the strategy the resource was registered with
          resource,    \* the resource, or None
          store,       \* the GgrsSnapshots resource
          saved,       \* has `now` been saved?
          loaded       \* has `now` just been loaded?

vars == <<now, confirmed, strategy, resource, store, saved, loaded>>

\* What the plugin stores: Option<S::Stored>.
Stored(r) == IF r = None THEN None ELSE S!Store(strategy, r)

Datum(frame, value) == [at |-> frame, value |-> value]

----------------------------------------------------------------------------
\* The three ways to register a resource.
rollback_resource_with_copy == strategy = "Copy"
rollback_resource_with_clone == strategy = "Clone"
rollback_resource_with_reflect == strategy = "Reflect"

Init ==
    /\ rollback_resource_with_copy \/ rollback_resource_with_clone \/ rollback_resource_with_reflect
    /\ now = Start
    /\ confirmed = Start - 1
    /\ resource = None
    /\ store = EmptySnapshots
    /\ saved = FALSE
    /\ loaded = FALSE

AcrossWrap(frame) == frame < now /\ Wrap(frame) > Wrap(now)

(***************************************************************************)
(* A SaveGameState request.  GGRS saves every frame before advancing from  *)
(* it, which `saved` records.                                              *)
(***************************************************************************)
Save(depth, frame) ==
    /\ AcrossWrap(frame) => now - frame <= LagAcrossWrap
    /\ confirmed' = frame
    /\ store' = SaveChain(store, depth, Wrap(frame), Wrap(now), Datum(now, Stored(resource)))
    /\ saved' = TRUE
    /\ loaded' = FALSE
    /\ UNCHANGED <<now, strategy, resource>>

\* The game inserts, changes or removes the resource.
Advance(r) ==
    /\ saved
    /\ now < MaxNow
    /\ now' = now + 1
    /\ resource' = r
    /\ saved' = FALSE
    /\ loaded' = FALSE
    /\ UNCHANGED <<confirmed, strategy, store>>

\* Variant: a resource that was absent when the snapshot was taken is left alone.
Restored_NoRemove(r, stored) ==
    CASE r # None /\ stored # None -> S!Update(strategy, r, stored)
      [] r # None /\ stored = None -> r
      [] r = None /\ stored # None -> S!Load(strategy, stored)
      [] r = None /\ stored = None -> None

\* The match in ResourceSnapshotPlugin::load.
Restored(r, stored) ==
    CASE r # None /\ stored # None -> S!Update(strategy, r, stored)
      [] r # None /\ stored = None -> None
      [] r = None /\ stored # None -> S!Load(strategy, stored)
      [] r = None /\ stored = None -> None

(***************************************************************************)
(* A LoadGameState request for a frame that is stored.  It names an i32,   *)
(* which stands for the last frame of that number.                         *)
(***************************************************************************)
LoadResource(frame) ==
    /\ now - frame < 2 * Half
    /\ CanRollback(store, Wrap(frame))
    /\ store' = Rollback(store, Wrap(frame))
    /\ resource' = Restored(resource, Get(store').value)
    /\ now' = frame
    /\ saved' = TRUE
    /\ loaded' = TRUE
    /\ UNCHANGED <<confirmed, strategy>>

Next ==
    \/ \E depth \in Depths, frame \in (now - Lag) .. (now + Lead) : Save(depth, frame)
    \/ \E r \in [Fields -> FieldValues] \union {None} : Advance(r)
    \/ \E frame \in Start .. now : LoadResource(frame)

Spec == Init /\ [][Next]_vars

----------------------------------------------------------------------------
(***************************************************************************)
(* Every stored frame number is an i32, the data are what the strategy     *)
(* stores, and the resource is a value of its type.                        *)
(***************************************************************************)
TypeOK ==
    /\ now \in Start .. MaxNow
    /\ confirmed \in (Start - Lag - 1) .. (MaxNow + Lead)
    /\ strategy \in {"Copy", "Clone", "Reflect"}
    /\ resource \in S!Targets \union {None}
    /\ store.depth \in Nat
    /\ \A i \in Positions(store.entries) :
          /\ store.entries[i].frame \in I32
          /\ store.entries[i].data \in [at : Start .. MaxNow, value : StoredValues]
    /\ saved \in BOOLEAN /\ loaded \in BOOLEAN

(***************************************************************************)
(* The queue is newest first by real frame, although only wrapped numbers  *)
(* are stored, holds no frame of an abandoned timeline, and is never       *)
(* longer than the prediction window of the last save.                     *)
(***************************************************************************)
NewestFirst ==
    LET q == store.entries
    IN  /\ \A i, j \in Positions(q) : i < j => q[i].data.at > q[j].data.at
        /\ \A i \in Positions(q) : q[i].data.at <= now /\ q[i].frame = Wrap(q[i].data.at)
        /\ Len(q) <= store.depth

RealFrames == {store.entries[i].data.at : i \in Positions(store.entries)}

HistOf ==
    [f \in RealFrames |->
        LET i == CHOOSE i \in Positions(store.entries) : store.entries[i].data.at = f
        IN  store.entries[i].data.value]

History == INSTANCE SnapshotHistory WITH
              Data   <- StoredValues,
              depth  <- store.depth,
              hist   <- HistOf,
              loaded <- IF loaded THEN {Stored(resource)} ELSE {}

(***************************************************************************)
(* The plugin implements SnapshotHistory: a save forgets only abandoned,   *)
(* confirmed or depth-exceeding frames, and after a load the resource is   *)
(* what was last saved for that very frame, present or absent, in all that *)
(* the strategy stores.                                                    *)
(***************************************************************************)
ImplementsHistory == History!Spec
=============================================================================
