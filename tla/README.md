# bevy_ggrs in TLA+

A model of the rollback machinery of bevy_ggrs: how the requests of a GGRS
session are executed on a Bevy world (`src/schedule_systems.rs`), how snapshots
are stored and found again (`src/snapshot/mod.rs`), and how entities, their
components and their relationships survive a rollback (the other files of
`src/snapshot/`), how the checksums of a SyncTest session tell whether they did,
and how real time becomes frames and frames become game time (`src/time.rs`). TLC
checks it on small instances; TLAPS proves the safety properties of the storage, of
the request loop, of the entities under rollback, of the checksums and of the clock
for every instance. All paths below are relative to the repository.

## 1. The system

| Component | State | Operations |
|---|---|---|
| Request loop, `src/schedule_systems.rs` | `Session`, `RollbackFrameCount`, `ConfirmedFrameCount`, `MaxPredictionWindow`, time accumulator | `run_ggrs_schedules` runs zero or more steps; a step asks the session for requests (`run_p2p`, `run_synctest`, `run_spectator`), or without session resets the counters; `handle_requests` executes Save, Load and Advance one by one |
| Snapshot storage, `src/snapshot/mod.rs` | two queues (frames, snapshots) and a depth, one resource per registered type | `set_depth`, `push`, `confirm`, `rollback`, `get`; the system chain `sync_depth`, `discard_old_snapshots`, `save` |
| Entity snapshot, `entity.rs`, `rollback_entity_map.rs` | RollbackId -> Entity per frame; the map of the last load | `save`, `load` (despawn, spawn again, fill the map) |
| Ids and order, `rollback.rs` | `RollbackId`, `RollbackOrdered` | on_add hook, `push`, `order` |
| Deferred despawn, `despawn.rs` | `RollbackDespawned(frame)`; a `Local` with the last confirmed frame | `despawn_rollback`, `resurrect_entities`, `despawn_confirmed_entities` |
| Component, ChildOf and resource snapshots | one storage each | `save`, `load` |
| Entity mapping, `component_map.rs`, `resource_map.rs` | - | rewrite Entity references after a load |
| Fixed timestep, `src/schedule_systems.rs` | `FixedTimestepData`: accumulator and `run_slow` | add the delta of an update, run a step per frame duration |
| Checksums, `*checksum.rs` | `ChecksumPart` entities, `Checksum` | hash, XOR, handed to GGRS with each save; `SyncTestMismatch` when GGRS finds a difference |
| `GgrsTime`, `src/time.rs` | `Time<GgrsTime>` | follows the frame count; is itself a rolled back resource |
| Strategies, registration | - | how a value is stored; which plugins are added |

**Interaction.** GGRS and bevy_ggrs share no memory: a call of `advance_frame`
returns a list of requests that `handle_requests` executes in order. A Save runs
the schedule SaveWorld (all storages push), a Load sets `RollbackFrameCount` and
runs LoadWorld (resurrect, entities, data, mapping, in that order), an Advance
increments the count and runs AdvanceWorld (despawn what is confirmed, then the
game). Before each request the prediction window and the confirmed frame are
copied from the session into resources, which the storages and the despawn
systems read.

**What is hard.** There are no threads; the difficulty is the order in which
inputs of other peers arrive, and what a long sequence of saves, loads and
advances does to state that is kept in several places: the queue with its depth
limit and its two ways of forgetting, frame numbers that wrap around, marks that
must survive some rollbacks and not others, Entity numbers that change when an
entity is spawned again, storages and a clock that outlive a session, checksums
that must depend on the state and on nothing else. `PROJECT.json` lists
these hazards at their lines.

**What makes it correct.**
- Storage: a save forgets only what no rollback can ask for; a load returns what
  was last saved for that frame.
- Loop: after each step the world is the result of the session's inputs; GGRS and
  bevy_ggrs mean the same frame; a rollback finds its snapshot and never undoes a
  confirmed frame; a late input takes effect.
- Entities: a load restores the saved state, up to the renaming of entities; ids
  stay unique and ordered; a deferred despawn is neither early nor forgotten.
- Checksums: equal states have equal checksums although their Entity numbers
  differ, different ones do not, and a difference is reported.
- Time: no real time is lost; game time is a function of the frame count.

## 2. Modules

| Module | Models | Used by |
|---|---|---|
| `GgrsSnapshots` | the storage as operators on `[entries, depth]` | all below |
| `Strategy` | `strategy.rs`: Copy, Clone and Reflect as operators | `SnapshotQueue` |
| `SnapshotHistory` | abstract: a partial function from frames to saved data | `SnapshotQueue` |
| `SnapshotQueue` | a resource under save, advance, load, on wrapping i32 frames, with any strategy; refines `SnapshotHistory` | |
| `GgrsSession` | request lists of the external sessions | `RollbackLoop`, `GgrsClock`, `SyncTest` |
| `RollbackLoop` | request loop, sessions, late inputs, storage of whole worlds | `MCRollbackLoop` |
| `RollbackWorld` | entities, despawn marks, components, references, parents, order, a resource with a reference, under SaveWorld, LoadWorld, AdvanceWorld | `MCRollbackWorld` |
| `Checksum` | the checksum parts and their XOR as operators | `SyncTest` |
| `SyncTest` | a SyncTest session over a game that may be nondeterministic | |
| `GgrsClock` | fixed timestep and `Time<GgrsTime>` | |
| `GgrsSnapshots_proofs` | lemmas about the storage | all other proofs |
| `SnapshotQueue_proofs` | theorems about the queue on wrapping frames, and its refinement | |
| `RollbackLoop_proofs`, `RollbackLoads_proofs` | theorems about the request loop; the second about which frames can be loaded | |
| `RollbackWorld_proofs`, `RollbackViews_proofs` | theorems about entities; the second about what a load restores | |
| `GgrsClock_proofs` | theorems about the timestep and game time | |
| `SyncTest_proofs` | lemmas about what a checksum tells apart, theorems about what a SyncTest session reports | |

The MC modules only add the symmetry set; the other runs use the module itself.

### GgrsSnapshots
The two queues that every method changes together are one sequence of records,
newest first. Loops that pop while a test holds become `SubSeq` up to the first
position where it does not (`FirstKept`, `LastKept`). `AtOrAfter` is the
wraparound test of `push`, with `Half` for 2^31. `SaveChain` is the chain of
three systems every plugin registers, in its order.

### SnapshotQueue, Strategy and SnapshotHistory
`ResourceSnapshotPlugin` for one resource. `now` is the real, unbounded frame, the
storage sees `Wrap(now)`. Saved data carry the real frame, so the refinement
mapping can read off which frames are held. In a frame the game inserts, changes
or removes the resource; a load goes through the four cases of the code
(`Restored`). A value is a function from fields; `Reflect` stores only the fields
reflection knows, writes only those in an update, and starts from `FromWorld` in a
load. A prediction window is less than 2^31 frames, and a load goes back less than
2^32 frames, so that a frame number means one frame (`SnapshotQueueAssumption`, the
guard of `LoadResource`). In the abstract specification a save may forget frames at or after the
current one, before the confirmed one, or at least `depth` behind, and nothing
else; after a load the resource is what was saved last for the frame, in all that
the strategy stores.

### RollbackLoop and GgrsSession
One step of `run_ggrs_schedules` is one action per kind of session (`RunP2P`,
`RunSyncTest`, `RunSpectator`, `RunWithoutSession`); it leaves the list of
requests, which `HandleSave`, `HandleLoad` and `HandleAdvance` work off one at a
time. `NextRequest` is what the loop does before every request. Between steps
the user inserts or removes a session and inputs arrive (`ReceiveInput`, in
order per player, in any order between players) or a player disconnects.

The rollback state of the world is represented by the inputs that produced it,
together with the session at whose start it began. That is exact if
AdvanceWorld is deterministic, which bevy_ggrs requires of its user, and it makes
"the right state" a statement about input sequences. One storage stands for all:
every plugin runs the same chain with the same frames.

`ggrs` is an external crate. Its sessions are modelled by what bevy_ggrs
observes: the order of requests, prediction by repeating the last input, the
confirmed frame as the minimum over connected players (local players included,
so with input delay it may be ahead of the current frame), and the threshold that
stops the session from advancing while it still saves.

### RollbackWorld
A world is a function from live Entity numbers to records (RollbackId, despawn
mark, a plain component, a component that holds a reference, parent). Entity
numbers are never reused. `LoadWorld` is the composition of the systems in the
order of `LoadWorldSystems` (`Family`, the entities that are despawned or marked with
one, is the smallest set closed under children): `Resurrect`, `EntityMap` and `LoadEntities`,
`LoadComponents` (an immutable component), `LoadRefs` (a mutable one) and
`LoadChildOf`, `MapComponents` and `MapResource`. The map keeps the directions
the code gives it. Every `Advance...` action is one frame: first
`DespawnConfirmed`, then one thing a game may do. `GameOps` selects which, so
that a run can say for which games a property holds. `View` is the state with
Entity numbers replaced by RollbackIds: what a rollback has to restore.
Saves and loads come in the orders in which GGRS asks for them: each frame saved before
it is left, and again in every step of a session that has to wait; a load only of
an unconfirmed frame, and resimulated to the end before the next load. The confirmed
frame is that of a P2P session: it moves only between steps and never back. A SyncTest
session, whose confirmed frame follows the frame count back, and a Spectator session are
in `RollbackLoop`, without entities.

### Checksum and SyncTest
Hashes are taken to be free of collisions, so a hash is a record of what was
hashed, and the XOR of hashes is the set of those that occur an odd number of
times. A component's hash has the place of its entity in `RollbackOrdered`, not
the RollbackId; the entity part has the number of active and of registered
entities. `UpdateParts` is the set `SaveWorldSystems::Checksum`: parts are entities
of their own that are updated in place and not rolled back.

`SyncTest` executes the requests of a SyncTest session on such states. In a frame
the game does one of `Ops`; when it resimulates the frame it does the same again,
except that a `Leaky` game may once do something else. Resimulations spawn under
new Entity numbers, as in Bevy. The session (external) keeps the first checksum of
every frame it may still compare and refuses to advance when a later one differs;
`run_synctest` turns that into `SyncTestMismatch` and executes nothing
(`RunMismatched`). `first` and `diverged` record what really happened. `HandleLoad` has no
branch for the panic of `rollback`: that a SyncTest session finds its snapshots is
`LoadsAreStored` of `RollbackLoop`.

### GgrsClock
An update of the App is `BeginUpdate` (fix the frame duration, add the delta), then
a step per frame duration and the requests it leads to, then `EndUpdate`. The
steps are those of the three kinds of session, one that leads to no request
(`StepInVain`: not yet running, or an error), and the one without a session, which
resets the accumulator and the counters. `frames_ahead()` is free, so `run_slow`
may change in every step. P2P requests are free as far as GGRS is: any rollback to
a stored frame that is not confirmed (the panic for one that is not stored is in
`RollbackLoop`). Durations are integers with `Second` units
in a second; the divisions are those of the code, rounded down. `HandleAdvance` is
`GgrsTimePlugin::update` and `replace_default_with_ggrs`; `seen` is what the systems
of the game last read as `Res<Time>`. The value `Time<()>` has between frames
(`Time<Virtual>`) only matters as the delta of the next update, which is free.

## 3. Runs

Passing:

| Run | Instance | Shows |
|---|---|---|
| `snapshot` | 3-bit frames 0 to 7 (wrap at 4), depth 2 or 3, confirmed 4 behind to 2 ahead (1 behind across the wraparound), two fields of which reflection knows one | `TypeOK`; `NewestFirst`: the queue is ordered by real frame, although it stores wrapped ones; `ImplementsHistory` |
| `rollback_sessions` | two sessions of any kind in a row, window 2, 4 frames | `TypeOK`, `WorldFollowsSession`, `SnapshotsOnTimeline`: nothing of the first session is visible in the second; `InputsTakeEffect`: a late input ends up in the world |
| `rollback_peers` | two remote players, window 3, input delay 1, 4 frames | `WorldFollowsSession`, `FramesAgree`, `LoadsAreStored`, `ConfirmedStaysConfirmed` |
| `world_despawn_rollback` | three entities with children and references, 5 frames, `despawn_rollback` | `LoadRestoresView`, `DespawnIsDeferred`, `NoMarkOutlivesConfirmation` |
| `world_despawn` | four Entity numbers, two component values, plain despawn, children, a resource that refers to an entity | `LoadRestoresComponents`, `OrderIsTotal`, `ResourceFollowsRespawn` |
| `clock` | 3 frames in 200 units (a frame is 66, a slow one 73, rounded), deltas 50 and 150, two sessions of any kind, 4 frames | `ClockFollowsFrames`, `RealTimeKept`, `GameTimeNotAhead`, `UpdateEnds` |
| `synctest` | check distance 3, 5 frames, two entities at the start and one more, one component, one resource | `MismatchIsExact`: no false alarm and no frame left out; `DeterminismAccepted`: a game that always does the same is never accused; `DivergenceReported` |

Disagreements with what the repository says of itself (each run checks the one
property and TLC finds a counterexample):

| Run | What the code does |
|---|---|
| `rollback_panic` | A window of P frames allows P + 1 saves while nothing is confirmed; the queue holds P. A first input that differs from the prediction asks for frame 0, which is gone, and `rollback` panics. `docs/architecture.md:52` says the queue is always deep enough. |
| `clock_restart` | `Time<GgrsTime>` is not reset between sessions. In the second one the first frame has delta 0, or `advance_to` panics. `src/time.rs:28` guarantees that exactly `RollbackFrameCount` frames are reflected. |
| `world_respawn` | References held by an entity that a rollback spawned again are not mapped. |
| `world_reparent` | Despawning an entity of the abandoned timeline takes along an older entity that had become its child. |
| `world_childof` | After an earlier rollback spawned a parent again, the saved parent is no key of the map (for living entities it goes from current to saved), and the child loses it. |

Seen while modelling, without a run of their own:
- `confirm` compares frame numbers with a plain `<`. With a confirmed frame two or
  more behind (`LagAcrossWrap = 2`), a save just after the wraparound discards
  snapshots newer than the confirmed frame and `ImplementsHistory` fails.
- `despawn_rollback` on a parent replaces the mark of a child despawned earlier; a
  rollback between the two marks deletes the child for good. With `despawn_again`
  in `GameOps`, `DespawnIsDeferred` fails.
- With two resources of the same layout the XOR of equal parts cancels, as the
  comment at `src/snapshot/checksum.rs:91` says; with `Resources = {r1, r2}`,
  `MismatchIsExact` fails.
- `docs/architecture.md` (Entity Reconciliation) gives the map the pair new to old
  for an entity spawned again; `entity.rs` inserts old to new. The same document
  says a frame is exactly `1 / RollbackFrameRate`; it is rounded down to a nanosecond.

**Bounds.** The window, the number of frames and the number of players are the
constants that matter. Windows of 2 and 3 with 4 to 5 frames let the queue fill,
evict, be confirmed and roll back more than once; two remote players give two
corrections of which the later one goes further back. `Half = 4` makes the frame number
wrap in the middle of the run; `Half = 1000` keeps it away. In `clock`,
`MaxReal = 500` allows updates of up to three steps, the last one made of rests; the
rate does not divide the second, so rounding matters. In `synctest` the session
resimulates once, from frame 1 to 4, and compares the two frames that were saved
twice; either or both may have diverged, after entities were spawned and despawned
in any of the frames before. Three or four Entity numbers are enough for a
grandparent chain or for an entity to be spawned again
twice. All runs but `snapshot` switch deadlock checking off because a bound
(`MaxFrame`, `MaxEntity`, `MaxSessions`, `MaxReal`) ends the exploration.

**Fairness.** Three properties need it.
- `InputsTakeEffect`: `RollbackLoop` assumes weak fairness of `HandleRequest`, because
  `handle_requests` is a loop that runs to its end, and of `RunP2P`, because
  `run_ggrs_schedules` is a system of a schedule Bevy runs every frame. Nothing is
  assumed of the network or of the user: the property speaks of inputs that have
  arrived, and a removed session or a panic ends the obligation.
- `UpdateEnds`: `GgrsClock` assumes weak fairness of `Update`, since an update is one
  call that runs until it returns. Nothing says that another one begins.
- `DivergenceReported`: `SyncTest` assumes weak fairness of `Next`: the schedule runs
  again and again, and `handle_requests` ends.

## 4. Proofs

Every theorem holds for all constants that satisfy the named assumption of its
module (`HalfAssumption`, `SnapshotQueueAssumption`, `RollbackLoopAssumption`,
`RollbackWorldAssumption`, `ChecksumAssumption`, `SyncTestAssumption`,
`GgrsClockAssumption`), which TLC evaluates in the runs.
Seven theorems (four about `RollbackWorld`, two about `SyncTest`, and the refinement)
have a hypothesis of their own; a run, or a variation of one named in section 3,
shows that without it the statement is false or that the code is not meant to satisfy
it.

| Module | Theorem | Statement |
|---|---|---|
| `SnapshotQueue_proofs` | `TypeCorrect` | `Spec => []TypeOK` |
| | `NewestFirstAlways` | `Spec => []NewestFirst` |
| | `StorageImplementsHistory` | `ConfirmsInTime` implies `Spec => ImplementsHistory` |
| `RollbackLoop_proofs` | `TypeCorrect` | `Spec => []TypeOK` |
| | `WorldFollowsSessionAlways` | `Spec => []WorldFollowsSession` |
| | `SnapshotsOnTimelineAlways` | `Spec => []SnapshotsOnTimeline` |
| | `FramesAgreeAlways` | `Spec => []FramesAgree` |
| `RollbackLoads_proofs` | `LoadsAreStoredAlways` | `Spec => []LoadsAreStored` |
| | `ConfirmedStaysConfirmedAlways` | `Spec => ConfirmedStaysConfirmed` |
| `RollbackWorld_proofs` | `OrderIsTotalAlways` | `Spec => []OrderIsTotal` |
| | `NoMarkOutlivesConfirmationAlways` | `Spec => []NoMarkOutlivesConfirmation` |
| `RollbackViews_proofs` | `LoadRestoresComponentsAlways` | `Orderly` implies `Spec => []LoadRestoresComponents` |
| | `ResourceFollowsRespawnAlways` | `Orderly` implies `Spec => ResourceFollowsRespawn` |
| | `LoadRestoresViewAlways` | `Deferring` implies `Spec => []LoadRestoresView` |
| | `DespawnIsDeferredAlways` | `Deferring` implies `Spec => []DespawnIsDeferred` |
| `GgrsClock_proofs` | `RealTimeKeptAlways` | `Spec => []RealTimeKept` |
| | `ClockFollowsFramesAlways` | `Spec => []ClockFollowsFrames` |
| | `GameTimeNotAheadAlways` | `Spec => []GameTimeNotAhead` |
| `SyncTest_proofs` | `MismatchIsExactAlways` | `OneResource` implies `Spec => []MismatchIsExact` |
| | `NoFalseAlarmAlways` | `Spec => []NoFalseAlarm` |
| | `NextStepReportsAlways` | `OneResource` implies `Spec => []NextStepReports` |
| | `DeterminismAcceptedAlways` | `Spec => []DeterminismAccepted` |

**Storage.** `GgrsSnapshots_proofs` has the facts all the others use: what the pop
loops leave, that `Confirm`, `Rollback` and `Push` keep the order, that a rollback ends
at the entry of its frame. `SaveChainShape` and `RollbackShape` say for entries of any
kind, and for frame numbers of any size, that a save puts the new entry in front of a
part of the old queue and that a rollback only takes entries from the front.

**SnapshotQueue.** `NewestFirst` compares real frames, the code compares wrapped ones.
The inductive invariant `QueueInv` says that the stored frames go down from the last
saved one without a gap, and that there are fewer than `Half` of them: then `AtOrAfter` is
right about every stored frame (`WrapFacts`), `push` removes exactly the frames at or
after the present one, and the rest still has no gap. For the refinement, `Hist`
turns the queue into the partial function of `SnapshotHistory`; there is a lemma per
action that it is a step of the abstract specification or a stutter. `ConfirmsInTime`
(the confirmed frame at most one behind across the wraparound, and less than 2^32
behind) is needed because `confirm` compares plain numbers; see section 3.

**RollbackLoop.** `WorldFollowsSession` speaks of the moment when no request is left; on
the way there the world is behind or on an old timeline. The inductive invariant
`IInv` says what is known in the middle of a list:

- `TypeOK`, and the stored frames are strictly descending, so that "pop until
  the frame is found" finds the only entry with that frame;
- `RequestsLeadToCurrent`: the list that is left is a path: each Save is for the
  frame reached so far, each Advance leaves it by one and carries the session's
  input of that frame, a Load jumps back, and the path ends at the session's
  current frame;
- `WorldOnTimeline`: unless a Load is pending, the world is the result of the
  session's inputs up to the present frame;
- `NoSnapshotAhead`: no stored snapshot is ahead of the present frame, so the
  next save leaves nothing of an abandoned timeline behind;
- `SnapshotsOnTimeline` itself, up to the frame of a pending Load.

The snapshots an older session left behind are dealt with by its first Save: frame 0
is at or before every frame that may be stored, and `Push` removes those. That
argument needs frame numbers less than `Half` apart, which `MaxFrame < Half` states.

`RollbackLoads_proofs` adds `LoadInv`: all frames from the oldest that may still be
asked for (`Floor`) to the present one are stored. It rests on the session's side on
how far GGRS runs ahead of what is confirmed (`P2PInv`, `SyncTestInv`), and on the storage's side on
the entries being spread over distinct frames, so that a queue of `MaxPrediction`
entries reaches that far back. It also says why the confirmed frame an earlier
session left behind does not harm the next one. The first frame is not covered:
frame 0 is where the code really loses a snapshot (`rollback_panic`).

**RollbackWorld.** `WorldInv` relates every stored snapshot to the world of the present:
entities of the snapshot are not marked up to its frame, and what is marked up to its frame was
registered then; marks are after the confirmed frame that
`despawn_confirmed_entities` saw last. It holds for every choice of `GameOps`.

What a load restores depends on the families, because a despawn takes a family along. `KinInv`
adds `Kinship` (a parent is there and was registered before its child; the mark of a
child is not later than that of its parent) and, for every entry, what the world
still knows of it: `Seen`, `Parented`, `Numbered`, and `OneTimeline` between two
entries. Then the family of an entity that is not in the snapshot holds no
entity that is (`Survivors`), and the entity map sends the saved Entity of every
RollbackId to the present one. `Orderly` (no entity is adopted by a younger one) is
what makes `Kinship` an invariant; `world_reparent` is the counterexample without it.

For the whole view, `DeferInv` adds that nothing has ever been spawned again (the
RollbackId is the Entity), that `Lasting` holds between the world and every entry, and that a
snapshot later than the confirmed frame has lost none of its entities. `Deferring` (no
plain despawn, no descendant marked twice) is needed: with a plain
despawn `world_respawn` and `world_childof` are counterexamples, with `despawn_again`
the variation in section 3 is one.

**GgrsClock.** `RealTimeKept` says nothing about the accumulator; `TimestepInv` adds that
all real time is in the accumulator or was spent on steps, each a normal or a slow
period, and that less than a slow period is left after an update. It rests on
`Periods`: the rounded slow period is never shorter than the rounded normal one.
`ClockFollowsFrames` is about the time at the present frame, but a load replaces it
by a stored one; `ClockInv` adds that every stored entry is the time of the frame it
is stored under, and that requests are only pending inside an update with a session,
so that the time before the first session is still that of frame 0. `RuntimeGrows`
is why `advance_to` does not panic. `GameTimeNotAhead` needs to know where a list of
requests ends: `PaceInv` says that it leads (`Leads`) to the session's current frame, which is
not ahead of the steps; `RuntimeBound` bounds the rounding.

**SyncTest.** The checksum of a state is a function of its view (`ChecksumOfView`): the
hash of a component holds the place of its entity, so no two component hashes are equal
and none cancels in the XOR (`XorDistinct`), and as many places are active as entities
(`ActiveCount`). No parity has to be counted for that. In the other direction
(`ChecksumTellsApart`) the checksum has all parts and the view can be read off them,
provided that the parts of resources do not cancel: `OneResource`. With two resources of
the same layout the variation in section 3 is a counterexample.

`MismatchIsExact` compares what the session reported with what really diverged. The
inductive invariant `SyncInv` connects the two. `StepInv` says that the requests that are left
are a path to the frame the step began in, which starts at most `CheckDistance` frames
before it; `Saved` are the frames saved so far. By `ChecksumInv` what the session remembers is the
checksum of the first state of a frame, and the cell has that of the last. By
`WindowInv` a step with a rollback begins only when all frames that it saves again are in
the session's history, so a first checksum is never taken from a diverged state, and no
divergence is older than the window. `ReportInv` says that a reported mismatch is what
the session would find again. Whatever does not depend on telling views apart is
proved without the hypothesis, which gives `NoFalseAlarm`.

For `DeterminismAccepted`, `GameInv` follows the game: `PlayView` is what an operation does to
a view, whatever Entities are handed out (`PlayFacts`); the script leads from the first view of each
frame to that of the next, and as long as nothing has leaked, the world and every
stored snapshot are on that way.

**Inductive invariants under TLC.** Each was checked as an invariant before it was
proved: `IInv` and `LoadInv` on the instances of `rollback_sessions` and
`rollback_peers`; `QueueInv` on that of `snapshot`; `WorldInv` with all of `GameOps` (3 Entity
numbers, 4 frames, 174615 states); `KinInv` with all but `reparent` (3 and 4: 251593
states; 5 and 4 without `change` and `refer`: 965555 states); `DeferInv` with
`despawn_rollback`, children and references (456923 states); `PaceInv` on the instance
of `clock` (164372 states); `SyncInv` (its type part
without the infinite sets of states, views and storages) and `GameInv` on that of
`synctest` (209420 states).

**Only model-checked.** The liveness properties (`InputsTakeEffect`, `UpdateEnds`,
`DivergenceReported`), which are out of the prover's reach. Every other property of a
passing run is stated by a theorem.

## 5. Not modelled

- A session replaced by another without a step in between, or by the game in the
  middle of a list of requests. `InsertSession` requires `RollbackFrameCount = 0`.
- `LocalPlayers` and the schedule `ReadInputs`: which inputs are local is part of the
  external session's state.
- The overflow of `RollbackFrameCount` in debug builds, and the wraparound in
  `despawn_rollback`.
- Registration beyond the choice of a strategy: each method adds one plugin once.
- Network protocol, sparse saving and desync detection between peers of `ggrs`.
- Hash collisions.
- Examples, benches and tests.

## 6. Plan

1. Done: storage, strategies and their abstract specification; request loop with
   the three kinds of session; entities and resources under rollback; checksums
   and SyncTest; timestep and game time; the proofs above.
2. Replacing a session while the counters run.
