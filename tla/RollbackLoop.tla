---------------------------- MODULE RollbackLoop ----------------------------
(***************************************************************************)
(* The loop of src/schedule_systems.rs: one step of the fixed timestep     *)
(* asks the session for requests, handle_requests executes them one by one *)
(* on the world with the snapshot storage of src/snapshot/mod.rs.          *)
(*                                                                         *)
(* The rollback state of the world is represented by the inputs that made  *)
(* it: AdvanceWorld is deterministic, so two equal input sequences from    *)
(* the same origin stand for equal states.  All snapshot plugins push,     *)
(* confirm and roll back at the same points with the same frames, so one   *)
(* storage of whole worlds stands for all of them.                         *)
(***************************************************************************)
EXTENDS GgrsSnapshots, GgrsSession, FiniteSets

CONSTANTS Remotes,          \* the remote players of a P2P session
          Inputs,           \* their inputs
          DefaultInput,     \* Default::default() of the input type
          Disconnected,     \* what a disconnected player contributes
          MaxPrediction,    \* max_prediction() of the session
          CheckDistance,    \* check_distance() of a SyncTest session
          InputDelay,       \* input delay of the local players
          CatchUp,          \* frames a spectator may advance in one step
          Kinds,            \* the kinds of session the user inserts
          MaxSessions,      \* bound: sessions inserted one after the other
          MaxFrame          \* bound: frames simulated in a session

ASSUME RollbackLoopAssumption ==
    /\ Kinds \subseteq {"P2P", "SyncTest", "Spectator"}
    /\ DefaultInput \in Inputs /\ Disconnected \notin Inputs
    /\ MaxPrediction \in Nat \ {0}
    /\ CheckDistance \in Nat \ {0} /\ CheckDistance < MaxPrediction
    /\ InputDelay \in Nat
    /\ CatchUp \in Nat \ {0}
    /\ MaxSessions \in Nat
    /\ MaxFrame \in Nat /\ MaxFrame < Half

VARIABLES
    \* resources of bevy_ggrs
    frame,        \* RollbackFrameCount
    confirmed,    \* ConfirmedFrameCount
    window,       \* MaxPredictionWindow
    store,        \* the snapshots
    world,        \* the rollback state: where it started and the inputs since
    requests,     \* the requests handle_requests has not executed yet
    panicked,     \* rollback() found no snapshot
    \* the session of the user
    kind,         \* the variant of the Session resource, or "None"
    sessions,     \* sessions inserted so far
    current,      \* the session's current frame
    inputs,       \* the inputs it has handed out for frames 0 .. current - 1
    received,     \* remote player -> the inputs received from it
    gone,         \* disconnected remote players
    localLast     \* last frame with local inputs

bevyVars == <<frame, confirmed, window, store, world, panicked>>
peerVars == <<received, gone>>
vars == <<frame, confirmed, window, store, world, requests, panicked,
          kind, sessions, current, inputs, received, gone, localLast>>

PlayerInputs == [Remotes -> Inputs \union {Disconnected}]

Smallest(S) == CHOOSE x \in S : \A y \in S : x <= y

Origin(session) == [origin |-> session, inputs |-> <<>>]

Init ==
    /\ frame = 0
    /\ confirmed = 0
    /\ window = 0
    /\ store = EmptySnapshots
    /\ world = Origin(0)
    /\ requests = <<>>
    /\ panicked = FALSE
    /\ kind = "None"
    /\ sessions = 0
    /\ current = 0
    /\ inputs = <<>>
    /\ received = [p \in Remotes |-> <<>>]
    /\ gone = {}
    /\ localLast = NullFrame

Idle == requests = <<>> /\ ~ panicked

----------------------------------------------------------------------------
(* The user and the network. *)

(***************************************************************************)
(* The user inserts a Session resource.  A session is inserted at start-up *)
(* or after a step without session has reset the frame counters.  The      *)
(* state the world is in becomes the origin of the session.                *)
(***************************************************************************)
InsertSession(k) ==
    /\ Idle
    /\ kind = "None"
    /\ frame = 0
    /\ sessions < MaxSessions
    /\ kind' = k
    /\ sessions' = sessions + 1
    /\ current' = 0
    /\ inputs' = <<>>
    /\ received' = [p \in Remotes |-> <<>>]
    /\ gone' = {}
    /\ localLast' = NullFrame
    /\ world' = Origin(sessions)
    /\ UNCHANGED <<frame, confirmed, window, store, panicked, requests>>

RemoveSession ==
    /\ Idle
    /\ kind # "None"
    /\ kind' = "None"
    /\ UNCHANGED <<bevyVars, requests, sessions, current, inputs, peerVars, localLast>>

(***************************************************************************)
(* poll_remote_clients: the next input of a remote player arrives.  The    *)
(* peer runs the same session, so it is at most its own prediction window  *)
(* and input delay ahead of the last local input it knows.                 *)
(***************************************************************************)
ReceiveInput(p, input) ==
    /\ Idle
    /\ kind = "P2P"
    /\ p \notin gone
    /\ Len(received[p]) <= localLast + MaxPrediction + InputDelay + 1
    /\ Len(received[p]) <= MaxFrame
    /\ received' = [received EXCEPT ![p] = Append(@, input)]
    /\ UNCHANGED <<bevyVars, requests, kind, sessions, current, inputs, gone, localLast>>

DisconnectPlayer(p) ==
    /\ Idle
    /\ kind = "P2P"
    /\ p \notin gone
    /\ gone' = gone \union {p}
    /\ UNCHANGED <<bevyVars, requests, kind, sessions, current, inputs, received, localLast>>

----------------------------------------------------------------------------
(* The session's decisions in advance_frame. *)

(***************************************************************************)
(* The input GGRS hands out for player p in frame f: the real one, or the  *)
(* last one received when it has not arrived yet.                          *)
(***************************************************************************)
InputOf(p, f) ==
    LET known == received[p]
    IN  CASE f < Len(known)                -> known[f + 1]
          [] f >= Len(known) /\ p \in gone -> Disconnected
          [] OTHER -> IF known = <<>> THEN DefaultInput ELSE known[Len(known)]

(***************************************************************************)
(* P2PSession::confirmed_frame: the last frame for which every connected   *)
(* player's input is known.                                                *)
(***************************************************************************)
ConfirmedFrame(last) ==
    Smallest({last} \union {Len(received[p]) - 1 : p \in Remotes \ gone})

\* Frames already simulated with an input that turned out to be wrong.
Incorrect ==
    {f \in 0 .. (current - 1) :
        \E p \in Remotes :
            /\ f < Len(received[p]) \/ p \in gone
            /\ inputs[f + 1][p] # InputOf(p, f)}

FirstIncorrect == IF Incorrect = {} THEN NullFrame ELSE Smallest(Incorrect)

FramesAhead ==
    LET last == Smallest({ConfirmedFrame(localLast), current})
    IN  IF last = NullFrame THEN current ELSE current - last

\* inputs, corrected from frame `from` on, up to and including frame `to`.
Corrected(from, to) ==
    [i \in 1 .. (to + 1) |->
        IF i <= from THEN inputs[i] ELSE [p \in Remotes |-> InputOf(p, i - 1)]]

----------------------------------------------------------------------------
(* One step of the fixed timestep, run_ggrs_schedules. *)

(***************************************************************************)
(* run_p2p on a session in state Running.  (In any other state it hands no *)
(* input to the session and handles no request.)                           *)
(***************************************************************************)
RunP2P ==
    LET load    == FirstIncorrect
        advance == FramesAhead < MaxPrediction /\ current < MaxFrame
        from    == IF load = NullFrame THEN current ELSE load
        to      == IF advance THEN current ELSE current - 1
    IN  /\ Idle
        /\ kind = "P2P"
        /\ inputs' = Corrected(from, to)
        /\ current' = to + 1
        /\ localLast' = current + InputDelay
        /\ requests' = P2PRequests(current, load, advance, inputs')
        /\ UNCHANGED <<bevyVars, kind, sessions, peerVars>>

(***************************************************************************)
(* run_synctest: from frame CheckDistance + 1 on, every step rolls back    *)
(* CheckDistance frames and simulates them again with the same inputs.     *)
(***************************************************************************)
RunSyncTest(input) ==
    LET load == IF current > CheckDistance THEN current - CheckDistance ELSE NullFrame
    IN  /\ Idle
        /\ kind = "SyncTest"
        /\ current < MaxFrame
        /\ inputs' = Append(inputs, input)
        /\ current' = current + 1
        /\ requests' = SyncTestRequests(current, load, inputs')
        /\ UNCHANGED <<bevyVars, kind, sessions, peerVars, localLast>>

(***************************************************************************)
(* run_spectator: the host's confirmed inputs for the next frames are      *)
(* there.  (Otherwise the error PredictionThreshold is only logged.)       *)
(***************************************************************************)
RunSpectator(hostInputs) ==
    /\ Idle
    /\ kind = "Spectator"
    /\ current + Len(hostInputs) <= MaxFrame
    /\ inputs' = inputs \o hostInputs
    /\ current' = current + Len(hostInputs)
    /\ requests' = SpectatorRequests(current, Len(hostInputs), inputs')
    /\ UNCHANGED <<bevyVars, kind, sessions, peerVars, localLast>>

(***************************************************************************)
(* The step without a session resets the frame counters, and nothing else: *)
(* the snapshots and the world stay as they are.                           *)
(***************************************************************************)
RunWithoutSession ==
    /\ Idle
    /\ kind = "None"
    /\ frame' = 0
    /\ confirmed' = -1
    /\ window' = 8
    /\ UNCHANGED <<store, world, panicked, requests, kind, sessions, current, inputs, peerVars, localLast>>

----------------------------------------------------------------------------
(* handle_requests, one request per step. *)

SessionMaxPrediction == IF kind = "Spectator" THEN 0 ELSE MaxPrediction

\* Variant: the frame a P2P session is at counts as confirmed.
SessionConfirmedFrame_Current ==
    CASE kind = "P2P"       -> frame
      [] kind = "SyncTest"  -> IF frame >= CheckDistance THEN frame - CheckDistance
                                                         ELSE confirmed
      [] kind = "Spectator" -> frame

SessionConfirmedFrame ==
    CASE kind = "P2P"       -> ConfirmedFrame(localLast)
      [] kind = "SyncTest"  -> IF frame >= CheckDistance THEN frame - CheckDistance
                                                         ELSE confirmed
      [] kind = "Spectator" -> frame

(***************************************************************************)
(* What handle_requests does before each request.                          *)
(***************************************************************************)
NextRequest(type) ==
    /\ requests # <<>> /\ ~ panicked
    /\ Head(requests).type = type
    /\ requests' = Tail(requests)
    /\ window' = SessionMaxPrediction
    /\ confirmed' = SessionConfirmedFrame
    /\ UNCHANGED <<kind, sessions, current, inputs, peerVars, localLast>>

\* SaveWorld saves under RollbackFrameCount, not under the frame of the request.
HandleSave ==
    /\ NextRequest("Save")
    /\ store' = SaveChain(store, window', confirmed', frame, world)
    /\ UNCHANGED <<frame, world, panicked>>

\* Variants: RollbackFrameCount is not set; it is set after LoadWorld has run;
\* the snapshots are rolled back, the world is not.
HandleLoad_KeepCount ==
    /\ NextRequest("Load")
    /\ CanRollback(store, Head(requests).frame)
    /\ store' = Rollback(store, Head(requests).frame)
    /\ world' = Get(store')
    /\ UNCHANGED <<frame, panicked>>

HandleLoad_CountLate ==
    /\ NextRequest("Load")
    /\ CanRollback(store, frame)
    /\ store' = Rollback(store, frame)
    /\ world' = Get(store')
    /\ frame' = Head(requests).frame
    /\ UNCHANGED panicked

HandleLoad_KeepWorld ==
    /\ NextRequest("Load")
    /\ frame' = Head(requests).frame
    /\ CanRollback(store, frame')
    /\ store' = Rollback(store, frame')
    /\ UNCHANGED <<world, panicked>>

HandleLoad ==
    /\ NextRequest("Load")
    /\ frame' = Head(requests).frame
    /\ \/ /\ CanRollback(store, frame')
          /\ store' = Rollback(store, frame')
          /\ world' = Get(store')
          /\ UNCHANGED panicked
       \/ /\ ~ CanRollback(store, frame')
          /\ panicked' = TRUE
          /\ UNCHANGED <<store, world>>

HandleAdvance ==
    /\ NextRequest("Advance")
    /\ frame' = frame + 1
    /\ world' = [world EXCEPT !.inputs = Append(@, Head(requests).input)]
    /\ UNCHANGED <<store, panicked>>

----------------------------------------------------------------------------
RunSession ==
    \/ RunP2P
    \/ \E input \in [Remotes -> Inputs] : RunSyncTest(input)
    \/ \E n \in 1 .. CatchUp : \E host \in [1 .. n -> [Remotes -> Inputs]] : RunSpectator(host)

HandleRequest == HandleSave \/ HandleLoad \/ HandleAdvance

Next ==
    \/ \E k \in Kinds : InsertSession(k)
    \/ RemoveSession
    \/ \E p \in Remotes, input \in Inputs : ReceiveInput(p, input)
    \/ \E p \in Remotes : DisconnectPlayer(p)
    \/ RunSession
    \/ RunWithoutSession
    \/ HandleRequest

(***************************************************************************)
(* handle_requests runs to its end, and the schedule runs again and again. *)
(* Nothing is assumed of the user and of the network.                      *)
(***************************************************************************)
Fairness == WF_vars(HandleRequest) /\ WF_vars(RunP2P)

Spec == Init /\ [][Next]_vars /\ Fairness

----------------------------------------------------------------------------
Worlds == [origin : 0 .. MaxSessions, inputs : Seq(PlayerInputs)]

Requests ==
    [type : {"Save", "Load"}, frame : 0 .. MaxFrame]
        \union [type : {"Advance"}, frame : 0 .. MaxFrame, input : PlayerInputs]

(***************************************************************************)
(* Every resource has its type: frame numbers stay within the session, the *)
(* session has handed out exactly one input per simulated frame, and       *)
(* ConfirmedFrameCount is at most the input delay ahead.                   *)
(***************************************************************************)
TypeOK ==
    /\ frame \in 0 .. MaxFrame
    /\ confirmed \in -1 .. (MaxFrame + InputDelay)
    /\ window \in Nat
    /\ store \in [entries : Seq([frame : 0 .. MaxFrame, data : Worlds]), depth : Nat]
    /\ world \in Worlds
    /\ requests \in Seq(Requests)
    /\ panicked \in BOOLEAN
    /\ kind \in Kinds \union {"None"}
    /\ sessions \in 0 .. MaxSessions
    /\ current \in 0 .. MaxFrame
    /\ inputs \in Seq(PlayerInputs) /\ Len(inputs) = current
    /\ received \in [Remotes -> Seq(Inputs)]
    /\ gone \in SUBSET Remotes
    /\ localLast \in -1 .. (MaxFrame + InputDelay)

(***************************************************************************)
(* When the requests of a step are done, RollbackFrameCount is the         *)
(* session's current frame, and the world is the result of exactly the     *)
(* inputs the session has settled on, from where this session started: a   *)
(* rollback restores the right snapshot and never one of an older session. *)
(***************************************************************************)
WorldFollowsSession ==
    (Idle /\ kind # "None") =>
        /\ frame = current
        /\ world.inputs = inputs
        /\ world.origin = sessions - 1

(***************************************************************************)
(* From the first save of a session on, every snapshot it could load is    *)
(* the state of that very frame on the timeline the session is on, and     *)
(* none is left of an older session; while a Load is pending, up to the    *)
(* frame it loads.                                                         *)
(***************************************************************************)
HasSaved ==
    /\ kind \in {"P2P", "SyncTest"}
    /\ current > 0
    /\ requests # <<>> => Head(requests) # SaveGameState(0)

Trusted ==
    IF requests # <<>> /\ Head(requests).type = "Load" THEN Head(requests).frame ELSE frame

SnapshotsOnTimeline ==
    (HasSaved /\ ~ panicked) =>
        \A i \in Positions(store.entries) :
            LET e == store.entries[i]
            IN  e.frame <= Trusted =>
                    e.data = [origin |-> sessions - 1, inputs |-> SubSeq(inputs, 1, e.frame)]

(***************************************************************************)
(* GGRS and bevy_ggrs agree on the frame of every request: a snapshot is   *)
(* saved, and a frame simulated, under the number GGRS means.              *)
(***************************************************************************)
FramesAgree ==
    (requests # <<>> /\ ~ panicked /\ Head(requests).type # "Load") => Head(requests).frame = frame

(***************************************************************************)
(* A rollback finds its snapshot, whenever it goes to a frame other than   *)
(* the first.  (For the first frame see NeverPanics.)                      *)
(***************************************************************************)
LoadsAreStored ==
    (requests # <<>> /\ Head(requests).type = "Load" /\ Head(requests).frame > 0) =>
        CanRollback(store, Head(requests).frame)

(***************************************************************************)
(* A rollback never goes to a frame that was confirmed, or before it: what *)
(* was despawned or discarded for good on behalf of ConfirmedFrameCount is *)
(* never needed again.                                                     *)
(***************************************************************************)
ConfirmedStaysConfirmed ==
    [][HandleLoad => frame' > confirmed]_vars

(***************************************************************************)
(* docs/architecture.md: the queue is always deep enough to roll back to   *)
(* any frame GGRS might request.                                           *)
(***************************************************************************)
NeverPanics == ~ panicked

(***************************************************************************)
(* An input that has arrived for a frame already simulated ends up in the  *)
(* world, unless the session is removed or the rollback panics.            *)
(***************************************************************************)
Reflects(p, f) ==
    IF f < Len(world.inputs) /\ f < Len(received[p])
    THEN world.inputs[f + 1][p] = received[p][f + 1]
    ELSE FALSE

InputsTakeEffect ==
    \A p \in Remotes, f \in 0 .. (MaxFrame - 1) :
        (kind = "P2P" /\ f < Len(received[p]) /\ f < current)
            ~> (panicked \/ kind # "P2P" \/ Reflects(p, f))
=============================================================================
