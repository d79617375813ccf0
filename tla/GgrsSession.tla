---------------------------- MODULE GgrsSession ----------------------------
(***************************************************************************)
(* The sessions of the external crate `ggrs`, as far as bevy_ggrs can see  *)
(* them: the list of requests one call of advance_frame returns.  Frames   *)
(* start at 0; the state at frame f is the result of the inputs of frames  *)
(* 0 .. f - 1, and inputs[f + 1] is the input of frame f.                  *)
(***************************************************************************)
EXTENDS Integers, Sequences

NullFrame == -1

(***************************************************************************)
(* Requests.  In ggrs an AdvanceFrame request carries only the inputs; its *)
(* frame is recorded here so that properties can refer to it.              *)
(***************************************************************************)
SaveGameState(frame) == [type |-> "Save", frame |-> frame]
LoadGameState(frame) == [type |-> "Load", frame |-> frame]
AdvanceFrame(frame, input) == [type |-> "Advance", frame |-> frame, input |-> input]

(***************************************************************************)
(* Going from frame `from` to frame `to`, every new frame being saved.     *)
(***************************************************************************)
Resimulation(from, to, inputs) ==
    [i \in 1 .. 2 * (to - from) |->
        IF i % 2 = 1
        THEN AdvanceFrame(from + (i \div 2), inputs[from + (i \div 2) + 1])
        ELSE SaveGameState(from + (i \div 2))]

(***************************************************************************)
(* advance_frame of a P2PSession and of a SyncTestSession: in the first    *)
(* frame of a P2P session save it, roll back when `load` is a frame, save  *)
(* the current frame, and advance unless the session has to wait.          *)
(***************************************************************************)
CorrectAndSave(current, load, inputs) ==
    IF load = NullFrame
    THEN <<SaveGameState(current)>>
    ELSE <<LoadGameState(load)>> \o Resimulation(load, current, inputs)

Proceed(current, advance, inputs) ==
    IF advance THEN <<AdvanceFrame(current, inputs[current + 1])>> ELSE <<>>

P2PRequests(current, load, advance, inputs) ==
    (IF current = 0 THEN <<SaveGameState(0)>> ELSE <<>>)
        \o CorrectAndSave(current, load, inputs)
        \o Proceed(current, advance, inputs)

SyncTestRequests(current, load, inputs) ==
    CorrectAndSave(current, load, inputs) \o Proceed(current, TRUE, inputs)

(***************************************************************************)
(* advance_frame of a SpectatorSession only advances, by more than one     *)
(* frame when it is catching up.                                           *)
(***************************************************************************)
SpectatorRequests(current, count, inputs) ==
    [i \in 1 .. count |-> AdvanceFrame(current + i - 1, inputs[current + i])]
=============================================================================
