-------------------------- MODULE SnapshotHistory --------------------------
(***************************************************************************)
(* What a snapshot storage promises the rollback loop, without queues,     *)
(* bounded integers or eviction order: a partial function from frames      *)
(* (unbounded integers) to the data saved for them.                        *)
(*                                                                         *)
(* A save at frame `now` may forget frames of an abandoned timeline (at or *)
(* after `now`), frames before the confirmed one and frames at least       *)
(* `depth` behind, and nothing else.  A load returns exactly the data last *)
(* saved for its frame.                                                    *)
(***************************************************************************)
EXTENDS Integers

CONSTANT Data

VARIABLES now,        \* the frame the simulation is at
          confirmed,  \* ConfirmedFrameCount at the last save
          depth,      \* MaxPredictionWindow at the last save
          hist,       \* frame -> data last saved for it, for the frames still held
          loaded      \* the data of a load that was just done, or nothing

vars == <<now, confirmed, depth, hist, loaded>>

Init ==
    /\ now \in Int
    /\ confirmed \in Int
    /\ depth \in Nat
    /\ hist = [f \in {} |-> f]
    /\ loaded = {}

\* The frames a save must not forget, given its confirmed frame and depth.
Needed(k, d) == {f \in DOMAIN hist : k <= f /\ f < now /\ now - d < f}

Save(value) ==
    /\ \E kept \in SUBSET {f \in DOMAIN hist : f < now} :
          /\ Needed(confirmed', depth') \subseteq kept
          /\ hist' = [f \in kept \union {now} |-> IF f = now THEN value ELSE hist[f]]
    /\ confirmed' \in Int
    /\ depth' \in Nat
    /\ loaded' = {}
    /\ UNCHANGED now

Advance ==
    /\ now' = now + 1
    /\ loaded' = {}
    /\ UNCHANGED <<confirmed, depth, hist>>

Load(frame) ==
    /\ now' = frame
    /\ loaded' = {hist[frame]}
    /\ hist' = [f \in {g \in DOMAIN hist : g <= frame} |-> hist[f]]
    /\ UNCHANGED <<confirmed, depth>>

Next ==
    \/ \E value \in Data : Save(value)
    \/ Advance
    \/ \E frame \in DOMAIN hist : Load(frame)

Spec == Init /\ [][Next]_vars
=============================================================================
