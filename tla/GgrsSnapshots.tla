--------------------------- MODULE GgrsSnapshots ---------------------------
(***************************************************************************)
(* The snapshot storage GgrsSnapshots<For, As> of src/snapshot/mod.rs as   *)
(* operators on a value [entries |-> ..., depth |-> ...].                  *)
(*                                                                         *)
(* The code keeps two VecDeques, `frames` and `snapshots`, that every      *)
(* method pushes to and pops from together; here they are one sequence of  *)
(* records [frame, data], newest first.  `data` is whatever a plugin saves *)
(* and is never inspected.                                                 *)
(***************************************************************************)
EXTENDS Integers, Sequences

CONSTANT Half   \* i32 ranges over -Half .. Half - 1; Half = 2^31 in the code

ASSUME HalfAssumption == Half \in Nat \ {0}

I32 == -Half .. (Half - 1)

\* Variant: frame numbers do not wrap around.
Wrap_Unbounded(n) == n

(***************************************************************************)
(* An integer as the i32 it is stored in (two's complement).               *)
(***************************************************************************)
Wrap(n) == ((n + Half) % (2 * Half)) - Half

DefaultFps == 60

(***************************************************************************)
(* GgrsSnapshots::default().                                               *)
(***************************************************************************)
EmptySnapshots == [entries |-> <<>>, depth |-> DefaultFps]

Entry(frame, data) == [frame |-> frame, data |-> data]

StoredFrames(s) == {s.entries[i].frame : i \in 1 .. Len(s.entries)}

(***************************************************************************)
(* frames.get(0): the newest stored frame.                                 *)
(***************************************************************************)
Front(s) == s.entries[1]

AbsDiff(a, b) == IF a >= b THEN a - b ELSE b - a

\* Variants: the test ignores wrapping; a snapshot of the same frame is kept.
AtOrAfter_NoWrap(current, frame) == current >= frame
AtOrAfter_Strict(current, frame) ==
    IF AbsDiff(current, frame) > Half - 1
    THEN frame > current
    ELSE current > frame

(***************************************************************************)
(* The test of the first loop of push: is the stored frame `current` at or *)
(* after `frame`, taking frame numbers further apart than u32::MAX / 2 to  *)
(* have wrapped around?                                                    *)
(***************************************************************************)
AtOrAfter(current, frame) ==
    IF AbsDiff(current, frame) > Half - 1
    THEN frame >= current
    ELSE current >= frame

(***************************************************************************)
(* The loops of push and rollback pop the front while a test holds, the    *)
(* loop of confirm pops the back while a test holds.  With `popped` the    *)
(* positions of 1 .. n where the test holds, FirstKept and LastKept are    *)
(* the ends of what is left; n + 1 and 0 when nothing is.                  *)
(***************************************************************************)
FirstKept(n, popped) ==
    CHOOSE k \in 1 .. (n + 1) : k \notin popped /\ 1 .. (k - 1) \subseteq popped

LastKept(n, popped) ==
    CHOOSE k \in 0 .. n : k \notin popped /\ (k + 1) .. n \subseteq popped

Positions(q) == 1 .. Len(q)

\* Variant: the eviction loop runs while len >= depth.
Truncate_Early(q, depth) == SubSeq(q, 1, IF Len(q) < depth THEN Len(q) ELSE depth - 1)

\* The second loop of push.
Truncate(q, depth) == SubSeq(q, 1, IF Len(q) <= depth THEN Len(q) ELSE depth)

SetDepth(s, depth) == [s EXCEPT !.depth = depth]

Push(s, frame, data) ==
    LET q      == s.entries
        popped == {i \in Positions(q) : AtOrAfter(q[i].frame, frame)}
        older  == SubSeq(q, FirstKept(Len(q), popped), Len(q))
    IN  [s EXCEPT !.entries = Truncate(<<Entry(frame, data)>> \o older, s.depth)]

Confirm(s, confirmed) ==
    LET q      == s.entries
        popped == {i \in Positions(q) : q[i].frame < confirmed}
    IN  [s EXCEPT !.entries = SubSeq(q, 1, LastKept(Len(q), popped))]

(***************************************************************************)
(* rollback(frame) panics when it empties the queue without finding        *)
(* `frame`, so it is only meaningful under CanRollback.                    *)
(***************************************************************************)
CanRollback(s, frame) == frame \in StoredFrames(s)

Rollback(s, frame) ==
    LET q      == s.entries
        popped == {i \in Positions(q) : q[i].frame # frame}
    IN  [s EXCEPT !.entries = SubSeq(q, FirstKept(Len(q), popped), Len(q))]

(***************************************************************************)
(* get(): the snapshot at the front.                                       *)
(***************************************************************************)
Get(s) == Front(s).data

\* Variant: discard_old_snapshots runs after save.
SaveChain_PushFirst(s, maxPrediction, confirmed, frame, data) ==
    Confirm(Push(SetDepth(s, maxPrediction), frame, data), confirmed)

(***************************************************************************)
(* The three chained systems of every snapshot plugin in SaveWorld:        *)
(* sync_depth, discard_old_snapshots, save.                                *)
(***************************************************************************)
SaveChain(s, maxPrediction, confirmed, frame, data) ==
    Push(Confirm(SetDepth(s, maxPrediction), confirmed), frame, data)
=============================================================================
