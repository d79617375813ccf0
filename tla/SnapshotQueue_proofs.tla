------------------------ MODULE SnapshotQueue_proofs ------------------------
(***************************************************************************)
(* The storage of a resource stays in order and implements SnapshotHistory *)
(* however often the frame number wraps around.                            *)
(***************************************************************************)
EXTENDS SnapshotQueue, GgrsSnapshots_proofs

----------------------------------------------------------------------------
(* Frame numbers that wrap around *)

(***************************************************************************)
(* The i32 a frame is stored as, and how it differs from the frame.        *)
(***************************************************************************)
LEMMA WrapFacts ==
    ASSUME NEW n \in Int
    PROVE  Wrap(n) \in I32 /\ \E c \in Int : n = Wrap(n) + c * (2 * Half)
<1> DEFINE w == 2 * Half
           r == (n + Half) % w
           c == (n + Half) \div w
<1>1. Half \in Nat /\ w \in Nat \ {0} /\ n + Half \in Int
  BY HalfAssumption
<1>2. r \in 0 .. (w - 1) /\ c \in Int /\ n + Half = w * c + r
  <2> HIDE DEF w
  <2> QED BY <1>1
<1>3. Wrap(n) = r - Half
  BY DEF Wrap
<1> HIDE DEF r, c
<1>4. Wrap(n) \in -Half .. (Half - 1)
  BY <1>1, <1>2, <1>3
<1>5. n = Wrap(n) + c * w
  <2> HIDE DEF w
  <2> QED BY <1>1, <1>2, <1>3
<1> QED BY <1>2, <1>4, <1>5 DEF I32

(***************************************************************************)
(* Two frames less than 2^32 apart are as far apart as their numbers, or   *)
(* the wraparound is between them.                                         *)
(***************************************************************************)
LEMMA WrapDistance ==
    ASSUME NEW m \in Int, NEW n \in Int, m <= n, n - m < 2 * Half
    PROVE  Wrap(n) - Wrap(m) = n - m \/ Wrap(n) - Wrap(m) = n - m - 2 * Half
<1>1. Wrap(m) \in I32 /\ Wrap(n) \in I32 /\ Half \in Nat \ {0}
  BY WrapFacts, HalfAssumption
<1>2. PICK c \in Int : m = Wrap(m) + c * (2 * Half)
  BY WrapFacts
<1>3. PICK d \in Int : n = Wrap(n) + d * (2 * Half)
  BY WrapFacts
<1> DEFINE w == 2 * Half
           x == Wrap(m)
           y == Wrap(n)
<1>4. /\ w \in Nat \ {0} /\ x \in Int /\ y \in Int
      /\ -w < y - x /\ y - x < w
      /\ 0 <= n - m /\ n - m < w
      /\ m = x + c * w
      /\ n = y + d * w
  BY <1>1, <1>2, <1>3 DEF I32
<1> HIDE DEF w, x, y
<1>5. n - m = (y - x) + (d - c) * w
  BY <1>4
<1>6. -w < (d - c) * w /\ (d - c) * w < 2 * w
  BY <1>4, <1>5
<1> DEFINE e == d - c
<1>7. e \in Int /\ -w < e * w /\ e * w < 2 * w
  BY <1>6
<1> HIDE DEF e
<1>8. e = 0 \/ e = 1
  <2>1. ASSUME e <= -1 PROVE FALSE
    <3>1. e * w <= (-1) * w
      BY <1>4, <1>7, <2>1
    <3> QED BY <1>4, <1>7, <3>1
  <2>2. ASSUME e >= 2 PROVE FALSE
    <3>1. e * w >= 2 * w
      BY <1>4, <1>7, <2>2
    <3> QED BY <1>4, <1>7, <3>1
  <2> QED BY <1>7, <2>1, <2>2
<1>9. n - m = (y - x) + e * w
  BY <1>5 DEF e
<1> QED BY <1>4, <1>8, <1>9 DEF w, x, y

(***************************************************************************)
(* Frames less than 2^32 apart with the same number are the same.          *)
(***************************************************************************)
LEMMA WrapInjective ==
    ASSUME NEW m \in Int, NEW n \in Int, m - n < 2 * Half, n - m < 2 * Half,
           Wrap(m) = Wrap(n)
    PROVE  m = n
<1>1. Wrap(m) \in Int /\ Half \in Nat \ {0}
  BY WrapFacts, HalfAssumption DEF I32
<1>2. CASE m <= n
  BY <1>1, <1>2, WrapDistance
<1>3. CASE n <= m
  BY <1>1, <1>3, WrapDistance
<1> QED BY <1>2, <1>3

(***************************************************************************)
(* The test of push: a frame less than 2^31 before the saved one is not    *)
(* taken for a later one, wherever the wraparound is.                      *)
(***************************************************************************)
LEMMA EarlierIsKept ==
    ASSUME NEW m \in Int, NEW n \in Int, m < n, n - m < Half
    PROVE  ~ AtOrAfter(Wrap(m), Wrap(n))
<1>1. Wrap(m) \in Int /\ Wrap(n) \in Int /\ Half \in Nat \ {0}
  BY WrapFacts, HalfAssumption DEF I32
<1>2. Wrap(n) - Wrap(m) = n - m \/ Wrap(n) - Wrap(m) = n - m - 2 * Half
  BY <1>1, WrapDistance
<1> HIDE DEF Wrap
<1> QED BY <1>1, <1>2 DEF AtOrAfter, AbsDiff

(***************************************************************************)
(* The saved frame itself is not kept.                                     *)
(***************************************************************************)
LEMMA SameIsReplaced ==
    ASSUME NEW n \in Int
    PROVE  AtOrAfter(Wrap(n), Wrap(n))
<1>1. Wrap(n) \in Int /\ Half \in Nat \ {0}
  BY WrapFacts, HalfAssumption DEF I32
<1> QED BY <1>1 DEF AtOrAfter, AbsDiff

----------------------------------------------------------------------------
(* The inductive invariant *)

\* What a strategy stores for the resource.
StoredBy(s) == {None} \union {S!Store(s, t) : t \in S!Targets}

\* An entry carries the number of its frame and what the strategy has stored.
Entries(s) == {Entry(Wrap(f), Datum(f, v)) : f \in Start .. MaxNow, v \in StoredBy(s)}

\* The frames of q go down from `top` without a gap.
Consecutive(q, top) == \A i \in 1 .. Len(q) : q[i].data.at = top - (i - 1)

\* The newest frame that may be stored.
Newest == IF saved THEN now ELSE now - 1

StateOK ==
    /\ now \in Start .. MaxNow
    /\ confirmed \in (Start - Lag - 1) .. (MaxNow + Lead)
    /\ strategy \in {"Copy", "Clone", "Reflect"}
    /\ resource \in S!Targets \union {None}
    /\ saved \in BOOLEAN /\ loaded \in BOOLEAN

(***************************************************************************)
(* What NewestFirst rests on: the stored frames have no gap and reach up   *)
(* to the last one saved, and there are fewer than 2^31 of them, so that   *)
(* their numbers tell them apart.                                          *)
(***************************************************************************)
QueueInv ==
    /\ StateOK
    /\ store \in Queues(Entries(strategy))
    /\ Consecutive(store.entries, Newest)
    /\ saved => Len(store.entries) >= 1
    /\ Len(store.entries) <= store.depth
    /\ Len(store.entries) < Half

(***************************************************************************)
(* What is known of an entry.                                              *)
(***************************************************************************)
LEMMA EntryFacts ==
    ASSUME NEW s, NEW q \in Seq(Entries(s)), NEW i \in 1 .. Len(q)
    PROVE  /\ q[i].data.at \in Start .. MaxNow
           /\ q[i].data.value \in StoredBy(s)
           /\ q[i].frame = Wrap(q[i].data.at)
           /\ q[i] = Entry(Wrap(q[i].data.at), Datum(q[i].data.at, q[i].data.value))
           /\ q[i].data = Datum(q[i].data.at, q[i].data.value)
<1>1. q[i] \in Entries(s)
  BY ElementOfSeq
<1>2. PICK f \in Start .. MaxNow, v \in StoredBy(s) : q[i] = Entry(Wrap(f), Datum(f, v))
  BY <1>1 DEF Entries
<1>3. q[i].frame = Wrap(f) /\ q[i].data = Datum(f, v)
  BY <1>2 DEF Entry
<1>4. q[i].data.at = f /\ q[i].data.value = v
  BY <1>3 DEF Datum
<1> QED BY <1>2, <1>3, <1>4

(***************************************************************************)
(* Strategies: what is stored is what the strategy stores of a value, and  *)
(* a value that was updated with it, or loaded from it, stores the same.   *)
(***************************************************************************)
LEMMA StrategyRestores ==
    ASSUME NEW s \in {"Copy", "Clone", "Reflect"}, NEW v \in StoredBy(s), v # None,
           NEW r \in S!Targets
    PROVE  /\ S!Update(s, r, v) \in S!Targets
           /\ S!Load(s, v) \in S!Targets
           /\ S!Store(s, S!Update(s, r, v)) = v
           /\ S!Store(s, S!Load(s, v)) = v
<1>1. PICK t \in S!Targets : v = S!Store(s, t)
  BY DEF StoredBy
<1>2. CASE s # "Reflect"
  BY <1>1, <1>2 DEF S!Store, S!Load, S!Update
<1>3. CASE s = "Reflect"
  <2>1. v = [f \in Reflected |-> t[f]]
    BY <1>1, <1>3 DEF S!Store, S!ReflectStore
  <2>2. Reflected \subseteq Fields
    BY SnapshotQueueAssumption
  <2>3. ASSUME NEW x \in S!Targets
        PROVE  /\ S!ReflectUpdate(x, v) \in S!Targets
               /\ S!ReflectStore(S!ReflectUpdate(x, v)) = v
    <3> DEFINE y == [f \in Fields |-> IF f \in Reflected THEN t[f] ELSE x[f]]
    <3>1. S!ReflectUpdate(x, v) = y
      BY <2>1, <2>2 DEF S!ReflectUpdate
    <3>2. y \in S!Targets
      BY DEF S!Targets
    <3>3. S!ReflectStore(y) = [f \in Reflected |-> t[f]]
      BY <2>2 DEF S!ReflectStore
    <3> QED BY <2>1, <3>1, <3>2, <3>3
  <2>4. [f \in Fields |-> FromWorld] \in S!Targets
    BY DEF S!Targets
  <2> QED BY <1>3, <2>3, <2>4 DEF S!Store, S!Load, S!Update, S!ReflectLoad
<1> QED BY <1>2, <1>3

(***************************************************************************)
(* The match in load: the resource is a value of its type again, and what  *)
(* it stores is what was loaded.                                           *)
(***************************************************************************)
LEMMA RestoredStores ==
    ASSUME strategy \in {"Copy", "Clone", "Reflect"}, resource \in S!Targets \union {None},
           NEW v \in StoredBy(strategy)
    PROVE  /\ Restored(resource, v) \in S!Targets \union {None}
           /\ Stored(Restored(resource, v)) = v
<1>1. None \notin S!Targets
  BY SnapshotQueueAssumption
<1>2. [f \in Fields |-> FromWorld] \in S!Targets
  BY DEF S!Targets
<1>3. CASE resource # None /\ v # None
  BY <1>1, <1>3, StrategyRestores DEF Restored, Stored
<1>4. CASE resource # None /\ v = None
  BY <1>4 DEF Restored, Stored
<1>5. CASE resource = None /\ v # None
  BY <1>1, <1>2, <1>5, StrategyRestores DEF Restored, Stored
<1>6. CASE resource = None /\ v = None
  BY <1>6 DEF Restored, Stored
<1> QED BY <1>3, <1>4, <1>5, <1>6

----------------------------------------------------------------------------
(* What a save leaves *)

\* The position of the first stored frame that is older than the present one.
FirstOlder == IF saved THEN 2 ELSE 1

(***************************************************************************)
(* A save pops the frame it replaces and no other from the front: the new  *)
(* queue t is the new entry followed by the entries FirstOlder .. b, as    *)
(* many as the depth allows, and behind b there were only entries that the *)
(* confirmed frame has overtaken, by their numbers.                        *)
(***************************************************************************)
SaveLeaves(t, depth, k, b) ==
    LET q == store.entries
        n == IF FirstOlder <= b THEN b - FirstOlder + 2 ELSE 1
    IN  /\ t \in Seq(Entries(strategy))
        /\ Len(t) = IF n <= depth THEN n ELSE depth
        /\ t[1] = Entry(Wrap(now), Datum(now, Stored(resource)))
        /\ \A i \in 2 .. Len(t) : t[i] = q[FirstOlder + i - 2] /\ FirstOlder + i - 2 \in 1 .. b
        /\ \A i \in (b + 1) .. Len(q) : q[i].frame < Wrap(k)

(***************************************************************************)
(* The chain of SaveWorld does that.                                       *)
(***************************************************************************)
LEMMA SaveShape ==
    ASSUME QueueInv, NEW depth \in Depths, NEW k \in Int, Save(depth, k)
    PROVE  /\ store'.depth = depth
           /\ store' \in Queues(Entries(strategy))
           /\ \E b \in 0 .. Len(store.entries) : SaveLeaves(store'.entries, depth, k, b)
<1> DEFINE q == store.entries
           e == Entry(Wrap(now), Datum(now, Stored(resource)))
           ents == Entries(strategy)
           t == store'.entries
<1>1. /\ now \in Start .. MaxNow /\ now \in Int /\ Half \in Nat \ {0}
      /\ q \in Seq(ents) /\ Len(q) \in Nat /\ Len(q) < Half
      /\ store \in Queues(ents)
      /\ depth \in Nat \ {0} /\ depth < Half
  BY HalfAssumption, SnapshotQueueAssumption, LenProperties DEF QueueInv, StateOK, Queues
<1>2. store' = SaveChain(store, depth, Wrap(k), Wrap(now), Datum(now, Stored(resource)))
  BY DEF Save
<1>3. Stored(resource) \in StoredBy(strategy)
  BY DEF QueueInv, StateOK, Stored, StoredBy
<1>4. e \in ents
  BY <1>1, <1>3 DEF Entries
<1> HIDE DEF q, ents
<1>5. /\ store' \in Queues(ents)
      /\ store'.depth = depth
  BY <1>1, <1>2, <1>4, SaveChainShape
<1>6. PICK b \in 0 .. Len(q) : \E a \in 1 .. (b + 1) :
         /\ \A i \in (b + 1) .. Len(q) : q[i].frame < Wrap(k)
         /\ \A i \in 1 .. (a - 1) : AtOrAfter(q[i].frame, Wrap(now))
         /\ a <= b => ~ AtOrAfter(q[a].frame, Wrap(now))
         /\ NewThenOlder(t, q, e, a, b, depth)
  BY <1>1, <1>2, <1>4, SaveChainShape DEF q
<1>6a. PICK a \in 1 .. (b + 1) :
          /\ \A i \in (b + 1) .. Len(q) : q[i].frame < Wrap(k)
          /\ \A i \in 1 .. (a - 1) : AtOrAfter(q[i].frame, Wrap(now))
          /\ a <= b => ~ AtOrAfter(q[a].frame, Wrap(now))
          /\ NewThenOlder(t, q, e, a, b, depth)
  BY <1>6
<1>7. t \in Seq(ents) /\ Len(t) \in Nat
  BY <1>5, LenProperties DEF Queues
<1>8. \A i \in 1 .. Len(q) : /\ q[i].frame = Wrap(q[i].data.at)
                             /\ q[i].data.at \in Int
                             /\ q[i].data.at = Newest - (i - 1)
                             /\ now - q[i].data.at < Half
  <2> SUFFICES ASSUME NEW i \in 1 .. Len(q)
               PROVE  /\ q[i].frame = Wrap(q[i].data.at)
                      /\ q[i].data.at \in Int
                      /\ q[i].data.at = Newest - (i - 1)
                      /\ now - q[i].data.at < Half
    OBVIOUS
  <2>1. q[i].frame = Wrap(q[i].data.at) /\ q[i].data.at \in Start .. MaxNow
    BY <1>1, EntryFacts DEF ents
  <2>2. q[i].data.at = Newest - (i - 1)
    BY DEF QueueInv, Consecutive, q
  <2>3. Start \in Int /\ MaxNow \in Int
    BY SnapshotQueueAssumption
  <2>4. q[i].data.at \in Int /\ i \in Int /\ i <= Len(q)
    BY <1>1, <2>1, <2>3
  <2>5. Newest \in Int /\ now - Newest <= 1 /\ now - Newest >= 0
    BY <1>1 DEF Newest
  <2>6. now - q[i].data.at = (now - Newest) + (i - 1)
    BY <1>1, <2>2, <2>4, <2>5
  <2>7. Newest = now \/ Newest = now - 1
    BY DEF Newest
  <2>8. now - q[i].data.at < Half
    BY <1>1, <2>4, <2>5, <2>6
  <2> QED BY <2>1, <2>2, <2>4, <2>8
<1>9. a <= b => a = FirstOlder
  <2> SUFFICES ASSUME a <= b PROVE a = FirstOlder
    OBVIOUS
  <2>1. a \in 1 .. Len(q) /\ ~ AtOrAfter(q[a].frame, Wrap(now))
    BY <1>1, <1>6a
  <2>2. q[a].data.at # now
    <3> SUFFICES ASSUME q[a].data.at = now PROVE FALSE
      OBVIOUS
    <3> QED BY <1>1, <1>8, <2>1, SameIsReplaced
  <2>3. FirstOlder <= a
    BY <1>1, <1>8, <2>1, <2>2 DEF FirstOlder, Newest
  <2>4. ASSUME FirstOlder < a PROVE FALSE
    <3> DEFINE j == a - 1
    <3>1. j \in 1 .. Len(q) /\ j \in 1 .. (a - 1) /\ FirstOlder <= j /\ j \in Int
      BY <1>1, <2>1, <2>4 DEF FirstOlder
    <3>2. AtOrAfter(q[j].frame, Wrap(now))
      BY <1>6a, <3>1
    <3> HIDE DEF j
    <3>3. q[j].data.at < now
      BY <1>1, <1>8, <3>1 DEF FirstOlder, Newest
    <3> QED BY <1>1, <1>8, <3>1, <3>2, <3>3, EarlierIsKept
  <2> QED BY <2>1, <2>3, <2>4 DEF FirstOlder
<1>10. a > b => Len(t) = 1 /\ ~ (FirstOlder <= b)
  <2> SUFFICES ASSUME a > b PROVE Len(t) = 1 /\ ~ (FirstOlder <= b)
    OBVIOUS
  <2>1. a = b + 1 /\ b \in Nat
    BY <1>1, <1>6a
  <2>2. Len(t) = 1
    BY <1>1, <1>6a, <2>1 DEF NewThenOlder
  <2>3. ASSUME FirstOlder <= b PROVE FALSE
    <3>1. b \in 1 .. Len(q) /\ b \in 1 .. (a - 1)
      BY <1>1, <2>1, <2>3 DEF FirstOlder
    <3>2. AtOrAfter(q[b].frame, Wrap(now))
      BY <1>6a, <3>1
    <3>3. q[b].data.at < now
      BY <1>1, <1>8, <2>3, <3>1 DEF FirstOlder, Newest
    <3> QED BY <1>1, <1>8, <3>1, <3>2, <3>3, EarlierIsKept
  <2> QED BY <2>2, <2>3
<1> DEFINE n == IF FirstOlder <= b THEN b - FirstOlder + 2 ELSE 1
<1>11. /\ Len(t) = (IF n <= depth THEN n ELSE depth)
       /\ 1 <= Len(t)
       /\ t[1] = e
       /\ \A i \in 2 .. Len(t) : t[i] = q[FirstOlder + i - 2] /\ FirstOlder + i - 2 \in 1 .. b
  <2> HIDE DEF e
  <2>1. FirstOlder \in {1, 2} /\ a \in Nat /\ b \in Nat
    BY <1>1, <1>6a DEF FirstOlder
  <2>1a. /\ Len(t) = (IF b - a + 2 <= depth THEN b - a + 2 ELSE depth)
        /\ \A i \in 1 .. Len(t) : t[i] = (IF i = 1 THEN e ELSE q[a + i - 2])
    BY <1>6a DEF NewThenOlder
  <2> HIDE DEF t
  <2>2. CASE a <= b
    <3>1. a = FirstOlder
      BY <1>9, <2>2
    <3>2. Len(t) = (IF n <= depth THEN n ELSE depth)
      BY <2>1, <2>2, <2>1a, <3>1
    <3>3. 1 <= Len(t) /\ Len(t) <= b - a + 2
      BY <1>1, <2>1, <2>2, <3>1, <3>2
    <3>4. t[1] = e
      BY <1>7, <2>1a, <3>3
    <3>5. ASSUME NEW i \in 2 .. Len(t)
          PROVE  t[i] = q[FirstOlder + i - 2] /\ FirstOlder + i - 2 \in 1 .. b
      BY <1>7, <2>1, <2>1a, <3>1, <3>3
    <3> QED BY <3>2, <3>3, <3>4, <3>5
  <2>3. CASE a > b
    <3>1. Len(t) = 1 /\ n = 1
      BY <1>10, <2>3
    <3>2. t[1] = e
      BY <2>1a, <3>1
    <3>3. 1 <= depth /\ 2 .. 1 = {}
      BY <1>1
    <3> QED BY <3>1, <3>2, <3>3
  <2>4. a <= b \/ a > b
    BY <2>1
  <2> HIDE DEF n
  <2> QED BY <2>2, <2>3, <2>4, Zenon
<1>12. SaveLeaves(t, depth, k, b)
  BY <1>6a, <1>7, <1>11 DEF SaveLeaves, q, ents
<1> QED BY <1>5, <1>12 DEF q, ents

----------------------------------------------------------------------------
(* Every step keeps the invariant *)

(***************************************************************************)
(* The empty storage of a fresh App.                                       *)
(***************************************************************************)
LEMMA QueueInvInit == Init => QueueInv
<1> SUFFICES ASSUME Init PROVE QueueInv
  OBVIOUS
<1>1. StateOK
  <2>1. now = Start /\ confirmed = Start - 1 /\ resource = None /\ saved = FALSE /\ loaded = FALSE
    BY DEF Init
  <2>2. /\ now \in Start .. MaxNow
        /\ confirmed \in (Start - Lag - 1) .. (MaxNow + Lead)
    BY <2>1, SnapshotQueueAssumption
  <2>3. strategy \in {"Copy", "Clone", "Reflect"}
    BY DEF Init, rollback_resource_with_copy, rollback_resource_with_clone,
           rollback_resource_with_reflect
  <2> QED BY <2>1, <2>2, <2>3, Zenon DEF StateOK
<1>2. store.entries = <<>> /\ store.depth = 60 /\ store = [entries |-> <<>>, depth |-> 60]
  BY DEF Init, EmptySnapshots, DefaultFps
<1> DEFINE ents == Entries(strategy)
<1>3. <<>> \in Seq(ents) /\ Len(<<>>) = 0
  BY EmptySeq
<1> HIDE DEF ents
<1>4. store \in Queues(ents)
  BY <1>2, <1>3 DEF Queues
<1>5. ~ saved
  BY DEF Init
<1>6. Consecutive(store.entries, Newest)
  BY <1>2, <1>3 DEF Consecutive
<1> QED BY <1>1, <1>2, <1>3, <1>4, <1>5, <1>6, HalfAssumption DEF QueueInv, ents

(***************************************************************************)
(* A SaveGameState request.                                                *)
(***************************************************************************)
LEMMA SaveKeeps ==
    ASSUME QueueInv, NEW depth \in Depths, NEW k \in (now - Lag) .. (now + Lead),
           Save(depth, k)
    PROVE  QueueInv'
<1> DEFINE q == store.entries
           t == store'.entries
<1>1. /\ now \in Start .. MaxNow /\ now \in Int /\ Half \in Nat \ {0}
      /\ q \in Seq(Entries(strategy)) /\ Len(q) \in Nat
      /\ k \in Int
      /\ depth \in Nat \ {0} /\ depth < Half
      /\ Start \in Int /\ MaxNow \in Int /\ Lag \in Nat /\ Lead \in Nat
  BY HalfAssumption, SnapshotQueueAssumption, LenProperties DEF QueueInv, StateOK, Queues
<1>2. /\ confirmed' = k /\ saved' = TRUE /\ loaded' = FALSE
      /\ now' = now /\ strategy' = strategy /\ resource' = resource
  BY DEF Save
<1>3. StateOK'
  <2>1. confirmed' \in (Start - Lag - 1) .. (MaxNow + Lead)
    BY <1>1, <1>2
  <2> QED BY <1>2, <2>1, Zenon DEF StateOK, QueueInv
<1>4. store' \in Queues(Entries(strategy)) /\ store'.depth = depth
  BY <1>1, SaveShape
<1>5. PICK b \in 0 .. Len(q) : SaveLeaves(t, depth, k, b)
  BY <1>1, SaveShape
<1>6. t \in Seq(Entries(strategy)) /\ Len(t) \in Nat
  BY <1>4, LenProperties DEF Queues
<1>7. /\ Len(t) >= 1 /\ Len(t) <= depth
      /\ t[1] = Entry(Wrap(now), Datum(now, Stored(resource)))
      /\ \A i \in 2 .. Len(t) : t[i] = q[FirstOlder + i - 2] /\ FirstOlder + i - 2 \in 1 .. b
  <2>1. /\ t[1] = Entry(Wrap(now), Datum(now, Stored(resource)))
        /\ \A i \in 2 .. Len(t) : t[i] = q[FirstOlder + i - 2] /\ FirstOlder + i - 2 \in 1 .. b
    BY <1>5, Zenon DEF SaveLeaves
  <2> DEFINE n == IF FirstOlder <= b THEN b - FirstOlder + 2 ELSE 1
  <2>2. Len(t) = IF n <= depth THEN n ELSE depth
    BY <1>5 DEF SaveLeaves
  <2>3. n \in Nat /\ n >= 1
    BY <1>1 DEF FirstOlder
  <2> HIDE DEF n
  <2>4. Len(t) >= 1 /\ Len(t) <= depth
    BY <1>1, <2>2, <2>3
  <2> QED BY <2>1, <2>4, Zenon
<1>8. Consecutive(t, now)
  <2> SUFFICES ASSUME NEW i \in 1 .. Len(t) PROVE t[i].data.at = now - (i - 1)
    BY DEF Consecutive
  <2>1. CASE i = 1
    <3>1. t[1].data.at = now
      BY <1>7 DEF Entry, Datum
    <3> QED BY <1>1, <2>1, <3>1
  <2>2. CASE i # 1
    <3>1. i \in 2 .. Len(t)
      BY <1>6, <2>2
    <3>2. t[i] = q[FirstOlder + i - 2] /\ FirstOlder + i - 2 \in 1 .. Len(q)
      BY <1>1, <1>7, <3>1
    <3>3. q[FirstOlder + i - 2].data.at = Newest - ((FirstOlder + i - 2) - 1)
      BY <3>2 DEF QueueInv, Consecutive
    <3> QED BY <1>1, <3>2, <3>3 DEF FirstOlder, Newest
  <2> QED BY <2>1, <2>2
<1> HIDE DEF t
<1>9. Consecutive(t, Newest')
  BY <1>2, <1>8 DEF Newest
<1> QED BY <1>1, <1>2, <1>3, <1>4, <1>6, <1>7, <1>9 DEF QueueInv, t

(***************************************************************************)
(* A frame of the game.                                                    *)
(***************************************************************************)
LEMMA AdvanceKeeps ==
    ASSUME QueueInv, NEW r \in [Fields -> FieldValues] \union {None}, Advance(r)
    PROVE  QueueInv'
<1>1. /\ saved /\ now < MaxNow /\ now' = now + 1 /\ resource' = r
      /\ saved' = FALSE /\ loaded' = FALSE
      /\ confirmed' = confirmed /\ strategy' = strategy /\ store' = store
  BY DEF Advance
<1>2. r \in S!Targets \union {None}
  BY DEF S!Targets
<1>3. now \in Int /\ now \in Start .. MaxNow /\ Start \in Int /\ MaxNow \in Int
  BY SnapshotQueueAssumption DEF QueueInv, StateOK
<1>4. StateOK'
  <2>1. now' \in Start .. MaxNow
    BY <1>1, <1>3
  <2> QED BY <1>1, <1>2, <2>1, Zenon DEF StateOK, QueueInv
<1>5. Newest' = Newest
  BY <1>1, <1>3 DEF Newest
<1>6. Consecutive(store.entries, Newest')
  BY <1>5 DEF QueueInv
<1> QED BY <1>1, <1>4, <1>6 DEF QueueInv

(***************************************************************************)
(* A LoadGameState request pops up to the frame that was asked for: of the *)
(* stored frames only that one has the number.                             *)
(***************************************************************************)
LEMMA LoadShape ==
    ASSUME QueueInv, NEW f \in Start .. now, LoadResource(f)
    PROVE  /\ store' \in Queues(Entries(strategy))
           /\ store'.depth = store.depth
           /\ \E a \in 1 .. Len(store.entries) :
                 /\ store.entries[a].data.at = f
                 /\ FrontPopped(store'.entries, store.entries, a)
<1> DEFINE q == store.entries
<1>1. /\ now \in Int /\ f \in Int /\ Half \in Nat \ {0}
      /\ q \in Seq(Entries(strategy)) /\ Len(q) \in Nat /\ Len(q) < Half
      /\ store \in Queues(Entries(strategy))
  BY HalfAssumption, SnapshotQueueAssumption, LenProperties DEF QueueInv, StateOK, Queues
<1>2. CanRollback(store, Wrap(f)) /\ store' = Rollback(store, Wrap(f)) /\ now - f < 2 * Half
  BY DEF LoadResource
<1>3. PICK a \in 1 .. Len(q) : q[a].frame = Wrap(f) /\ FrontPopped(store'.entries, q, a)
  BY <1>1, <1>2, RollbackShape
<1>4. q[a].data.at \in Int /\ q[a].frame = Wrap(q[a].data.at)
  BY <1>1, EntryFacts, SnapshotQueueAssumption
<1>5. q[a].data.at = Newest - (a - 1)
  BY DEF QueueInv, Consecutive
<1>6. q[a].data.at - f < 2 * Half /\ f - q[a].data.at < 2 * Half
  BY <1>1, <1>2, <1>4, <1>5 DEF Newest
<1>7. q[a].data.at = f
  BY <1>1, <1>3, <1>4, <1>6, WrapInjective
<1> QED BY <1>1, <1>2, <1>3, <1>7, RollbackShape

(***************************************************************************)
(* ... and the resource is then what the strategy makes of the snapshot of *)
(* that frame.                                                             *)
(***************************************************************************)
LEMMA LoadKeeps ==
    ASSUME QueueInv, NEW f \in Start .. now, LoadResource(f)
    PROVE  /\ QueueInv'
           /\ Stored(resource') = store'.entries[1].data.value
           /\ \A i \in 1 .. Len(store.entries) :
                 store.entries[i].data.at = f => store'.entries[1] = store.entries[i]
<1> DEFINE q == store.entries
           t == store'.entries
<1>1. /\ now \in Int /\ f \in Int /\ Half \in Nat \ {0}
      /\ q \in Seq(Entries(strategy)) /\ Len(q) \in Nat /\ Len(q) < Half
      /\ Start \in Int /\ MaxNow \in Int /\ now \in Start .. MaxNow
      /\ strategy \in {"Copy", "Clone", "Reflect"} /\ resource \in S!Targets \union {None}
  BY HalfAssumption, SnapshotQueueAssumption, LenProperties DEF QueueInv, StateOK, Queues
<1>2. store' \in Queues(Entries(strategy)) /\ store'.depth = store.depth
  BY LoadShape
<1>3. PICK a \in 1 .. Len(q) : q[a].data.at = f /\ FrontPopped(t, q, a)
  BY LoadShape
<1>4. t \in Seq(Entries(strategy)) /\ Len(t) \in Nat
  BY <1>2, LenProperties DEF Queues
<1>5. /\ Len(t) = Len(q) - a + 1
      /\ \A i \in 1 .. Len(t) : t[i] = q[a + i - 1]
  BY <1>3 DEF FrontPopped
<1>6. \A i \in 1 .. Len(q) : q[i].data.at = Newest - (i - 1)
  BY DEF QueueInv, Consecutive
<1>7. /\ now' = f /\ saved' = TRUE /\ loaded' = TRUE
      /\ confirmed' = confirmed /\ strategy' = strategy
      /\ resource' = Restored(resource, t[1].data.value)
  BY DEF LoadResource, Get, Front
<1> HIDE DEF t
<1>8. 1 \in 1 .. Len(t) /\ t[1] = q[a]
  <2>1. 1 \in 1 .. Len(t) /\ a + 1 - 1 = a
    BY <1>1, <1>3, <1>5
  <2> QED BY <1>5, <2>1
<1>9. t[1].data.value \in StoredBy(strategy)
  BY <1>4, <1>8, EntryFacts
<1>10. /\ resource' \in S!Targets \union {None}
       /\ Stored(resource') = t[1].data.value
  BY <1>1, <1>7, <1>9, RestoredStores
<1>11. StateOK'
  BY <1>1, <1>7, <1>10 DEF StateOK, QueueInv
<1>12. Consecutive(t, f)
  <2> SUFFICES ASSUME NEW i \in 1 .. Len(t) PROVE t[i].data.at = f - (i - 1)
    BY DEF Consecutive
  <2>1. a + i - 1 \in 1 .. Len(q) /\ t[i] = q[a + i - 1]
    <3>1. t[i] = q[a + i - 1]
      BY <1>5
    <3>2. a \in 1 .. Len(q) /\ i \in 1 .. (Len(q) - a + 1)
      BY <1>5
    <3> HIDE DEF q
    <3> QED BY <1>1, <3>1, <3>2
  <2>2. t[i].data.at = Newest - ((a + i - 1) - 1)
    BY <1>6, <2>1
  <2>3. f = Newest - (a - 1) /\ Newest \in Int
    BY <1>1, <1>3, <1>6 DEF Newest
  <2> QED BY <1>1, <2>2, <2>3
<1>13. Consecutive(t, Newest')
  BY <1>7, <1>12 DEF Newest
<1>14. Len(t) <= Len(q) /\ Len(t) >= 1
  BY <1>1, <1>3, <1>5, <1>8
<1>15. QueueInv'
  <2>1. Len(q) <= store.depth /\ store.depth \in Nat
    BY DEF QueueInv, Queues
  <2> QED BY <1>1, <1>2, <1>4, <1>7, <1>11, <1>13, <1>14, <2>1 DEF QueueInv, t
<1>16. ASSUME NEW i \in 1 .. Len(q), q[i].data.at = f PROVE t[1] = q[i]
  <2>1. Newest \in Int
    BY <1>1 DEF Newest
  <2>2. f = Newest - (i - 1) /\ f = Newest - (a - 1)
    BY <1>3, <1>6, <1>16
  <2>3. i = a
    BY <1>1, <2>1, <2>2
  <2> QED BY <1>8, <2>3
<1> QED BY <1>10, <1>15, <1>16 DEF t

(***************************************************************************)
(* Every step keeps the invariant.                                         *)
(***************************************************************************)
LEMMA QueueInvKept ==
    ASSUME QueueInv, [Next]_vars
    PROVE  QueueInv'
<1>1. ASSUME NEW depth \in Depths, NEW k \in (now - Lag) .. (now + Lead), Save(depth, k)
      PROVE  QueueInv'
  BY <1>1, SaveKeeps
<1>2. ASSUME NEW r \in [Fields -> FieldValues] \union {None}, Advance(r) PROVE QueueInv'
  BY <1>2, AdvanceKeeps
<1>3. ASSUME NEW f \in Start .. now, LoadResource(f) PROVE QueueInv'
  BY <1>3, LoadKeeps
<1>4. CASE UNCHANGED vars
  BY <1>4 DEF vars, QueueInv, StateOK, Newest
<1> QED BY <1>1, <1>2, <1>3, <1>4 DEF Next

(***************************************************************************)
(* QueueInv holds in every state.                                          *)
(***************************************************************************)
LEMMA QueueInvAlways == Spec => []QueueInv
<1>1. QueueInv /\ [Next]_vars => QueueInv'
  BY QueueInvKept
<1> QED BY <1>1, QueueInvInit, PTL DEF Spec

(***************************************************************************)
(* Every stored frame number is an i32, every datum what the strategy      *)
(* stores, and the resource always a value of its type.                    *)
(***************************************************************************)
THEOREM TypeCorrect == Spec => []TypeOK
<1>1. QueueInv => TypeOK
  <2> SUFFICES ASSUME QueueInv PROVE TypeOK
    OBVIOUS
  <2> DEFINE q == store.entries
  <2>1. q \in Seq(Entries(strategy)) /\ store.depth \in Nat
    BY DEF QueueInv, Queues
  <2>2. \A v \in StoredBy(strategy) : v \in StoredValues
    BY DEF StoredBy, StoredValues, S!Store
  <2>3. ASSUME NEW i \in Positions(q)
        PROVE  q[i].frame \in I32 /\ q[i].data \in [at : Start .. MaxNow, value : StoredValues]
    <3>1. /\ q[i].data.at \in Start .. MaxNow
          /\ q[i].data.value \in StoredBy(strategy)
          /\ q[i].frame = Wrap(q[i].data.at)
          /\ q[i].data = Datum(q[i].data.at, q[i].data.value)
      BY <2>1, EntryFacts DEF Positions
    <3> DEFINE x == q[i].data.at
               y == q[i].data.value
    <3>2. q[i].frame \in I32
      BY <3>1, WrapFacts, SnapshotQueueAssumption
    <3>3. x \in Start .. MaxNow /\ y \in StoredValues
      BY <2>2, <3>1
    <3>4. q[i].data = Datum(x, y)
      BY <3>1
    <3> HIDE DEF x, y
    <3>5. Datum(x, y) \in [at : Start .. MaxNow, value : StoredValues]
      BY <3>3 DEF Datum
    <3> QED BY <3>2, <3>4, <3>5
  <2> QED BY <2>1, <2>3, Zenon DEF TypeOK, QueueInv, StateOK
<1> QED BY <1>1, QueueInvAlways, PTL

(***************************************************************************)
(* The queue is newest first by real frame, ends at the present one and    *)
(* fits the prediction window, although push compares wrapped numbers: for *)
(* every width, every number of wraparounds and every window below 2^31.   *)
(***************************************************************************)
THEOREM NewestFirstAlways == Spec => []NewestFirst
<1>1. QueueInv => NewestFirst
  <2> SUFFICES ASSUME QueueInv PROVE NewestFirst
    OBVIOUS
  <2> DEFINE q == store.entries
  <2>1. q \in Seq(Entries(strategy)) /\ Len(q) \in Nat /\ Newest \in Int /\ now \in Int
        /\ Newest <= now
    BY LenProperties, SnapshotQueueAssumption DEF QueueInv, Queues, StateOK, Newest
  <2>2. \A i \in 1 .. Len(q) : q[i].data.at = Newest - (i - 1)
    BY DEF QueueInv, Consecutive
  <2>3. \A i \in 1 .. Len(q) : q[i].frame = Wrap(q[i].data.at)
    BY <2>1, EntryFacts
  <2>4. \A i, j \in 1 .. Len(q) : i < j => q[i].data.at > q[j].data.at
    BY <2>1, <2>2
  <2>5. \A i \in 1 .. Len(q) : q[i].data.at <= now
    BY <2>1, <2>2
  <2>6. Len(q) <= store.depth
    BY DEF QueueInv
  <2> QED BY <2>3, <2>4, <2>5, <2>6 DEF NewestFirst, Positions
<1> QED BY <1>1, QueueInvAlways, PTL

----------------------------------------------------------------------------
(* The storage implements SnapshotHistory *)

(***************************************************************************)
(* confirm compares plain numbers.  It is right as long as the confirmed   *)
(* frame is less than 2^32 behind, and at most one frame behind while the  *)
(* wraparound is in between.                                               *)
(***************************************************************************)
ConfirmsInTime == LagAcrossWrap <= 1 /\ Lag < 2 * Half

\* The frames of a queue with the data stored for them.
FramesOf(q) == {q[i].data.at : i \in Positions(q)}

Hist(q) ==
    [f \in FramesOf(q) |->
        LET i == CHOOSE i \in Positions(q) : q[i].data.at = f
        IN  q[i].data.value]

(***************************************************************************)
(* No frame is stored twice, so that the data of a frame are well defined. *)
(***************************************************************************)
LEMMA HistFacts ==
    ASSUME NEW q, Len(q) \in Nat, NEW top \in Int, Consecutive(q, top)
    PROVE  /\ DOMAIN Hist(q) = FramesOf(q)
           /\ \A i \in 1 .. Len(q) : /\ q[i].data.at \in FramesOf(q)
                                     /\ Hist(q)[q[i].data.at] = q[i].data.value
<1>1. \A i, j \in 1 .. Len(q) : q[i].data.at = q[j].data.at => i = j
  BY DEF Consecutive
<1>2. ASSUME NEW i \in 1 .. Len(q)
      PROVE  /\ q[i].data.at \in FramesOf(q)
             /\ Hist(q)[q[i].data.at] = q[i].data.value
  <2> DEFINE f == q[i].data.at
             c == CHOOSE j \in Positions(q) : q[j].data.at = f
  <2>1. i \in Positions(q) /\ f \in FramesOf(q)
    BY DEF Positions, FramesOf
  <2>2. c \in Positions(q) /\ q[c].data.at = f
    BY <2>1
  <2>3. c = i
    <3> HIDE DEF c
    <3> QED BY <1>1, <2>2 DEF Positions
  <2>4. Hist(q)[f] = q[c].data.value
    BY <2>1 DEF Hist
  <2> HIDE DEF c
  <2> QED BY <2>1, <2>3, <2>4
<1>3. DOMAIN Hist(q) = FramesOf(q)
  BY DEF Hist
<1> QED BY <1>2, <1>3

(***************************************************************************)
(* A stored frame that the confirmed one has not reached does not look     *)
(* overtaken.                                                              *)
(***************************************************************************)
LEMMA NotOvertaken ==
    ASSUME now \in Int, NEW k \in Int, NEW f \in Int, k <= f, f < now,
           now - k < 2 * Half, LagAcrossWrap \in Nat, LagAcrossWrap <= 1,
           AcrossWrap(k) => now - k <= LagAcrossWrap
    PROVE  ~ (Wrap(f) < Wrap(k))
<1>1. Wrap(k) \in Int /\ Wrap(f) \in Int /\ Wrap(now) \in Int /\ Half \in Nat \ {0}
  <2>1. Wrap(k) \in I32 /\ Wrap(f) \in I32 /\ Wrap(now) \in I32
    BY WrapFacts
  <2>2. Half \in Nat \ {0} /\ \A x \in I32 : x \in Int
    BY HalfAssumption DEF I32
  <2> QED BY <2>1, <2>2
<1>2. Wrap(f) - Wrap(k) = f - k \/ Wrap(f) - Wrap(k) = f - k - 2 * Half
  BY <1>1, WrapDistance
<1>3. Wrap(now) - Wrap(f) = now - f \/ Wrap(now) - Wrap(f) = now - f - 2 * Half
  BY <1>1, WrapDistance
<1>4. Wrap(now) - Wrap(k) = now - k \/ Wrap(now) - Wrap(k) = now - k - 2 * Half
  BY <1>1, WrapDistance
<1>5. ASSUME Wrap(f) < Wrap(k) PROVE FALSE
  <2>1. Wrap(now) < Wrap(k)
    BY <1>1, <1>2, <1>3, <1>4, <1>5
  <2>2. AcrossWrap(k)
    BY <1>1, <2>1 DEF AcrossWrap
  <2>3. k = f
    BY <2>2
  <2> QED BY <1>1, <1>5, <2>3
<1> QED BY <1>5

(***************************************************************************)
(* A save is a save of the history: it forgets nothing that is needed.     *)
(***************************************************************************)
LEMMA SaveImplements ==
    ASSUME QueueInv, QueueInv', ConfirmsInTime, NEW depth \in Depths,
           NEW k \in (now - Lag) .. (now + Lead), Save(depth, k)
    PROVE  History!Next
<1> DEFINE q == store.entries
           t == store'.entries
           value == Stored(resource)
           kept == {t[i].data.at : i \in 2 .. Len(t)}
<1>1. /\ now \in Int /\ k \in Int /\ Half \in Nat \ {0}
      /\ q \in Seq(Entries(strategy)) /\ Len(q) \in Nat
      /\ depth \in Nat \ {0}
      /\ Lag \in Nat /\ LagAcrossWrap \in Nat /\ Start \in Int /\ MaxNow \in Int
      /\ resource \in S!Targets \union {None}
  BY HalfAssumption, SnapshotQueueAssumption, LenProperties DEF QueueInv, StateOK, Queues
<1>2. /\ confirmed' = k /\ saved' = TRUE /\ loaded' = FALSE
      /\ now' = now /\ strategy' = strategy /\ resource' = resource
      /\ AcrossWrap(k) => now - k <= LagAcrossWrap
  BY DEF Save
<1>3. store'.depth = depth /\ store' \in Queues(Entries(strategy))
  BY <1>1, SaveShape
<1>4. PICK b \in 0 .. Len(q) : SaveLeaves(t, depth, k, b)
  BY <1>1, SaveShape
<1>5. t \in Seq(Entries(strategy)) /\ Len(t) \in Nat
  BY <1>3, LenProperties DEF Queues
<1>6. Consecutive(q, Newest) /\ Newest \in Int /\ Consecutive(t, now) /\ Len(t) >= 1
  BY <1>1, <1>2 DEF QueueInv, Newest
<1> HIDE DEF t
<1>7. /\ t[1] = Entry(Wrap(now), Datum(now, value))
      /\ \A i \in 2 .. Len(t) : t[i] = q[FirstOlder + i - 2] /\ FirstOlder + i - 2 \in 1 .. b
      /\ \A i \in (b + 1) .. Len(q) : q[i].frame < Wrap(k)
  BY <1>4, Zenon DEF SaveLeaves
<1>8. /\ DOMAIN Hist(q) = FramesOf(q)
      /\ \A i \in 1 .. Len(q) : /\ q[i].data.at \in FramesOf(q)
                                /\ Hist(q)[q[i].data.at] = q[i].data.value
  BY <1>1, <1>6, HistFacts
<1>9. /\ DOMAIN Hist(t) = FramesOf(t)
      /\ \A i \in 1 .. Len(t) : /\ t[i].data.at \in FramesOf(t)
                                /\ Hist(t)[t[i].data.at] = t[i].data.value
  BY <1>1, <1>5, <1>6, HistFacts
<1>10. t[1].data.at = now /\ t[1].data.value = value
  BY <1>7 DEF Entry, Datum
<1>11. ASSUME NEW i \in 2 .. Len(t)
       PROVE  /\ t[i].data.at \in FramesOf(q) /\ t[i].data.at < now /\ t[i].data.at \in Int
              /\ t[i].data.value = Hist(q)[t[i].data.at]
  <2>1. t[i] = q[FirstOlder + i - 2] /\ FirstOlder + i - 2 \in 1 .. Len(q)
    BY <1>1, <1>7
  <2>2. t[i].data.at = now - (i - 1)
    BY <1>6 DEF Consecutive
  <2>3. t[i].data.at < now /\ t[i].data.at \in Int
    BY <1>1, <2>2
  <2> QED BY <1>8, <2>1, <2>3
<1>12. kept \in SUBSET {f \in DOMAIN Hist(q) : f < now}
  BY <1>8, <1>11
<1>13. Hist(t) = [f \in kept \union {now} |-> IF f = now THEN value ELSE Hist(q)[f]]
  <2> DEFINE g == [f \in kept \union {now} |-> IF f = now THEN value ELSE Hist(q)[f]]
  <2>1. FramesOf(t) = kept \union {now}
    <3>1. \A i \in 1 .. Len(t) : t[i].data.at \in kept \union {now}
      <4> SUFFICES ASSUME NEW i \in 1 .. Len(t), i # 1 PROVE t[i].data.at \in kept
        BY <1>10
      <4>1. i \in 2 .. Len(t)
        BY <1>5
      <4> QED BY <4>1
    <3>2. kept \subseteq FramesOf(t)
      <4> SUFFICES ASSUME NEW i \in 2 .. Len(t) PROVE t[i].data.at \in FramesOf(t)
        OBVIOUS
      <4> QED BY <1>5, <1>9
    <3>3. now \in FramesOf(t)
      BY <1>5, <1>6, <1>9, <1>10
    <3> QED BY <3>1, <3>2, <3>3 DEF FramesOf, Positions
  <2>2. ASSUME NEW f \in FramesOf(t) PROVE Hist(t)[f] = g[f]
    <3>1. PICK i \in 1 .. Len(t) : f = t[i].data.at
      BY DEF FramesOf, Positions
    <3>2. Hist(t)[f] = t[i].data.value
      BY <1>9, <3>1
    <3>3. CASE i = 1
      <4>1. f = now
        BY <1>10, <3>1, <3>3
      <4>2. g[f] = value
        BY <4>1
      <4> QED BY <1>10, <3>2, <3>3, <4>2
    <3>4. CASE i # 1
      <4>1. i \in 2 .. Len(t)
        BY <1>5, <3>4
      <4>2. f < now /\ f \in Int /\ t[i].data.value = Hist(q)[f]
        BY <1>11, <3>1, <4>1
      <4>3. f \in kept /\ f # now
        BY <1>1, <3>1, <4>1, <4>2
      <4>4. g[f] = Hist(q)[f]
        BY <4>3
      <4> QED BY <3>2, <4>2, <4>4
    <3> QED BY <3>3, <3>4
  <2>3. Hist(t) = [f \in FramesOf(t) |-> Hist(t)[f]]
    BY DEF Hist
  <2>4. g = [f \in FramesOf(t) |-> g[f]]
    BY <2>1
  <2> HIDE DEF g
  <2>5. Hist(t) = g
    BY <2>2, <2>3, <2>4
  <2> QED BY <2>5 DEF g
<1>14. {f \in DOMAIN Hist(q) : k <= f /\ f < now /\ now - depth < f} \subseteq kept
  <2> SUFFICES ASSUME NEW f \in FramesOf(q), k <= f, f < now, now - depth < f
               PROVE  f \in kept
    BY <1>8
  <2>1. PICK i \in 1 .. Len(q) : f = q[i].data.at
    BY DEF FramesOf, Positions
  <2>2. f = Newest - (i - 1) /\ f \in Int /\ q[i].frame = Wrap(f)
    <3>1. q[i].data.at \in Start .. MaxNow /\ q[i].frame = Wrap(q[i].data.at)
      BY <1>1, EntryFacts
    <3>2. q[i].data.at = Newest - (i - 1)
      BY <1>6 DEF Consecutive
    <3> QED BY <1>1, <2>1, <3>1, <3>2
  <2>3. ~ (Wrap(f) < Wrap(k))
    <3>1. now - k < 2 * Half
      BY <1>1 DEF ConfirmsInTime
    <3> QED BY <1>1, <1>2, <2>2, <3>1, NotOvertaken DEF ConfirmsInTime
  <2>4. i <= b
    <3> SUFFICES ASSUME ~ (i <= b) PROVE FALSE
      OBVIOUS
    <3>1. i \in (b + 1) .. Len(q)
      BY <1>1
    <3> QED BY <1>7, <2>2, <2>3, <3>1
  <2> DEFINE j == i - FirstOlder + 2
             n == IF FirstOlder <= b THEN b - FirstOlder + 2 ELSE 1
  <2>5. FirstOlder \in {1, 2} /\ FirstOlder <= i /\ f = now - (j - 1)
    <3>1. (FirstOlder = 2 /\ Newest = now) \/ (FirstOlder = 1 /\ Newest = now - 1)
      BY DEF FirstOlder, Newest
    <3>2. i \in Nat /\ i >= 1
      BY <1>1
    <3>3. FirstOlder <= i
      BY <1>1, <2>2, <3>1, <3>2
    <3> QED BY <1>1, <2>2, <3>1, <3>2, <3>3
  <2>6. Len(t) = IF n <= depth THEN n ELSE depth
    BY <1>4 DEF SaveLeaves
  <2>7. j \in Nat /\ j >= 2 /\ j <= n /\ j <= depth
    BY <1>1, <2>2, <2>4, <2>5
  <2> HIDE DEF j, n
  <2>8. j \in 2 .. Len(t)
    BY <1>1, <1>5, <2>6, <2>7
  <2>9. t[j].data.at = f
    BY <1>6, <2>5, <2>8 DEF Consecutive
  <2> QED BY <2>8, <2>9
<1>15. value \in StoredValues
  BY <1>1 DEF Stored, StoredValues, S!Store
<1>16. HistOf = Hist(q) /\ HistOf' = Hist(t)
  BY DEF HistOf, RealFrames, Hist, FramesOf, t
<1> HIDE DEF q, kept, value
<1>17. History!Save(value)
  <2>1. store.depth' = depth
    BY <1>3
  <2>2. History!Needed(k, depth) \subseteq kept
    BY <1>14, <1>16 DEF History!Needed
  <2> QED BY <1>1, <1>2, <1>12, <1>13, <1>16, <2>1, <2>2 DEF History!Save
<1> QED BY <1>15, <1>17 DEF History!Next

(***************************************************************************)
(* A frame of the game leaves the history alone.                           *)
(***************************************************************************)
LEMMA AdvanceImplements ==
    ASSUME NEW r, Advance(r)
    PROVE  History!Next
<1>1. HistOf' = HistOf
  BY DEF Advance, HistOf, RealFrames
<1> QED BY <1>1 DEF Advance, History!Next, History!Advance

(***************************************************************************)
(* A load is a load of the history: it drops the frames after the one that *)
(* was asked for and gives what was saved for that one.                    *)
(***************************************************************************)
LEMMA LoadImplements ==
    ASSUME QueueInv, QueueInv', NEW f \in Start .. now, LoadResource(f)
    PROVE  History!Next
<1> DEFINE q == store.entries
           t == store'.entries
<1>1. /\ now \in Int /\ f \in Int
      /\ q \in Seq(Entries(strategy)) /\ Len(q) \in Nat
  BY SnapshotQueueAssumption, LenProperties DEF QueueInv, StateOK, Queues
<1>2. /\ now' = f /\ saved' = TRUE /\ loaded' = TRUE
      /\ confirmed' = confirmed /\ strategy' = strategy
  BY DEF LoadResource
<1>3. store'.depth = store.depth /\ store' \in Queues(Entries(strategy))
  BY LoadShape
<1>4. PICK a \in 1 .. Len(q) : q[a].data.at = f /\ FrontPopped(t, q, a)
  BY LoadShape
<1>5. t \in Seq(Entries(strategy)) /\ Len(t) \in Nat
  BY <1>3, LenProperties DEF Queues
<1>6. Stored(resource') = t[1].data.value /\ t[1] = q[a]
  BY <1>4, LoadKeeps
<1>7. Consecutive(q, Newest) /\ Newest \in Int /\ Consecutive(t, f)
  BY <1>1, <1>2 DEF QueueInv, Newest
<1> HIDE DEF t
<1>8. /\ Len(t) = Len(q) - a + 1
      /\ \A i \in 1 .. Len(t) : t[i] = q[a + i - 1]
  BY <1>4 DEF FrontPopped
<1>9. /\ DOMAIN Hist(q) = FramesOf(q)
      /\ \A i \in 1 .. Len(q) : /\ q[i].data.at \in FramesOf(q)
                                /\ Hist(q)[q[i].data.at] = q[i].data.value
  BY <1>1, <1>7, HistFacts
<1>10. /\ DOMAIN Hist(t) = FramesOf(t)
       /\ \A i \in 1 .. Len(t) : /\ t[i].data.at \in FramesOf(t)
                                 /\ Hist(t)[t[i].data.at] = t[i].data.value
  BY <1>1, <1>5, <1>7, HistFacts
<1>11. FramesOf(t) = {g \in DOMAIN Hist(q) : g <= f}
  <2>1. ASSUME NEW i \in 1 .. Len(t)
        PROVE  t[i].data.at \in FramesOf(q) /\ t[i].data.at <= f
    <3>1. a \in 1 .. Len(q) /\ i \in 1 .. (Len(q) - a + 1)
      BY <1>8
    <3>2. t[i] = q[a + i - 1] /\ a + i - 1 \in 1 .. Len(q)
      <4>1. t[i] = q[a + i - 1]
        BY <1>8
      <4> HIDE DEF q
      <4> QED BY <1>1, <3>1, <4>1
    <3>3. t[i].data.at = f - (i - 1)
      BY <1>7 DEF Consecutive
    <3> QED BY <1>1, <1>9, <3>2, <3>3
  <2>2. ASSUME NEW g \in FramesOf(q), g <= f PROVE g \in FramesOf(t)
    <3>1. PICK i \in 1 .. Len(q) : g = q[i].data.at
      BY DEF FramesOf, Positions
    <3>2. g = Newest - (i - 1) /\ f = Newest - (a - 1)
      BY <1>4, <1>7, <3>1 DEF Consecutive
    <3>3. a <= i
      BY <1>1, <1>7, <2>2, <3>2
    <3> DEFINE j == i - a + 1
    <3>4. j \in 1 .. Len(t) /\ a + j - 1 = i
      BY <1>1, <1>8, <3>3
    <3> HIDE DEF j
    <3>5. t[j] = q[i]
      BY <1>8, <3>4
    <3> QED BY <1>10, <3>1, <3>4, <3>5
  <2> QED BY <1>9, <2>1, <2>2 DEF FramesOf, Positions
<1>12. ASSUME NEW g \in FramesOf(t) PROVE Hist(t)[g] = Hist(q)[g]
  <2>1. PICK i \in 1 .. Len(t) : g = t[i].data.at
    BY DEF FramesOf, Positions
  <2>2. a \in 1 .. Len(q) /\ i \in 1 .. (Len(q) - a + 1)
    BY <1>8
  <2>3. t[i] = q[a + i - 1]
    BY <1>8
  <2>4. a + i - 1 \in 1 .. Len(q)
    <3> HIDE DEF q
    <3> QED BY <1>1, <2>2
  <2> QED BY <1>9, <1>10, <2>1, <2>3, <2>4
<1>13. Hist(t) = [g \in {x \in DOMAIN Hist(q) : x <= f} |-> Hist(q)[g]]
  <2>1. Hist(t) = [g \in FramesOf(t) |-> Hist(t)[g]]
    BY DEF Hist
  <2> QED BY <1>11, <1>12, <2>1
<1>14. f \in DOMAIN Hist(q) /\ Hist(q)[f] = t[1].data.value
  BY <1>4, <1>6, <1>9
<1>15. HistOf = Hist(q) /\ HistOf' = Hist(t)
  BY DEF HistOf, RealFrames, Hist, FramesOf, t
<1>16. Stored(resource)' = Stored(resource')
  BY <1>2 DEF Stored
<1> HIDE DEF q
<1>17. (IF loaded THEN {Stored(resource)} ELSE {})' = {Hist(q)[f]}
  BY <1>2, <1>6, <1>14, <1>16
<1>18. History!Load(f)
  <2>1. store.depth' = store.depth
    BY <1>3
  <2> QED BY <1>2, <1>13, <1>15, <1>17, <2>1 DEF History!Load
<1> QED BY <1>14, <1>15, <1>18 DEF History!Next

(***************************************************************************)
(* An empty queue is an empty history.                                     *)
(***************************************************************************)
LEMMA InitImplements == Init => History!Init
<1> SUFFICES ASSUME Init PROVE History!Init
  OBVIOUS
<1>1. store.entries = <<>> /\ store.depth = 60
  BY DEF Init, EmptySnapshots, DefaultFps
<1>2. RealFrames = {}
  <2>1. Positions(store.entries) = {}
    BY <1>1 DEF Positions
  <2> QED BY <2>1 DEF RealFrames
<1>3. HistOf = [f \in {} |-> f]
  BY <1>2 DEF HistOf
<1>4. now \in Int /\ confirmed \in Int /\ loaded = FALSE
  BY SnapshotQueueAssumption DEF Init
<1> QED BY <1>1, <1>3, <1>4 DEF History!Init

(***************************************************************************)
(* ResourceSnapshotPlugin implements SnapshotHistory: across any number of *)
(* wraparounds a save forgets only abandoned, confirmed or depth-exceeding *)
(* frames, and a load gives back what was last saved for that very frame.  *)
(* Only for confirm, which compares plain numbers, the confirmed frame has *)
(* to keep up (ConfirmsInTime).                                            *)
(***************************************************************************)
THEOREM StorageImplementsHistory ==
    ASSUME ConfirmsInTime
    PROVE  Spec => ImplementsHistory
<1>1. QueueInv /\ QueueInv' /\ [Next]_vars => [History!Next]_(History!vars)
  <2> SUFFICES ASSUME QueueInv, QueueInv', [Next]_vars
               PROVE  [History!Next]_(History!vars)
    OBVIOUS
  <2>1. ASSUME NEW depth \in Depths, NEW k \in (now - Lag) .. (now + Lead), Save(depth, k)
        PROVE  History!Next
    BY <2>1, SaveImplements
  <2>2. ASSUME NEW r \in [Fields -> FieldValues] \union {None}, Advance(r)
        PROVE  History!Next
    BY <2>2, AdvanceImplements
  <2>3. ASSUME NEW f \in Start .. now, LoadResource(f) PROVE History!Next
    BY <2>3, LoadImplements
  <2>4. CASE UNCHANGED vars
    <3>1. HistOf' = HistOf /\ Stored(resource)' = Stored(resource)
      BY <2>4 DEF vars, HistOf, RealFrames, Stored
    <3>2. UNCHANGED History!vars
      BY <2>4, <3>1 DEF vars, History!vars
    <3> QED BY <3>2
  <2> QED BY <2>1, <2>2, <2>3, <2>4 DEF Next
<1> QED BY <1>1, InitImplements, QueueInvAlways, PTL
        DEF Spec, ImplementsHistory, History!Spec
=============================================================================
