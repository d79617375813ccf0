------------------------ MODULE GgrsSnapshots_proofs ------------------------
(***************************************************************************)
(* What the operations of the snapshot storage return, for every queue,    *)
(* depth and frame, as long as no frame number has wrapped around.         *)
(***************************************************************************)
EXTENDS GgrsSnapshots, TLAPS, WellFoundedInduction, SequenceTheorems

\* A storage whose frames are at most M and whose data is in D.
Storage(M, D) == [entries : Seq([frame : 0 .. M, data : D]), depth : Nat]

\* Newest first.
Descending(q) == \A i, j \in 1 .. Len(q) : i < j => q[i].frame > q[j].frame

\* Every entry of q is an entry of p.
Within(q, p) == \A i \in 1 .. Len(q) : \E j \in 1 .. Len(p) : q[i] = p[j]

\* Every entry of q is the new entry of frame f, or an older one taken from p.
NewOrOlder(q, p, f, d) ==
    \A i \in 1 .. Len(q) :
        \/ q[i] = Entry(f, d)
        \/ q[i].frame < f /\ \E j \in 1 .. Len(p) : q[i] = p[j]

----------------------------------------------------------------------------
(***************************************************************************)
(* A non-empty set of naturals has a least element.                        *)
(***************************************************************************)
LEMMA LeastNatural ==
    ASSUME NEW T \in SUBSET Nat, T # {}
    PROVE  \E x \in T : \A y \in T : x <= y
<1> DEFINE R == OpToRel(<, Nat)
<1>1. IsWellFoundedOn(R, Nat)
  BY NatLessThanWellFounded
<1>2. PICK x \in T : \A y \in T : ~ (<<y, x>> \in R)
  <2> HIDE DEF R
  <2> QED BY <1>1, WFMin
<1>3. \A y \in T : ~ (y < x)
  BY <1>2 DEF OpToRel
<1> QED BY <1>3

(***************************************************************************)
(* The loops of push and rollback stop: FirstKept is the first position    *)
(* whose test fails.                                                       *)
(***************************************************************************)
LEMMA FirstKeptFacts ==
    ASSUME NEW n \in Nat, NEW popped \in SUBSET (1 .. n)
    PROVE  /\ FirstKept(n, popped) \in 1 .. (n + 1)
           /\ FirstKept(n, popped) \notin popped
           /\ 1 .. (FirstKept(n, popped) - 1) \subseteq popped
<1> DEFINE T == (1 .. (n + 1)) \ popped
<1>1. n + 1 \in T
  OBVIOUS
<1>2. PICK k \in T : \A y \in T : k <= y
  <2>1. T \in SUBSET Nat /\ T # {}
    BY <1>1
  <2> HIDE DEF T
  <2> QED BY <2>1, LeastNatural
<1>3. 1 .. (k - 1) \subseteq popped
  BY <1>2
<1> QED BY <1>2, <1>3 DEF FirstKept

(***************************************************************************)
(* The loop of confirm stops: LastKept is the last position whose test     *)
(* fails.                                                                  *)
(***************************************************************************)
LEMMA LastKeptFacts ==
    ASSUME NEW n \in Nat, NEW popped \in SUBSET (1 .. n)
    PROVE  /\ LastKept(n, popped) \in 0 .. n
           /\ LastKept(n, popped) \notin popped
           /\ (LastKept(n, popped) + 1) .. n \subseteq popped
<1> DEFINE T == {j \in 0 .. n : n - j \notin popped}
<1>1. n \in T
  OBVIOUS
<1>2. PICK m \in T : \A y \in T : m <= y
  <2>1. T \in SUBSET Nat /\ T # {}
    BY <1>1
  <2> HIDE DEF T
  <2> QED BY <2>1, LeastNatural
<1>3. n - m \in 0 .. n /\ n - m \notin popped
  BY <1>2
<1>4. ASSUME NEW i \in (n - m + 1) .. n, i \notin popped PROVE FALSE
  <2>1. n - i \in 0 .. n /\ n - i < m /\ n - (n - i) = i
    BY <1>2, <1>4
  <2>2. n - i \in T
    BY <2>1, <1>4
  <2> QED BY <1>2, <2>1, <2>2
<1>5. \A i \in (n - m + 1) .. n : i \in popped
  BY <1>4
<1> QED BY <1>3, <1>5 DEF LastKept

(***************************************************************************)
(* A slice of a sequence.                                                  *)
(***************************************************************************)
LEMMA SliceFacts ==
    ASSUME NEW S, NEW q \in Seq(S), NEW a \in 1 .. (Len(q) + 1), NEW b \in 0 .. Len(q),
           a <= b + 1
    PROVE  /\ SubSeq(q, a, b) \in Seq(S)
           /\ Len(SubSeq(q, a, b)) = b - a + 1
           /\ \A i \in 1 .. (b - a + 1) : SubSeq(q, a, b)[i] = q[a + i - 1]
<1>1. \A i \in a .. b : q[i] \in S
  BY ElementOfSeq
<1>2. a \in Int /\ b \in Int /\ Len(q) \in Nat
  BY LenProperties
<1> QED BY <1>1, <1>2, SubSeqProperties

(***************************************************************************)
(* A slice of a queue that is newest first is newest first.                *)
(***************************************************************************)
LEMMA SliceDescending ==
    ASSUME NEW S, NEW q \in Seq(S), NEW a \in 1 .. (Len(q) + 1), NEW b \in 0 .. Len(q),
           a <= b + 1, Descending(q)
    PROVE  Descending(SubSeq(q, a, b)) /\ Within(SubSeq(q, a, b), q)
<1> DEFINE t == SubSeq(q, a, b)
<1>1. /\ Len(q) \in Nat
      /\ Len(t) = b - a + 1
      /\ \A i \in 1 .. (b - a + 1) : t[i] = q[a + i - 1]
  BY SliceFacts, LenProperties
<1> HIDE DEF t
<1>2. Descending(t)
  <2> SUFFICES ASSUME NEW i \in 1 .. Len(t), NEW j \in 1 .. Len(t), i < j
               PROVE  t[i].frame > t[j].frame
    BY DEF Descending
  <2>1. a + i - 1 \in 1 .. Len(q) /\ a + j - 1 \in 1 .. Len(q) /\ a + i - 1 < a + j - 1
    BY <1>1
  <2>2. q[a + i - 1].frame > q[a + j - 1].frame
    BY <2>1 DEF Descending
  <2> QED BY <1>1, <2>2
<1>3. Within(t, q)
  <2> SUFFICES ASSUME NEW i \in 1 .. Len(t) PROVE \E j \in 1 .. Len(q) : t[i] = q[j]
    BY DEF Within
  <2>1. a + i - 1 \in 1 .. Len(q) /\ t[i] = q[a + i - 1]
    BY <1>1
  <2> QED BY <2>1
<1> QED BY <1>2, <1>3 DEF t

----------------------------------------------------------------------------
(***************************************************************************)
(* confirm keeps a front part of the queue.                                *)
(***************************************************************************)
LEMMA ConfirmFacts ==
    ASSUME NEW M \in Nat, NEW D, NEW s \in Storage(M, D), Descending(s.entries),
           NEW k \in Int
    PROVE  /\ Confirm(s, k) \in Storage(M, D)
           /\ Confirm(s, k).depth = s.depth
           /\ Descending(Confirm(s, k).entries)
           /\ Within(Confirm(s, k).entries, s.entries)
<1> DEFINE q == s.entries
           popped == {i \in Positions(q) : q[i].frame < k}
           b == LastKept(Len(q), popped)
           kept == SubSeq(q, 1, b)
<1>1. q \in Seq([frame : 0 .. M, data : D]) /\ Len(q) \in Nat
  BY LenProperties DEF Storage
<1>2. b \in 0 .. Len(q)
  <2>1. popped \in SUBSET (1 .. Len(q))
    BY DEF Positions
  <2> HIDE DEF popped, q
  <2> QED BY <1>1, <2>1, LastKeptFacts
<1>3. Confirm(s, k) = [s EXCEPT !.entries = kept]
  BY DEF Confirm
<1> HIDE DEF b
<1>4. /\ kept \in Seq([frame : 0 .. M, data : D])
      /\ Descending(kept)
      /\ Within(kept, q)
  <2> HIDE DEF q
  <2>1. 1 \in 1 .. (Len(q) + 1) /\ 1 <= b + 1
    BY <1>1, <1>2
  <2>2. Descending(q)
    BY DEF q
  <2> QED BY <1>1, <1>2, <2>1, <2>2, SliceFacts, SliceDescending
<1> HIDE DEF kept
<1>5. /\ Confirm(s, k) \in Storage(M, D)
      /\ Confirm(s, k).entries = kept
      /\ Confirm(s, k).depth = s.depth
  BY <1>3, <1>4 DEF Storage
<1> QED BY <1>4, <1>5

(***************************************************************************)
(* rollback to a stored frame keeps that frame, at the front, and older    *)
(* ones.                                                                   *)
(***************************************************************************)
LEMMA RollbackFacts ==
    ASSUME NEW M \in Nat, NEW D, NEW s \in Storage(M, D), Descending(s.entries),
           NEW f, CanRollback(s, f)
    PROVE  /\ Rollback(s, f) \in Storage(M, D)
           /\ Rollback(s, f).depth = s.depth
           /\ Descending(Rollback(s, f).entries)
           /\ Within(Rollback(s, f).entries, s.entries)
           /\ Len(Rollback(s, f).entries) >= 1
           /\ Front(Rollback(s, f)).frame = f
           /\ \A i \in 1 .. Len(Rollback(s, f).entries) : Rollback(s, f).entries[i].frame <= f
<1> DEFINE q == s.entries
           popped == {i \in Positions(q) : q[i].frame # f}
           a == FirstKept(Len(q), popped)
           kept == SubSeq(q, a, Len(q))
<1>1. q \in Seq([frame : 0 .. M, data : D]) /\ Len(q) \in Nat
  BY LenProperties DEF Storage
<1>2. /\ a \in 1 .. (Len(q) + 1)
      /\ a \notin popped
      /\ 1 .. (a - 1) \subseteq popped
  <2>1. popped \in SUBSET (1 .. Len(q))
    BY DEF Positions
  <2> HIDE DEF popped, q
  <2> QED BY <1>1, <2>1, FirstKeptFacts
<1>3. Rollback(s, f) = [s EXCEPT !.entries = kept]
  BY DEF Rollback
<1>4. a \in 1 .. Len(q) /\ q[a].frame = f
  <2>1. PICK j \in 1 .. Len(q) : q[j].frame = f
    BY DEF CanRollback, StoredFrames
  <2>2. j \notin popped
    BY <2>1
  <2>3. a <= j
    <3> HIDE DEF popped, a
    <3> QED BY <1>1, <1>2, <2>1, <2>2
  <2>4. a \in 1 .. Len(q)
    <3> HIDE DEF popped, a
    <3> QED BY <1>1, <1>2, <2>1, <2>3
  <2> HIDE DEF a
  <2> QED BY <1>2, <2>4 DEF Positions
<1> HIDE DEF a
<1>5. /\ kept \in Seq([frame : 0 .. M, data : D])
      /\ Len(kept) = Len(q) - a + 1
      /\ \A i \in 1 .. (Len(q) - a + 1) : kept[i] = q[a + i - 1]
      /\ Descending(kept)
      /\ Within(kept, q)
  <2> HIDE DEF q
  <2>1. a \in 1 .. (Len(q) + 1) /\ Len(q) \in 0 .. Len(q) /\ a <= Len(q) + 1
    BY <1>1, <1>4
  <2>2. Descending(q)
    BY DEF q
  <2> QED BY <1>1, <2>1, <2>2, SliceFacts, SliceDescending
<1> HIDE DEF kept
<1>6. kept[1].frame = f /\ Len(kept) >= 1 /\ Len(kept) \in Nat
  <2> HIDE DEF q
  <2>1. 1 \in 1 .. (Len(q) - a + 1) /\ a + 1 - 1 = a
    BY <1>1, <1>4
  <2>2. kept[1] = q[a]
    BY <1>5, <2>1
  <2> QED BY <1>1, <1>4, <1>5, <2>1, <2>2
<1>7. \A i \in 1 .. Len(kept) : kept[i].frame <= f
  <2> SUFFICES ASSUME NEW i \in 1 .. Len(kept) PROVE kept[i].frame <= f
    OBVIOUS
  <2>1. kept[i].frame \in 0 .. M /\ kept[1].frame \in 0 .. M
    <3>1. kept[i] \in [frame : 0 .. M, data : D]
      BY <1>5, ElementOfSeq
    <3>2. 1 \in 1 .. Len(kept)
      BY <1>6
    <3>3. kept[1] \in [frame : 0 .. M, data : D]
      BY <1>5, <3>2, ElementOfSeq
    <3> QED BY <3>1, <3>3
  <2>2. CASE i = 1
    BY <1>6, <2>1, <2>2
  <2>3. CASE i > 1
    <3>1. 1 \in 1 .. Len(kept) /\ 1 < i
      BY <1>6, <2>3
    <3>2. kept[1].frame > kept[i].frame
      BY <1>5, <3>1 DEF Descending
    <3> QED BY <1>6, <2>1, <3>2
  <2> QED BY <1>6, <2>2, <2>3
<1>8. /\ Rollback(s, f) \in Storage(M, D)
      /\ Rollback(s, f).entries = kept
      /\ Rollback(s, f).depth = s.depth
  BY <1>3, <1>5 DEF Storage
<1> QED BY <1>5, <1>6, <1>7, <1>8 DEF Front

(***************************************************************************)
(* push keeps only entries older than the one it adds, and adds it in      *)
(* front; with depth 0 nothing is left.                                    *)
(***************************************************************************)
LEMMA PushFacts ==
    ASSUME NEW M \in Nat, M < Half, NEW D, NEW s \in Storage(M, D), Descending(s.entries),
           NEW f \in 0 .. M, NEW d \in D
    PROVE  /\ Push(s, f, d) \in Storage(M, D)
           /\ Push(s, f, d).depth = s.depth
           /\ Descending(Push(s, f, d).entries)
           /\ NewOrOlder(Push(s, f, d).entries, s.entries, f, d)
<1> DEFINE S == [frame : 0 .. M, data : D]
           q == s.entries
           popped == {i \in Positions(q) : AtOrAfter(q[i].frame, f)}
           a == FirstKept(Len(q), popped)
           older == SubSeq(q, a, Len(q))
           all == <<Entry(f, d)>> \o older
           n == IF Len(all) <= s.depth THEN Len(all) ELSE s.depth
           kept == SubSeq(all, 1, n)
<1>1. q \in Seq(S) /\ Len(q) \in Nat /\ s.depth \in Nat
  BY LenProperties DEF Storage
<1>2. \A i \in 1 .. Len(q) : q[i].frame \in 0 .. M
  <2> SUFFICES ASSUME NEW i \in 1 .. Len(q) PROVE q[i].frame \in 0 .. M
    OBVIOUS
  <2>1. q[i] \in S
    BY <1>1, ElementOfSeq
  <2> QED BY <2>1
<1>3. \A i \in 1 .. Len(q) : AtOrAfter(q[i].frame, f) <=> q[i].frame >= f
  <2> HIDE DEF q
  <2> QED BY <1>2, HalfAssumption DEF AtOrAfter, AbsDiff
<1>4. /\ a \in 1 .. (Len(q) + 1)
      /\ a \notin popped
  <2>1. popped \in SUBSET (1 .. Len(q))
    BY DEF Positions
  <2> HIDE DEF popped, q
  <2> QED BY <1>1, <2>1, FirstKeptFacts
<1> HIDE DEF a
<1>5. \A i \in a .. Len(q) : q[i].frame < f
  <2> SUFFICES ASSUME NEW i \in a .. Len(q) PROVE q[i].frame < f
    OBVIOUS
  <2>1. a \in 1 .. Len(q) /\ i \in 1 .. Len(q)
    BY <1>1, <1>4
  <2>2. q[a].frame < f
    BY <1>2, <1>3, <1>4, <2>1 DEF Positions
  <2>3. CASE i = a
    BY <2>2, <2>3
  <2>4. CASE i > a
    <3>1. q[a].frame > q[i].frame
      BY <2>1, <2>4 DEF Descending
    <3> QED BY <1>2, <2>1, <2>2, <3>1
  <2> QED BY <2>1, <2>3, <2>4
<1>6. Descending(q)
  BY DEF q
<1>7. Push(s, f, d) = [s EXCEPT !.entries = kept]
  BY DEF Push, Truncate, a
<1> HIDE DEF popped, q
<1>8. /\ older \in Seq(S)
      /\ Len(older) = Len(q) - a + 1
      /\ \A i \in 1 .. Len(older) : older[i] = q[a + i - 1]
      /\ Descending(older)
  <2>1. Len(q) \in 0 .. Len(q) /\ a <= Len(q) + 1
    BY <1>1, <1>4
  <2> HIDE DEF S
  <2> QED BY <1>1, <1>4, <1>6, <2>1, SliceFacts, SliceDescending
<1> HIDE DEF older
<1>9. \A i \in 1 .. Len(older) : /\ older[i].frame < f
                                 /\ \E j \in 1 .. Len(q) : older[i] = q[j]
  <2> SUFFICES ASSUME NEW i \in 1 .. Len(older)
               PROVE  older[i].frame < f /\ \E j \in 1 .. Len(q) : older[i] = q[j]
    OBVIOUS
  <2>1. a + i - 1 \in a .. Len(q) /\ a + i - 1 \in 1 .. Len(q)
    BY <1>1, <1>4, <1>8
  <2> QED BY <1>5, <1>8, <2>1
<1>10. /\ all \in Seq(S)
       /\ Len(all) = Len(older) + 1
       /\ all[1] = Entry(f, d)
       /\ \A i \in 2 .. Len(all) : all[i] = older[i - 1]
  <2>1. Entry(f, d) \in S
    BY DEF Entry
  <2> DEFINE e == Entry(f, d)
  <2>2. <<e>> \in Seq(S) /\ Len(<<e>>) = 1 /\ <<e>>[1] = e
    <3> HIDE DEF e, S
    <3> QED BY <2>1 DEF e
  <2> HIDE DEF e, S
  <2>3. Len(older) \in Nat
    BY <1>8, LenProperties
  <2> QED BY <1>8, <2>2, <2>3, ConcatProperties DEF e
<1> HIDE DEF all
<1>11. Len(older) \in Nat /\ Len(all) \in Nat \ {0} /\ n \in 0 .. Len(all)
  <2>1. Len(older) \in Nat
    BY <1>8, LenProperties
  <2> QED BY <1>1, <1>10, <2>1
<1>12. Descending(all)
  <2> SUFFICES ASSUME NEW i \in 1 .. Len(all), NEW j \in 1 .. Len(all), i < j
               PROVE  all[i].frame > all[j].frame
    BY DEF Descending
  <2>1. all[j] = older[j - 1] /\ j - 1 \in 1 .. Len(older)
    BY <1>10, <1>11
  <2>2. CASE i = 1
    <3>1. all[i].frame = f
      BY <1>10, <2>2 DEF Entry
    <3>2. all[j].frame < f
      BY <1>9, <2>1
    <3>3. all[j] \in S
      BY <1>10, ElementOfSeq
    <3> QED BY <3>1, <3>2, <3>3
  <2>3. CASE i > 1
    <3>1. all[i] = older[i - 1] /\ i - 1 \in 1 .. Len(older) /\ i - 1 < j - 1
      <4>1. i \in 2 .. Len(all) /\ i - 1 < j - 1
        BY <1>11, <2>3
      <4>2. i - 1 \in 1 .. Len(older)
        BY <1>10, <1>11, <4>1
      <4> QED BY <1>10, <4>1, <4>2
    <3>2. older[i - 1].frame > older[j - 1].frame
      BY <1>8, <2>1, <3>1 DEF Descending
    <3> QED BY <2>1, <3>1, <3>2
  <2> QED BY <1>11, <2>2, <2>3
<1> HIDE DEF n
<1>13. /\ kept \in Seq(S)
       /\ Len(kept) = n
       /\ \A i \in 1 .. Len(kept) : kept[i] = all[i]
       /\ Descending(kept)
  <2>1. 1 \in 1 .. (Len(all) + 1) /\ 1 <= n + 1
    BY <1>11
  <2> HIDE DEF S
  <2>2. /\ SubSeq(all, 1, n) \in Seq(S)
        /\ Len(SubSeq(all, 1, n)) = n - 1 + 1
        /\ \A i \in 1 .. (n - 1 + 1) : SubSeq(all, 1, n)[i] = all[1 + i - 1]
        /\ Descending(SubSeq(all, 1, n))
    BY <1>10, <1>11, <1>12, <2>1, SliceFacts, SliceDescending
  <2>3. n - 1 + 1 = n /\ \A i \in 1 .. n : 1 + i - 1 = i
    BY <1>11
  <2> QED BY <2>2, <2>3
<1> HIDE DEF kept
<1>14. \A i \in 1 .. Len(kept) :
          \/ kept[i] = Entry(f, d)
          \/ kept[i].frame < f /\ \E j \in 1 .. Len(q) : kept[i] = q[j]
  <2> SUFFICES ASSUME NEW i \in 1 .. Len(kept)
               PROVE  \/ kept[i] = Entry(f, d)
                      \/ kept[i].frame < f /\ \E j \in 1 .. Len(q) : kept[i] = q[j]
    OBVIOUS
  <2>1. kept[i] = all[i] /\ i \in 1 .. Len(all)
    BY <1>11, <1>13
  <2>2. CASE i = 1
    BY <1>10, <2>1, <2>2
  <2>3. CASE i > 1
    <3>1. all[i] = older[i - 1] /\ i - 1 \in 1 .. Len(older)
      BY <1>10, <1>11, <2>1, <2>3
    <3> QED BY <1>9, <2>1, <3>1
  <2> QED BY <1>11, <2>1, <2>2, <2>3
<1>15. /\ Push(s, f, d) \in Storage(M, D)
       /\ Push(s, f, d).entries = kept
       /\ Push(s, f, d).depth = s.depth
  BY <1>7, <1>13 DEF Storage
<1>16. NewOrOlder(kept, q, f, d)
  <2> HIDE DEF kept, q
  <2> QED BY <1>14 DEF NewOrOlder
<1> QED BY <1>13, <1>15, <1>16 DEF q

(***************************************************************************)
(* The entries a save keeps are among those that confirm has left.         *)
(***************************************************************************)
LEMMA NewOrOlderWithin ==
    ASSUME NEW q, NEW p, NEW r, NEW f, NEW d, NewOrOlder(q, p, f, d), Within(p, r)
    PROVE  NewOrOlder(q, r, f, d)
<1> SUFFICES ASSUME NEW i \in 1 .. Len(q), q[i] # Entry(f, d)
             PROVE  q[i].frame < f /\ \E j \in 1 .. Len(r) : q[i] = r[j]
  BY Zenon DEF NewOrOlder
<1>1. PICK m \in 1 .. Len(p) : q[i].frame < f /\ q[i] = p[m]
  BY Zenon DEF NewOrOlder
<1>2. PICK j \in 1 .. Len(r) : p[m] = r[j]
  BY Zenon DEF Within
<1> QED BY <1>1, <1>2, Zenon

(***************************************************************************)
(* The chain sync_depth, discard_old_snapshots, save.                      *)
(***************************************************************************)
LEMMA SaveChainFacts ==
    ASSUME NEW M \in Nat, M < Half, NEW D, NEW s \in Storage(M, D), Descending(s.entries),
           NEW w \in Nat, NEW k \in Int, NEW f \in 0 .. M, NEW d \in D
    PROVE  /\ SaveChain(s, w, k, f, d) \in Storage(M, D)
           /\ Descending(SaveChain(s, w, k, f, d).entries)
           /\ NewOrOlder(SaveChain(s, w, k, f, d).entries, s.entries, f, d)
<1> DEFINE s1 == SetDepth(s, w)
           s2 == Confirm(s1, k)
           t == Push(s2, f, d)
<1>1. s1 \in Storage(M, D) /\ s1.entries = s.entries
  BY DEF Storage, SetDepth
<1> HIDE DEF s1
<1>2. /\ s2 \in Storage(M, D)
      /\ Descending(s2.entries)
      /\ Within(s2.entries, s1.entries)
  BY <1>1, ConfirmFacts
<1> HIDE DEF s2
<1>3. /\ t \in Storage(M, D)
      /\ Descending(t.entries)
      /\ NewOrOlder(t.entries, s2.entries, f, d)
  BY <1>2, PushFacts
<1>4. SaveChain(s, w, k, f, d) = t
  BY DEF SaveChain, s1, s2
<1> HIDE DEF t
<1>5. NewOrOlder(t.entries, s.entries, f, d)
  BY <1>1, <1>2, <1>3, NewOrOlderWithin, Zenon
<1> QED BY <1>3, <1>4, <1>5
----------------------------------------------------------------------------
(* Exactly which entries are left, whatever the frame numbers and whatever *)
(* the order of the queue.                                                 *)

\* A storage whose entries are all in S.
Queues(S) == [entries : Seq(S), depth : Nat]

\* q without its first a - 1 entries.
FrontPopped(t, q, a) ==
    /\ Len(t) = Len(q) - a + 1
    /\ \A i \in 1 .. Len(t) : t[i] = q[a + i - 1]

\* The new entry e in front of the entries a .. b of q, at most w in all.
NewThenOlder(t, q, e, a, b, w) ==
    /\ Len(t) = IF b - a + 2 <= w THEN b - a + 2 ELSE w
    /\ \A i \in 1 .. Len(t) : t[i] = IF i = 1 THEN e ELSE q[a + i - 2]

(***************************************************************************)
(* rollback pops up to the first entry with the frame.                     *)
(***************************************************************************)
LEMMA RollbackShape ==
    ASSUME NEW S, NEW s \in Queues(S), NEW f, CanRollback(s, f)
    PROVE  /\ Rollback(s, f) \in Queues(S)
           /\ Rollback(s, f).depth = s.depth
           /\ \E a \in 1 .. Len(s.entries) :
                 /\ s.entries[a].frame = f
                 /\ FrontPopped(Rollback(s, f).entries, s.entries, a)
<1> DEFINE q == s.entries
           popped == {i \in Positions(q) : q[i].frame # f}
           a == FirstKept(Len(q), popped)
           kept == SubSeq(q, a, Len(q))
<1>1. q \in Seq(S) /\ Len(q) \in Nat
  BY LenProperties DEF Queues
<1>2. /\ a \in 1 .. (Len(q) + 1)
      /\ a \notin popped
      /\ 1 .. (a - 1) \subseteq popped
  <2>1. popped \in SUBSET (1 .. Len(q))
    BY DEF Positions
  <2> HIDE DEF popped, q
  <2> QED BY <1>1, <2>1, FirstKeptFacts
<1>3. Rollback(s, f) = [s EXCEPT !.entries = kept]
  BY DEF Rollback
<1>4. a \in 1 .. Len(q) /\ q[a].frame = f
  <2>1. PICK j \in 1 .. Len(q) : q[j].frame = f
    BY DEF CanRollback, StoredFrames
  <2>2. j \notin popped
    BY <2>1
  <2>3. a \in 1 .. Len(q)
    <3> HIDE DEF popped, a
    <3> QED BY <1>1, <1>2, <2>1, <2>2
  <2> HIDE DEF a
  <2> QED BY <1>2, <2>3 DEF Positions
<1> HIDE DEF a
<1>5. /\ kept \in Seq(S)
      /\ Len(kept) = Len(q) - a + 1
      /\ \A i \in 1 .. (Len(q) - a + 1) : kept[i] = q[a + i - 1]
  <2> HIDE DEF q
  <2>1. a \in 1 .. (Len(q) + 1) /\ Len(q) \in 0 .. Len(q) /\ a <= Len(q) + 1
    BY <1>1, <1>4
  <2> QED BY <1>1, <2>1, SliceFacts
<1> HIDE DEF kept
<1>6. /\ Rollback(s, f) \in Queues(S)
      /\ Rollback(s, f).entries = kept
      /\ Rollback(s, f).depth = s.depth
  BY <1>3, <1>5 DEF Queues
<1>7. FrontPopped(kept, q, a)
  BY <1>5 DEF FrontPopped
<1> QED BY <1>4, <1>6, <1>7

(***************************************************************************)
(* The chain of SaveWorld drops from the back only entries before the      *)
(* confirmed frame or beyond the depth, and from the front only entries at *)
(* or after the saved frame; the first of the older ones is not.           *)
(***************************************************************************)
LEMMA SaveChainShape ==
    ASSUME NEW S, NEW s \in Queues(S), NEW w \in Nat, NEW k, NEW f, NEW d, Entry(f, d) \in S
    PROVE  /\ SaveChain(s, w, k, f, d) \in Queues(S)
           /\ SaveChain(s, w, k, f, d).depth = w
           /\ \E b \in 0 .. Len(s.entries) : \E a \in 1 .. (b + 1) :
                 /\ \A i \in (b + 1) .. Len(s.entries) : s.entries[i].frame < k
                 /\ \A i \in 1 .. (a - 1) : AtOrAfter(s.entries[i].frame, f)
                 /\ a <= b => ~ AtOrAfter(s.entries[a].frame, f)
                 /\ NewThenOlder(SaveChain(s, w, k, f, d).entries, s.entries,
                                 Entry(f, d), a, b, w)
<1> DEFINE q == s.entries
           popped == {i \in Positions(q) : q[i].frame < k}
           b == LastKept(Len(q), popped)
           r == SubSeq(q, 1, b)
           after == {i \in Positions(r) : AtOrAfter(r[i].frame, f)}
           a == FirstKept(Len(r), after)
           older == SubSeq(r, a, Len(r))
           u == <<Entry(f, d)>> \o older
<1>1. q \in Seq(S) /\ Len(q) \in Nat
  BY LenProperties DEF Queues
<1>2. /\ b \in 0 .. Len(q)
      /\ \A i \in (b + 1) .. Len(q) : q[i].frame < k
  <2>1. popped \in SUBSET (1 .. Len(q))
    BY DEF Positions
  <2>2. b \in 0 .. Len(q) /\ (b + 1) .. Len(q) \subseteq popped
    <3> HIDE DEF popped, q
    <3> QED BY <1>1, <2>1, LastKeptFacts
  <2> HIDE DEF b
  <2> QED BY <2>2
<1>3. /\ r \in Seq(S)
      /\ Len(r) = b
      /\ \A i \in 1 .. b : r[i] = q[i]
  <2> HIDE DEF q, b
  <2>1. 1 \in 1 .. (Len(q) + 1) /\ 1 <= b + 1 /\ b - 1 + 1 = b /\ \A i \in 1 .. b : 1 + i - 1 = i
    BY <1>1, <1>2
  <2> QED BY <1>1, <1>2, <2>1, SliceFacts
<1> DEFINE s1 == SetDepth(s, w)
           s2 == Confirm(s1, k)
<1>4. s1 \in Queues(S) /\ s1.entries = q /\ s1.depth = w
  BY DEF Queues, SetDepth
<1> HIDE DEF s1
<1>5. s2 = [s1 EXCEPT !.entries = r]
  BY <1>4 DEF Confirm
<1> HIDE DEF r
<1>6. s2 \in Queues(S) /\ s2.entries = r /\ s2.depth = w
  <2> HIDE DEF s2
  <2> QED BY <1>3, <1>4, <1>5 DEF Queues
<1> HIDE DEF s2
<1>7. SaveChain(s, w, k, f, d) = [s2 EXCEPT !.entries = Truncate(u, w)]
  <2>1. SaveChain(s, w, k, f, d) = Push(s2, f, d)
    BY DEF SaveChain, s1, s2
  <2> QED BY <1>6, <2>1 DEF Push
<1>8. /\ a \in 1 .. (b + 1)
      /\ \A i \in 1 .. (a - 1) : AtOrAfter(q[i].frame, f)
      /\ a <= b => ~ AtOrAfter(q[a].frame, f)
  <2>1. after \in SUBSET (1 .. Len(r))
    BY DEF Positions
  <2>2. /\ a \in 1 .. (b + 1)
        /\ a \notin after
        /\ 1 .. (a - 1) \subseteq after
    <3> HIDE DEF after, b
    <3> QED BY <1>2, <1>3, <2>1, FirstKeptFacts
  <2> HIDE DEF a, q, b
  <2>3. \A i \in 1 .. (a - 1) : AtOrAfter(q[i].frame, f)
    <3> SUFFICES ASSUME NEW i \in 1 .. (a - 1) PROVE AtOrAfter(q[i].frame, f)
      OBVIOUS
    <3>1. i \in 1 .. b /\ i \in after
      BY <1>2, <2>2
    <3> QED BY <1>3, <3>1, Zenon
  <2>4. ASSUME a <= b PROVE ~ AtOrAfter(q[a].frame, f)
    <3>1. a \in 1 .. b
      BY <1>2, <2>2, <2>4
    <3>2. a \in Positions(r) /\ r[a] = q[a]
      BY <1>3, <3>1 DEF Positions
    <3> QED BY <2>2, <3>2, Zenon
  <2> QED BY <2>2, <2>3, <2>4
<1> HIDE DEF a, b, q
<1>9. /\ older \in Seq(S)
      /\ Len(older) = b - a + 1
      /\ \A i \in 1 .. (b - a + 1) : older[i] = q[a + i - 1]
  <2>1. a \in 1 .. (Len(r) + 1) /\ Len(r) \in 0 .. Len(r) /\ a <= Len(r) + 1
    BY <1>2, <1>3, <1>8
  <2>2. /\ older \in Seq(S)
        /\ Len(older) = b - a + 1
        /\ \A i \in 1 .. (b - a + 1) : older[i] = r[a + i - 1]
    BY <1>3, <2>1, SliceFacts
  <2>3. \A i \in 1 .. (b - a + 1) : a + i - 1 \in 1 .. b
    BY <1>2, <1>8
  <2> QED BY <1>3, <2>2, <2>3
<1> HIDE DEF older
<1>10. /\ u \in Seq(S)
       /\ Len(u) = b - a + 2
       /\ \A i \in 1 .. (b - a + 2) : u[i] = IF i = 1 THEN Entry(f, d) ELSE q[a + i - 2]
  <2> DEFINE e == Entry(f, d)
  <2>1. <<e>> \in Seq(S) /\ Len(<<e>>) = 1 /\ <<e>>[1] = e
    <3> HIDE DEF e
    <3> QED BY DEF e
  <2> HIDE DEF e
  <2>2. Len(older) \in Nat
    BY <1>9, LenProperties
  <2>3. /\ u \in Seq(S)
        /\ Len(u) = b - a + 2
        /\ \A i \in 1 .. (b - a + 2) : u[i] = IF i = 1 THEN e ELSE older[i - 1]
    <3>1. u = <<e>> \o older
      BY DEF e
    <3> HIDE DEF u
    <3>2. /\ u \in Seq(S)
          /\ Len(u) = 1 + Len(older)
          /\ \A i \in 1 .. (1 + Len(older)) : u[i] = IF i <= 1 THEN <<e>>[i] ELSE older[i - 1]
      BY <1>9, <2>1, <3>1, ConcatProperties
    <3>3. 1 + Len(older) = b - a + 2
      BY <1>2, <1>8, <1>9
    <3>4. \A i \in 1 .. (b - a + 2) : i <= 1 <=> i = 1
      OBVIOUS
    <3> QED BY <2>1, <3>2, <3>3, <3>4
  <2>4. ASSUME NEW i \in 2 .. (b - a + 2) PROVE older[i - 1] = q[a + i - 2]
    <3>1. i - 1 \in 1 .. (b - a + 1) /\ a + (i - 1) - 1 = a + i - 2
      BY <1>2, <1>8
    <3> QED BY <1>9, <3>1
  <2> HIDE DEF u
  <2> QED BY <1>2, <1>8, <2>3, <2>4 DEF e
<1> HIDE DEF u
<1>11. /\ Truncate(u, w) \in Seq(S)
       /\ NewThenOlder(Truncate(u, w), q, Entry(f, d), a, b, w)
  <2> DEFINE c == IF b - a + 2 <= w THEN b - a + 2 ELSE w
             e == Entry(f, d)
  <2>1. /\ c \in 0 .. Len(u) /\ 1 \in 1 .. (Len(u) + 1) /\ 1 <= c + 1 /\ c - 1 + 1 = c
        /\ \A i \in 1 .. c : 1 + i - 1 = i /\ i \in 1 .. (b - a + 2)
    <3>1. Len(u) = b - a + 2 /\ a \in Nat /\ b \in Nat /\ a <= b + 1
      BY <1>1, <1>2, <1>8, <1>10
    <3> QED BY <3>1
  <2>2. Truncate(u, w) = SubSeq(u, 1, c)
    BY <1>10 DEF Truncate
  <2> HIDE DEF c
  <2>3. /\ Truncate(u, w) \in Seq(S)
        /\ Len(Truncate(u, w)) = c
        /\ \A i \in 1 .. c : Truncate(u, w)[i] = u[i]
    BY <1>10, <2>1, <2>2, SliceFacts
  <2>4. \A i \in 1 .. c : Truncate(u, w)[i] = IF i = 1 THEN e ELSE q[a + i - 2]
    <3> HIDE DEF e
    <3> QED BY <1>10, <2>1, <2>3 DEF e
  <2> QED BY <2>3, <2>4 DEF NewThenOlder, c
<1>12. /\ SaveChain(s, w, k, f, d) \in Queues(S)
       /\ SaveChain(s, w, k, f, d).depth = w
       /\ SaveChain(s, w, k, f, d).entries = Truncate(u, w)
  BY <1>6, <1>7, <1>11 DEF Queues
<1> QED BY <1>2, <1>8, <1>11, <1>12 DEF q
=============================================================================
