------------------------ MODULE RollbackLoads_proofs ------------------------
(***************************************************************************)
(* GGRS never asks for a frame that was confirmed, and every frame it asks *)
(* for, other than the first, is still stored: for any number of players,  *)
(* any prediction window, check distance and input delay.                  *)
(***************************************************************************)
EXTENDS RollbackLoop_proofs

\* The last frame that the session knows to be confirmed.
Known == ConfirmedFrame(localLast)

AtLeastZero(n) == IF n < 0 THEN 0 ELSE n

\* Positions apart are at least as many frames apart.
Spread(q) == \A i, j \in 1 .. Len(q) : i <= j => q[j].frame <= q[i].frame - (j - i)

\* No two Advance requests in a row: every frame but the last one is saved.
Alternating(s) ==
    \A i \in 1 .. (Len(s) - 1) : s[i].type = "Advance" => s[i + 1].type # "Advance"

(***************************************************************************)
(* A P2P session: it is not further ahead of the confirmed frame than the  *)
(* window allows, and once it has handed out its requests all inputs that  *)
(* are known are right; frames up to ConfirmedFrameCount stay right.       *)
(***************************************************************************)
P2PInv ==
    /\ localLast <= current + InputDelay
    /\ current <= MaxPrediction + AtLeastZero(Known)
    /\ requests # <<>> => Incorrect = {}
    /\ HasSaved => confirmed <= Known /\ \A f \in Incorrect : f > confirmed

(***************************************************************************)
(* A SyncTest session: ConfirmedFrameCount stays behind the frame the next *)
(* rollback goes to.                                                       *)
(***************************************************************************)
SyncTestInv ==
    /\ \A i \in 1 .. Len(requests) : requests[i].frame < current
    /\ LoadPending => frame < current
    /\ MaxFrame > 0 => confirmed <= 0 \/ confirmed <= current - CheckDistance - 1

\* The first frame that may still be asked for.
Floor == IF kind = "P2P" THEN AtLeastZero(confirmed) + 1 ELSE current - CheckDistance - 1

(***************************************************************************)
(* The frames from Floor to the present one are stored, and the present    *)
(* one is by the time it is left.                                          *)
(***************************************************************************)
StoreInv ==
    /\ Alternating(requests)
    /\ (requests # <<>> /\ Head(requests).type = "Advance") => frame \in StoredFrames(store)
    /\ HasSaved => \A f \in 0 .. MaxFrame :
                      Floor <= f /\ f < frame => f \in StoredFrames(store)
    /\ LoadPending => /\ Head(requests).frame > confirmed
                      /\ Head(requests).frame < frame
                      /\ kind = "SyncTest" => Head(requests).frame >= Floor

(***************************************************************************)
(* The inductive invariant, beside IInv: the counters an earlier session   *)
(* may leave behind are harmless to the next one.                          *)
(***************************************************************************)
LoadInv ==
    /\ Spread(store.entries)
    /\ (requests = <<>> /\ frame = 0 /\ MaxFrame > 0 /\ ~ panicked) => confirmed <= 0
    /\ (requests # <<>> /\ MaxFrame > 0) => current >= 1
    /\ panicked => ~ LoadPending
    /\ (kind = "P2P" /\ ~ panicked) => P2PInv
    /\ (kind = "SyncTest" /\ ~ panicked) => SyncTestInv
    /\ (kind \in {"P2P", "SyncTest"} /\ ~ panicked) => StoreInv

----------------------------------------------------------------------------
(* The storage *)

(***************************************************************************)
(* A save adds its frame and keeps every older one that is not before the  *)
(* confirmed frame and less than the depth behind.                         *)
(***************************************************************************)
LEMMA SaveChainStored ==
    ASSUME NEW M \in Nat, M < Half, NEW D, NEW s \in Storage(M, D), Spread(s.entries),
           NEW w \in Nat, NEW k \in Int, NEW f \in 0 .. M, NEW d \in D
    PROVE  LET t == SaveChain(s, w, k, f, d)
           IN  /\ Spread(t.entries)
               /\ w >= 1 => f \in StoredFrames(t)
               /\ w >= 1 => \A g \in StoredFrames(s) :
                               g < f /\ k <= g /\ f - w < g => g \in StoredFrames(t)
<1> DEFINE S == [frame : 0 .. M, data : D]
           q == s.entries
           t == SaveChain(s, w, k, f, d)
           r == t.entries
           e == Entry(f, d)
<1>1. s \in Queues(S) /\ e \in S /\ q \in Seq(S) /\ Len(q) \in Nat
  BY LenProperties DEF Storage, Queues, Entry
<1>2. t \in Queues(S)
  BY <1>1, SaveChainShape
<1>3. PICK b \in 0 .. Len(q) : \E a \in 1 .. (b + 1) :
         /\ \A i \in (b + 1) .. Len(q) : q[i].frame < k
         /\ \A i \in 1 .. (a - 1) : AtOrAfter(q[i].frame, f)
         /\ a <= b => ~ AtOrAfter(q[a].frame, f)
         /\ NewThenOlder(r, q, e, a, b, w)
  <2>1. Entry(f, d) \in S
    BY <1>1
  <2> HIDE DEF S
  <2> QED BY <1>1, <2>1, SaveChainShape
<1>4. PICK a \in 1 .. (b + 1) :
         /\ \A i \in (b + 1) .. Len(q) : q[i].frame < k
         /\ \A i \in 1 .. (a - 1) : AtOrAfter(q[i].frame, f)
         /\ a <= b => ~ AtOrAfter(q[a].frame, f)
         /\ NewThenOlder(r, q, e, a, b, w)
  BY <1>3
<1>5. \A i \in 1 .. Len(q) : q[i].frame \in 0 .. M
  <2> SUFFICES ASSUME NEW i \in 1 .. Len(q) PROVE q[i].frame \in 0 .. M
    OBVIOUS
  <2>1. q[i] \in S
    BY <1>1, ElementOfSeq
  <2> QED BY <2>1
<1>6. \A i \in 1 .. Len(q) : AtOrAfter(q[i].frame, f) <=> q[i].frame >= f
  <2> HIDE DEF q
  <2> QED BY <1>5, HalfAssumption DEF AtOrAfter, AbsDiff
<1>7. r \in Seq(S) /\ Len(r) \in Nat
  BY <1>2, LenProperties DEF Queues
<1>8. Spread(q)
  BY DEF q
<1> HIDE DEF q, t
<1>9. a \in Nat /\ b \in Nat /\ a >= 1 /\ a <= b + 1 /\ b <= Len(q)
  BY <1>1, <1>3, <1>4
<1>10. ASSUME NEW m \in a .. b
       PROVE  q[m].frame \in 0 .. M /\ q[m].frame <= f - 1 - (m - a)
  <2>1. a \in 1 .. Len(q) /\ m \in 1 .. Len(q) /\ a <= b /\ a <= m
    BY <1>1, <1>9
  <2>2. ~ (q[a].frame >= f)
    BY <1>4, <1>6, <2>1
  <2>3. q[m].frame <= q[a].frame - (m - a)
    BY <1>8, <2>1 DEF Spread
  <2>4. q[a].frame \in 0 .. M /\ q[m].frame \in 0 .. M
    BY <1>5, <2>1
  <2> QED BY <1>9, <2>1, <2>2, <2>3, <2>4
<1>11. /\ Len(r) <= w /\ Len(r) <= b - a + 2
       /\ w >= 1 => Len(r) >= 1
       /\ \A j \in Nat : 2 <= j /\ j <= w /\ j <= b - a + 2 => j \in 2 .. Len(r)
  BY <1>4, <1>9 DEF NewThenOlder
<1>12. \A i \in 1 .. Len(r) : r[i] = IF i = 1 THEN e ELSE q[a + i - 2]
  BY <1>4 DEF NewThenOlder
<1> HIDE DEF r
<1>13. 1 \in 1 .. Len(r) => r[1].frame = f
  BY <1>12 DEF Entry
<1>14. ASSUME NEW i \in 2 .. Len(r)
       PROVE  r[i] = q[a + i - 2] /\ a + i - 2 \in a .. b
  <2>1. i \in 1 .. Len(r) /\ i # 1
    BY <1>7
  <2>2. r[i] = q[a + i - 2]
    BY <1>12, <2>1
  <2> QED BY <1>7, <1>9, <1>11, <2>2
<1>15. Spread(r)
  <2> SUFFICES ASSUME NEW i \in 1 .. Len(r), NEW j \in 1 .. Len(r), i <= j
               PROVE  r[j].frame <= r[i].frame - (j - i)
    BY DEF Spread
  <2>1. CASE j = 1
    <3>1. i = 1
      BY <2>1
    <3> QED BY <1>13, <2>1, <3>1
  <2>2. CASE j # 1 /\ i = 1
    <3>1. j \in 2 .. Len(r)
      BY <1>7, <2>2
    <3>2. r[j].frame <= f - 1 - ((a + j - 2) - a) /\ r[j].frame \in 0 .. M
      BY <1>10, <1>14, <3>1
    <3> QED BY <1>9, <1>13, <2>2, <3>2
  <2>3. CASE i # 1
    <3>1. i \in 2 .. Len(r) /\ j \in 2 .. Len(r)
      BY <1>7, <2>3
    <3> DEFINE x == a + i - 2
               y == a + j - 2
    <3>2. x \in a .. b /\ y \in a .. b /\ r[i] = q[x] /\ r[j] = q[y]
      BY <1>14, <3>1
    <3>2a. x <= y /\ y - x = j - i
      BY <1>9, <3>1
    <3> HIDE DEF x, y
    <3>2b. Len(q) \in Nat
      BY <1>1
    <3>2c. x \in 1 .. Len(q) /\ y \in 1 .. Len(q)
      BY <1>9, <3>2, <3>2b
    <3>3. x \in 1 .. Len(q) /\ y \in 1 .. Len(q) /\ x <= y /\ y - x = j - i
      BY <3>2a, <3>2c
    <3>4. q[y].frame <= q[x].frame - (y - x)
      BY <1>8, <3>3 DEF Spread
    <3> QED BY <3>2, <3>3, <3>4
  <2> QED BY <2>1, <2>2, <2>3
<1>16. w >= 1 => f \in StoredFrames(t)
  <2> SUFFICES ASSUME w >= 1 PROVE f \in StoredFrames(t)
    OBVIOUS
  <2>1. 1 \in 1 .. Len(r)
    BY <1>7, <1>11
  <2> QED BY <1>13, <2>1 DEF StoredFrames, r
<1>17. ASSUME w >= 1, NEW g \in StoredFrames(s), g < f, k <= g, f - w < g
       PROVE  g \in StoredFrames(t)
  <2>1. PICK m \in 1 .. Len(q) : g = q[m].frame
    BY DEF StoredFrames, q
  <2>2. g \in 0 .. M
    BY <1>5, <2>1
  <2>3. m <= b
    <3> SUFFICES ASSUME ~ (m <= b) PROVE FALSE
      OBVIOUS
    <3>1. m \in (b + 1) .. Len(q)
      BY <1>1, <1>9
    <3>2. q[m].frame < k
      BY <1>4, <3>1
    <3> QED BY <1>17, <2>1, <2>2, <3>2
  <2>4. a <= m
    <3> SUFFICES ASSUME ~ (a <= m) PROVE FALSE
      OBVIOUS
    <3>1. m \in 1 .. (a - 1)
      BY <1>1, <1>9
    <3>2. q[m].frame >= f
      BY <1>4, <1>6, <3>1
    <3> QED BY <1>17, <2>1, <2>2, <3>2
  <2>5. g <= f - 1 - (m - a)
    BY <1>9, <1>10, <2>1, <2>3, <2>4
  <2> DEFINE j == m - a + 2
  <2>6. j \in Nat /\ 2 <= j /\ j <= w /\ j <= b - a + 2 /\ a + j - 2 = m
    BY <1>9, <1>17, <2>2, <2>3, <2>4, <2>5
  <2> HIDE DEF j
  <2>7. j \in 2 .. Len(r)
    BY <1>11, <2>6
  <2>8. r[j] = q[m] /\ j \in 1 .. Len(r)
    BY <1>7, <1>14, <2>6, <2>7
  <2> QED BY <2>1, <2>8 DEF StoredFrames, r
<1> QED BY <1>15, <1>16, <1>17 DEF r, t

(***************************************************************************)
(* A rollback keeps its frame and every older one.                         *)
(***************************************************************************)
LEMMA RollbackStored ==
    ASSUME NEW M \in Nat, NEW D, NEW s \in Storage(M, D), Spread(s.entries),
           NEW f, CanRollback(s, f)
    PROVE  LET t == Rollback(s, f)
           IN  /\ Spread(t.entries)
               /\ f \in StoredFrames(t)
               /\ \A g \in StoredFrames(s) : g <= f => g \in StoredFrames(t)
<1> DEFINE S == [frame : 0 .. M, data : D]
           q == s.entries
           t == Rollback(s, f)
           r == t.entries
<1>1. s \in Queues(S) /\ q \in Seq(S) /\ Len(q) \in Nat
  BY LenProperties DEF Storage, Queues
<1>2. t \in Queues(S)
  BY <1>1, RollbackShape
<1>3. PICK a \in 1 .. Len(q) : q[a].frame = f /\ FrontPopped(r, q, a)
  BY <1>1, RollbackShape
<1>4. \A i \in 1 .. Len(q) : q[i].frame \in 0 .. M
  <2> SUFFICES ASSUME NEW i \in 1 .. Len(q) PROVE q[i].frame \in 0 .. M
    OBVIOUS
  <2>1. q[i] \in S
    BY <1>1, ElementOfSeq
  <2> QED BY <2>1
<1>5. r \in Seq(S) /\ Len(r) \in Nat
  BY <1>2, LenProperties DEF Queues
<1>6. Spread(q)
  BY DEF q
<1> HIDE DEF q, t
<1>7. Len(r) = Len(q) - a + 1 /\ \A i \in 1 .. Len(r) : r[i] = q[a + i - 1]
  BY <1>3 DEF FrontPopped
<1> HIDE DEF r
<1>8. ASSUME NEW i \in 1 .. Len(r) PROVE r[i] = q[a + i - 1] /\ a + i - 1 \in 1 .. Len(q)
  BY <1>1, <1>5, <1>7
<1>9. Spread(r)
  <2> SUFFICES ASSUME NEW i \in 1 .. Len(r), NEW j \in 1 .. Len(r), i <= j
               PROVE  r[j].frame <= r[i].frame - (j - i)
    BY DEF Spread
  <2> DEFINE x == a + i - 1
             y == a + j - 1
  <2>1. x \in 1 .. Len(q) /\ y \in 1 .. Len(q) /\ r[i] = q[x] /\ r[j] = q[y]
    BY <1>8
  <2>2. x <= y /\ y - x = j - i
    BY <1>1, <1>5
  <2> HIDE DEF x, y
  <2>3. q[y].frame <= q[x].frame - (y - x)
    BY <1>6, <2>1, <2>2 DEF Spread
  <2> QED BY <2>1, <2>2, <2>3
<1>10. ASSUME NEW m \in a .. Len(q) PROVE q[m].frame \in StoredFrames(t)
  <2> DEFINE j == m - a + 1
  <2>1. j \in 1 .. Len(r) /\ a + j - 1 = m
    BY <1>1, <1>7
  <2> HIDE DEF j
  <2>2. r[j] = q[m]
    BY <1>7, <2>1
  <2> QED BY <2>1, <2>2 DEF StoredFrames, r
<1>11. f \in StoredFrames(t)
  BY <1>1, <1>3, <1>10
<1>12. ASSUME NEW g \in StoredFrames(s), g <= f PROVE g \in StoredFrames(t)
  <2>1. PICK m \in 1 .. Len(q) : g = q[m].frame
    BY DEF StoredFrames, q
  <2>2. a <= m
    <3> SUFFICES ASSUME ~ (a <= m) PROVE FALSE
      OBVIOUS
    <3>1. m <= a /\ a - m >= 1
      BY <1>1
    <3>2. q[a].frame <= q[m].frame - (a - m)
      BY <1>6, <3>1 DEF Spread
    <3>3. q[a].frame \in 0 .. M /\ q[m].frame \in 0 .. M
      BY <1>4
    <3> QED BY <1>1, <1>3, <1>12, <2>1, <3>1, <3>2, <3>3
  <2> QED BY <1>1, <1>10, <2>1, <2>2
<1> QED BY <1>9, <1>11, <1>12 DEF r, t

----------------------------------------------------------------------------
(* Lists of requests *)

\* No frame after c is named.
UpTo(s, c) == \A i \in 1 .. Len(s) : s[i].frame <= c

(***************************************************************************)
(* Two lists of which the first does not end with an advance.              *)
(***************************************************************************)
LEMMA AlternatingConcat ==
    ASSUME NEW s \in Seq(Requests), NEW t \in Seq(Requests), NEW c, s # <<>>,
           Alternating(s), Alternating(t), UpTo(s, c), UpTo(t, c),
           s[Len(s)].type # "Advance"
    PROVE  /\ s \o t \in Seq(Requests)
           /\ Alternating(s \o t)
           /\ UpTo(s \o t, c)
           /\ s \o t # <<>>
           /\ t # <<>> => (s \o t)[Len(s \o t)] = t[Len(t)]
<1> DEFINE u == s \o t
<1>1. Len(s) \in Nat \ {0} /\ Len(t) \in Nat /\ (t # <<>> => Len(t) # 0)
  BY LenProperties, EmptySeq
<1>2. /\ u \in Seq(Requests) /\ Len(u) = Len(s) + Len(t)
      /\ \A i \in 1 .. Len(s) + Len(t) : u[i] = IF i <= Len(s) THEN s[i] ELSE t[i - Len(s)]
  BY ConcatProperties
<1> HIDE DEF u
<1>3. \A i \in 1 .. Len(s) : u[i] = s[i]
  <2>1. \A i \in 1 .. Len(s) : i \in 1 .. Len(s) + Len(t) /\ i <= Len(s)
    BY <1>1
  <2> QED BY <1>2, <2>1
<1>4. \A i \in 1 .. Len(t) : u[Len(s) + i] = t[i]
  <2>1. \A i \in 1 .. Len(t) : /\ Len(s) + i \in 1 .. Len(s) + Len(t)
                               /\ ~ (Len(s) + i <= Len(s))
                               /\ Len(s) + i - Len(s) = i
    BY <1>1
  <2> QED BY <1>2, <2>1
<1>5. UpTo(u, c)
  <2> SUFFICES ASSUME NEW i \in 1 .. Len(u) PROVE u[i].frame <= c
    BY DEF UpTo
  <2>1. CASE i \in 1 .. Len(s)
    BY <1>3, <2>1 DEF UpTo
  <2>2. CASE i \notin 1 .. Len(s)
    <3> DEFINE j == i - Len(s)
    <3>1. j \in 1 .. Len(t) /\ i = Len(s) + j
      BY <1>1, <1>2, <2>2
    <3> HIDE DEF j
    <3> QED BY <1>4, <3>1 DEF UpTo
  <2> QED BY <2>1, <2>2
<1>6. Alternating(u)
  <2> SUFFICES ASSUME NEW i \in 1 .. (Len(u) - 1), u[i].type = "Advance"
               PROVE  u[i + 1].type # "Advance"
    BY DEF Alternating
  <2>1. CASE i < Len(s)
    <3>1. i \in 1 .. (Len(s) - 1) /\ i \in 1 .. Len(s) /\ i + 1 \in 1 .. Len(s)
      BY <1>1, <2>1
    <3>2. u[i] = s[i] /\ u[i + 1] = s[i + 1]
      BY <1>3, <3>1
    <3> QED BY <3>1, <3>2 DEF Alternating
  <2>2. CASE i = Len(s)
    <3>1. u[i] = s[Len(s)]
      BY <1>1, <1>3, <2>2
    <3> QED BY <3>1
  <2>3. CASE i > Len(s)
    <3> DEFINE j == i - Len(s)
    <3>1. /\ j \in 1 .. (Len(t) - 1) /\ j \in 1 .. Len(t) /\ j + 1 \in 1 .. Len(t)
          /\ i = Len(s) + j /\ i + 1 = Len(s) + (j + 1)
      BY <1>1, <1>2, <2>3
    <3> HIDE DEF j
    <3>2. u[i] = t[j] /\ u[i + 1] = t[j + 1]
      BY <1>4, <3>1
    <3> QED BY <3>1, <3>2 DEF Alternating
  <2>4. i \in Nat
    BY <1>1, <1>2
  <2> QED BY <1>1, <2>1, <2>2, <2>3, <2>4
<1>7. u # <<>>
  BY <1>1, <1>2, EmptySeq
<1>8. t # <<>> => u[Len(u)] = t[Len(t)]
  <2> SUFFICES ASSUME t # <<>> PROVE u[Len(u)] = t[Len(t)]
    OBVIOUS
  <2>1. Len(t) \in 1 .. Len(t)
    BY <1>1
  <2> QED BY <1>2, <1>4, <2>1
<1> QED BY <1>2, <1>5, <1>6, <1>7, <1>8 DEF u

(***************************************************************************)
(* One request.                                                            *)
(***************************************************************************)
LEMMA AlternatingOne ==
    ASSUME NEW r \in Requests, NEW c, r.frame <= c
    PROVE  /\ <<r>> \in Seq(Requests) /\ <<r>> # <<>> /\ Len(<<r>>) = 1 /\ <<r>>[1] = r
           /\ Alternating(<<r>>) /\ UpTo(<<r>>, c)
<1>1. <<r>> \in Seq(Requests) /\ <<r>> # <<>> /\ Len(<<r>>) = 1 /\ <<r>>[1] = r
  OBVIOUS
<1> QED BY <1>1 DEF Alternating, UpTo

(***************************************************************************)
(* The resimulation saves each frame it has advanced to.                   *)
(***************************************************************************)
LEMMA ResimulationAlternates ==
    ASSUME NEW from \in 0 .. MaxFrame, NEW to \in 0 .. MaxFrame, from < to,
           NEW inp \in Seq(PlayerInputs), to <= Len(inp)
    PROVE  LET s == Resimulation(from, to, inp)
           IN  /\ s \in Seq(Requests) /\ s # <<>>
               /\ Alternating(s)
               /\ UpTo(s, to)
               /\ s[Len(s)].type # "Advance"
<1> DEFINE n == 2 * (to - from)
           s == Resimulation(from, to, inp)
           at(i) == from + (i \div 2)
<1>1. n \in Nat \ {0} /\ n % 2 # 1
  OBVIOUS
<1>2. \A i \in 1 .. n : s[i] = IF i % 2 = 1 THEN AdvanceFrame(at(i), inp[at(i) + 1])
                                            ELSE SaveGameState(at(i))
  BY DEF Resimulation
<1>3. s \in Seq(Requests)
  BY ResimulationPath DEF Path
<1>4. Len(s) = n
  <2>1. s = [i \in 1 .. n |-> s[i]]
    BY DEF Resimulation
  <2>2. DOMAIN s = 1 .. n
    BY <2>1
  <2> HIDE DEF s, n
  <2> QED BY <1>1, <1>3, <2>2, LenProperties
<1> HIDE DEF s
<1>5. \A i \in 1 .. n : /\ s[i].frame = at(i)
                        /\ i % 2 # 1 => s[i].type = "Save"
  <2> SUFFICES ASSUME NEW i \in 1 .. n
               PROVE  s[i].frame = at(i) /\ (i % 2 # 1 => s[i].type = "Save")
    OBVIOUS
  <2> DEFINE f == at(i)
  <2>1. i % 2 = 1 => s[i] = AdvanceFrame(f, inp[f + 1])
    BY <1>2
  <2>2. i % 2 # 1 => s[i] = SaveGameState(f)
    BY <1>2
  <2> HIDE DEF f
  <2>3. s[i].frame = f /\ (i % 2 # 1 => s[i].type = "Save")
    BY <2>1, <2>2 DEF AdvanceFrame, SaveGameState
  <2> QED BY <2>3 DEF f
<1>7. \A i \in 1 .. n : at(i) <= to
  OBVIOUS
<1>8. \A i \in 1 .. (n - 1) : i \in 1 .. n /\ i + 1 \in 1 .. n
                              /\ (i % 2 = 1 => (i + 1) % 2 # 1)
  BY <1>1
<1> HIDE DEF n, at
<1>9. Alternating(s)
  <2> SUFFICES ASSUME NEW i \in 1 .. (n - 1), s[i].type = "Advance"
               PROVE  s[i + 1].type # "Advance"
    BY <1>4 DEF Alternating
  <2>1. i % 2 = 1
    BY <1>5, <1>8
  <2> QED BY <1>5, <1>8, <2>1
<1>10. UpTo(s, to)
  BY <1>4, <1>5, <1>7 DEF UpTo
<1>11. s[Len(s)].type # "Advance" /\ s # <<>>
  BY <1>1, <1>3, <1>4, <1>5, EmptySeq
<1> QED BY <1>3, <1>9, <1>10, <1>11 DEF s

(***************************************************************************)
(* The requests of a step up to the save of the current frame.             *)
(***************************************************************************)
LEMMA CorrectAndSaveAlternates ==
    ASSUME NEW c \in 0 .. MaxFrame, NEW load \in {NullFrame} \union (0 .. (c - 1)),
           NEW inp \in Seq(PlayerInputs), c <= Len(inp)
    PROVE  LET s == CorrectAndSave(c, load, inp)
           IN  /\ s \in Seq(Requests) /\ s # <<>>
               /\ Alternating(s)
               /\ UpTo(s, c)
               /\ s[Len(s)].type # "Advance"
<1>1. MaxFrame \in Nat
  BY RollbackLoopAssumption
<1>2. CASE load = NullFrame
  <2> DEFINE r == SaveGameState(c)
  <2>1. r \in Requests /\ r.type = "Save" /\ r.frame = c /\ r.frame <= c
    BY <1>1 DEF SaveGameState, Requests
  <2>2. CorrectAndSave(c, load, inp) = <<r>>
    BY <1>2 DEF CorrectAndSave
  <2> HIDE DEF r
  <2> QED BY <2>1, <2>2, AlternatingOne
<1>3. CASE load # NullFrame
  <2> DEFINE r == LoadGameState(load)
             re == Resimulation(load, c, inp)
  <2>1. load \in 0 .. MaxFrame /\ load < c
    BY <1>1, <1>3
  <2>2. r \in Requests /\ r.type = "Load" /\ r.frame <= c
    BY <1>1, <2>1 DEF LoadGameState, Requests
  <2>3. CorrectAndSave(c, load, inp) = <<r>> \o re
    BY <1>3 DEF CorrectAndSave
  <2>4. /\ re \in Seq(Requests) /\ re # <<>> /\ Alternating(re) /\ UpTo(re, c)
        /\ re[Len(re)].type # "Advance"
    BY <2>1, ResimulationAlternates
  <2> HIDE DEF r, re
  <2>5. /\ <<r>> \in Seq(Requests) /\ <<r>> # <<>> /\ Alternating(<<r>>) /\ UpTo(<<r>>, c)
        /\ <<r>>[Len(<<r>>)].type # "Advance"
    <3>1. /\ <<r>> \in Seq(Requests) /\ <<r>> # <<>> /\ Len(<<r>>) = 1 /\ <<r>>[1] = r
          /\ Alternating(<<r>>) /\ UpTo(<<r>>, c)
      BY <2>2, AlternatingOne
    <3> DEFINE v == <<r>>
    <3> HIDE DEF v
    <3>2. v[Len(v)] = r
      BY <3>1 DEF v
    <3> QED BY <2>2, <3>1, <3>2 DEF v
  <2> DEFINE v == <<r>>
  <2> HIDE DEF v
  <2>6. /\ v \in Seq(Requests) /\ v # <<>> /\ Alternating(v) /\ UpTo(v, c)
        /\ v[Len(v)].type # "Advance"
    BY <2>5 DEF v
  <2>7. /\ v \o re \in Seq(Requests) /\ v \o re # <<>> /\ Alternating(v \o re)
        /\ UpTo(v \o re, c) /\ (v \o re)[Len(v \o re)].type # "Advance"
    BY <2>4, <2>6, AlternatingConcat
  <2> QED BY <2>3, <2>7 DEF v
<1> QED BY <1>2, <1>3

(***************************************************************************)
(* The requests of a whole step.                                           *)
(***************************************************************************)
LEMMA StepAlternates ==
    ASSUME NEW c \in 0 .. MaxFrame, NEW load \in {NullFrame} \union (0 .. (c - 1)),
           NEW advance \in BOOLEAN, NEW inp \in Seq(PlayerInputs), c <= Len(inp),
           advance => c < Len(inp)
    PROVE  /\ LET s == CorrectAndSave(c, load, inp) \o Proceed(c, advance, inp)
              IN  Alternating(s) /\ UpTo(s, c)
           /\ Alternating(P2PRequests(c, load, advance, inp))
<1> DEFINE first == IF c = 0 THEN <<SaveGameState(0)>> ELSE <<>>
           cs == CorrectAndSave(c, load, inp)
           pr == Proceed(c, advance, inp)
<1>1. MaxFrame \in Nat /\ c \in Int
  BY RollbackLoopAssumption
<1>2. cs \in Seq(Requests) /\ cs # <<>> /\ Alternating(cs) /\ UpTo(cs, c) /\ cs[Len(cs)].type # "Advance"
  BY CorrectAndSaveAlternates
<1>3. pr \in Seq(Requests) /\ Alternating(pr) /\ UpTo(pr, c)
  <2>1. CASE advance
    <3> DEFINE r == AdvanceFrame(c, inp[c + 1])
    <3>1. inp[c + 1] \in PlayerInputs
      <4>1. c + 1 \in 1 .. Len(inp)
        BY <1>1, <2>1, LenProperties
      <4> QED BY <4>1, ElementOfSeq
    <3>2. r \in Requests /\ r.frame = c /\ r.frame <= c
      BY <1>1, <3>1, AdvanceRequest
    <3>3. pr = <<r>>
      BY <2>1 DEF Proceed
    <3> HIDE DEF r, pr
    <3> QED BY <3>2, <3>3, AlternatingOne
  <2>2. CASE ~ advance
    <3>1. pr = <<>>
      BY <2>2 DEF Proceed
    <3> HIDE DEF pr
    <3> QED BY <3>1 DEF Alternating, UpTo
  <2> QED BY <2>1, <2>2
<1>4. P2PRequests(c, load, advance, inp) = (first \o cs) \o pr
  BY DEF P2PRequests
<1>5. c # 0 => first = <<>>
  OBVIOUS
<1>6. c = 0 => first = <<SaveGameState(0)>>
  OBVIOUS
<1> HIDE DEF cs, pr, first
<1>7. cs \o pr \in Seq(Requests) /\ Alternating(cs \o pr) /\ UpTo(cs \o pr, c)
  BY <1>2, <1>3, AlternatingConcat
<1>8. Alternating((first \o cs) \o pr)
  <2>1. CASE c # 0
    BY <1>2, <1>5, <1>7, <2>1, ConcatEmptySeq
  <2>2. CASE c = 0
    <3> DEFINE r == SaveGameState(0)
               v == <<r>>
    <3>1. r \in Requests /\ r.type = "Save" /\ r.frame <= c
      BY <1>1, <2>2 DEF SaveGameState, Requests
    <3>2. first = v
      BY <1>6, <2>2
    <3> HIDE DEF r
    <3>3. /\ v \in Seq(Requests) /\ v # <<>> /\ Len(v) = 1 /\ v[1] = r
          /\ Alternating(v) /\ UpTo(v, c)
      BY <3>1, AlternatingOne
    <3> HIDE DEF v
    <3>4. v[Len(v)].type # "Advance"
      BY <3>1, <3>3
    <3>5. /\ v \o cs \in Seq(Requests) /\ Alternating(v \o cs) /\ UpTo(v \o cs, c) /\ v \o cs # <<>>
          /\ (v \o cs)[Len(v \o cs)].type # "Advance"
      BY <1>2, <3>3, <3>4, AlternatingConcat
    <3> DEFINE x == v \o cs
    <3> HIDE DEF x
    <3>6. /\ x \in Seq(Requests) /\ Alternating(x) /\ UpTo(x, c) /\ x # <<>>
          /\ x[Len(x)].type # "Advance"
      BY <3>5 DEF x
    <3>7. Alternating(x \o pr)
      BY <1>3, <3>6, AlternatingConcat
    <3> QED BY <3>2, <3>7 DEF x
  <2> QED BY <2>1, <2>2
<1> QED BY <1>4, <1>7, <1>8 DEF cs, pr

----------------------------------------------------------------------------
(* What the session knows *)

(***************************************************************************)
(* The confirmed frame is the last one with local inputs, or the last one  *)
(* received from a player who is still there, whichever is first.          *)
(***************************************************************************)
LEMMA KnownFacts ==
    ASSUME TypeOK
    PROVE  /\ Known \in -1 .. (MaxFrame + InputDelay)
           /\ Known <= localLast
           /\ \A p \in Remotes \ gone : Known <= Len(received[p]) - 1
           /\ Known = localLast \/ \E p \in Remotes \ gone : Known = Len(received[p]) - 1
<1> DEFINE R == {Len(received[p]) - 1 : p \in Remotes \ gone}
           S == {localLast} \union R
<1>1. Known \in -1 .. (MaxFrame + InputDelay)
  BY ConfirmedFrameType DEF Known
<1>2. \A p \in Remotes : Len(received[p]) \in Nat
  BY LenProperties DEF TypeOK
<1>3. localLast \in -1 .. (MaxFrame + InputDelay) /\ MaxFrame \in Nat /\ InputDelay \in Nat
  BY RollbackLoopAssumption DEF TypeOK
<1>4. S \in SUBSET Int /\ localLast \in S /\ S # {} /\ \A x \in S : x >= -1
  BY <1>2, <1>3
<1>5. \A p \in Remotes \ gone : Len(received[p]) - 1 \in S
  OBVIOUS
<1>6. \A x \in S : x = localLast \/ \E p \in Remotes \ gone : x = Len(received[p]) - 1
  OBVIOUS
<1>7. Known = Smallest(S)
  BY DEF Known, ConfirmedFrame
<1> HIDE DEF S
<1>8. Smallest(S) \in S /\ \A y \in S : Smallest(S) <= y
  BY <1>4, SmallestFacts
<1> QED BY <1>1, <1>4, <1>5, <1>6, <1>7, <1>8

(***************************************************************************)
(* It never goes back while inputs arrive, local inputs are added and      *)
(* players leave.                                                          *)
(***************************************************************************)
LEMMA KnownGrows ==
    ASSUME TypeOK, TypeOK', localLast <= localLast', gone \subseteq gone',
           \A p \in Remotes : Len(received[p]) <= Len(received'[p])
    PROVE  Known <= Known'
<1>1. /\ Known \in Int /\ Known <= localLast
      /\ \A p \in Remotes \ gone : Known <= Len(received[p]) - 1
  BY KnownFacts, RollbackLoopAssumption
<1>2. Known' = localLast' \/ \E p \in Remotes \ gone' : Known' = Len(received'[p]) - 1
  <2> DEFINE R == {Len(received'[p]) - 1 : p \in Remotes \ gone'}
             S == {localLast'} \union R
  <2>1. \A p \in Remotes : Len(received'[p]) \in Nat
    BY LenProperties DEF TypeOK
  <2>2. localLast' \in Int /\ localLast' >= -1
    BY RollbackLoopAssumption DEF TypeOK
  <2>3. S \in SUBSET Int /\ S # {} /\ \A x \in S : x >= -1
    BY <2>1, <2>2
  <2>4. \A x \in S : x = localLast' \/ \E p \in Remotes \ gone' : x = Len(received'[p]) - 1
    OBVIOUS
  <2>5. Known' = Smallest(S)
    BY DEF Known, ConfirmedFrame, Smallest
  <2> HIDE DEF S
  <2> QED BY <2>3, <2>4, <2>5, SmallestFacts
<1>3. CASE Known' = localLast'
  <2>1. localLast \in Int /\ localLast' \in Int
    BY RollbackLoopAssumption DEF TypeOK
  <2> QED BY <1>1, <1>3, <2>1
<1>4. CASE \E p \in Remotes \ gone' : Known' = Len(received'[p]) - 1
  <2>1. PICK p \in Remotes \ gone' : Known' = Len(received'[p]) - 1
    BY <1>4
  <2>2. p \in Remotes \ gone /\ Len(received[p]) \in Nat /\ Len(received'[p]) \in Nat
    BY LenProperties DEF TypeOK
  <2>3. Known <= Len(received[p]) - 1 /\ Len(received[p]) <= Len(received'[p])
    BY <1>1, <2>2
  <2> QED BY <1>1, <2>1, <2>2, <2>3
<1> QED BY <1>2, <1>3, <1>4

(***************************************************************************)
(* With no requests left the world is at the session's current frame.      *)
(***************************************************************************)
LEMMA IdleFrame ==
    ASSUME IInv, kind # "None", requests = <<>>, ~ panicked
    PROVE  frame = current
BY DEF IInv, RequestsLeadToCurrent, LoadPending, Path

(***************************************************************************)
(* Before any request of a session has been made.                          *)
(***************************************************************************)
LEMMA InitLoadInv == Init => LoadInv
<1> SUFFICES ASSUME Init PROVE LoadInv
  OBVIOUS
<1>1. Spread(store.entries)
  BY DEF Init, EmptySnapshots, Spread
<1>2. requests = <<>> /\ kind = "None" /\ confirmed = 0 /\ panicked = FALSE
  BY DEF Init
<1>3. confirmed <= 0
  BY <1>2
<1> QED BY <1>1, <1>2, <1>3 DEF LoadInv

----------------------------------------------------------------------------
(* The user and the network *)

(***************************************************************************)
(* A new session starts with nothing known and nothing confirmed.          *)
(***************************************************************************)
LEMMA InsertSessionLoads ==
    ASSUME IInv, LoadInv, IInv', NEW k \in Kinds, InsertSession(k)
    PROVE  LoadInv'
<1>1. /\ requests = <<>> /\ ~ panicked /\ frame = 0
      /\ kind' = k /\ current' = 0 /\ localLast' = -1
      /\ frame' = frame /\ confirmed' = confirmed /\ store' = store
      /\ panicked' = panicked /\ requests' = requests
  BY DEF InsertSession, Idle, NullFrame
<1>2. Spread(store'.entries)
  BY <1>1 DEF LoadInv
<1>3. MaxFrame > 0 => confirmed <= 0
  BY <1>1 DEF LoadInv
<1>4. ~ HasSaved' /\ ~ LoadPending'
  BY <1>1 DEF HasSaved, LoadPending
<1>5. Known' \in Int
  <2>1. TypeOK'
    BY DEF IInv
  <2>2. (Known \in -1 .. (MaxFrame + InputDelay))'
    BY <2>1, KnownFacts, PTL
  <2> QED BY <2>2, RollbackLoopAssumption
<1>6. P2PInv'
  <2>1. localLast' <= current' + InputDelay
    BY <1>1, RollbackLoopAssumption
  <2>2. current' <= MaxPrediction + AtLeastZero(Known')
    <3> DEFINE x == Known'
    <3> HIDE DEF x
    <3>1. x \in Int
      BY <1>5 DEF x
    <3>2. 0 <= MaxPrediction + AtLeastZero(x)
      BY <3>1, RollbackLoopAssumption DEF AtLeastZero
    <3> QED BY <1>1, <3>2 DEF x
  <2> QED BY <1>1, <1>4, <2>1, <2>2 DEF P2PInv, AtLeastZero
<1>7. SyncTestInv'
  BY <1>1, <1>3, <1>4 DEF SyncTestInv
<1>8. StoreInv'
  BY <1>1, <1>4 DEF StoreInv, Alternating
<1> QED BY <1>1, <1>2, <1>3, <1>4, <1>6, <1>7, <1>8 DEF LoadInv

(***************************************************************************)
(* Without a session only the storage and the counters matter.             *)
(***************************************************************************)
LEMMA RemoveSessionLoads ==
    ASSUME IInv, LoadInv, RemoveSession
    PROVE  LoadInv'
<1>1. /\ requests = <<>> /\ ~ panicked /\ kind' = "None"
      /\ frame' = frame /\ confirmed' = confirmed /\ store' = store
      /\ panicked' = panicked /\ requests' = requests
  BY DEF RemoveSession, Idle, bevyVars
<1> QED BY <1>1 DEF LoadInv

(***************************************************************************)
(* The reset of the counters.                                              *)
(***************************************************************************)
LEMMA RunWithoutSessionLoads ==
    ASSUME IInv, LoadInv, RunWithoutSession
    PROVE  LoadInv'
<1>1. /\ requests = <<>> /\ ~ panicked /\ kind = "None" /\ kind' = kind
      /\ confirmed' = -1 /\ store' = store
      /\ panicked' = panicked /\ requests' = requests
  BY DEF RunWithoutSession, Idle
<1>2. confirmed' <= 0
  BY <1>1
<1> QED BY <1>1, <1>2 DEF LoadInv

(***************************************************************************)
(* News from a peer cannot make a confirmed frame wrong.                   *)
(***************************************************************************)
LEMMA PeerLoads ==
    ASSUME IInv, LoadInv, IInv', kind = "P2P", Idle,
           UNCHANGED <<bevyVars, requests, kind, sessions, current, inputs, localLast>>,
           Known <= Known',
           \A f \in Incorrect' : f \in Incorrect \/ f > Known
    PROVE  LoadInv'
<1>1. /\ frame' = frame /\ confirmed' = confirmed /\ store' = store
      /\ panicked' = panicked /\ requests' = requests /\ kind' = kind
      /\ current' = current /\ localLast' = localLast
      /\ requests = <<>> /\ ~ panicked
  BY DEF bevyVars, Idle
<1>2. /\ LoadPending' = LoadPending /\ HasSaved' = HasSaved /\ Floor' = Floor
  BY <1>1 DEF LoadPending, HasSaved, Floor
<1>3. /\ StoreInv' = StoreInv
  BY <1>1, <1>2 DEF StoreInv
<1>4. P2PInv /\ StoreInv
  BY <1>1 DEF LoadInv
<1>5. Known \in Int /\ Known' \in Int /\ confirmed \in Int /\ MaxPrediction \in Int /\ current \in Int
  <2>1. TypeOK /\ TypeOK'
    BY DEF IInv
  <2>2. Known \in -1 .. (MaxFrame + InputDelay) /\ (Known \in -1 .. (MaxFrame + InputDelay))'
    BY <2>1, KnownFacts, PTL
  <2> QED BY <2>1, <2>2, RollbackLoopAssumption DEF TypeOK
<1>6. P2PInv'
  <2>1. localLast' <= current' + InputDelay
    BY <1>1, <1>4 DEF P2PInv
  <2>2. (current <= MaxPrediction + AtLeastZero(Known))'
    <3> DEFINE x == Known'
               y == Known
    <3>1. x \in Int /\ y \in Int /\ y <= x /\ current <= MaxPrediction + AtLeastZero(y)
      BY <1>4, <1>5 DEF P2PInv
    <3> HIDE DEF x, y
    <3>2. current <= MaxPrediction + AtLeastZero(x)
      BY <1>5, <3>1 DEF AtLeastZero
    <3> QED BY <1>1, <3>2 DEF x, AtLeastZero
  <2>3. HasSaved' => confirmed' <= Known' /\ \A f \in Incorrect' : f > confirmed'
    <3> SUFFICES ASSUME HasSaved PROVE confirmed <= Known' /\ \A f \in Incorrect' : f > confirmed
      BY <1>1, <1>2
    <3>1. confirmed <= Known /\ \A f \in Incorrect : f > confirmed
      BY <1>4 DEF P2PInv
    <3>2. ASSUME NEW f \in Incorrect' PROVE f > confirmed
      <4>1. f \in Int
        BY <1>1, <1>5 DEF Incorrect
      <4> QED BY <1>5, <3>1, <4>1
    <3> QED BY <1>5, <3>1, <3>2
  <2> QED BY <1>1, <2>1, <2>2, <2>3 DEF P2PInv
<1> QED BY <1>1, <1>2, <1>3, <1>4, <1>6 DEF LoadInv

(***************************************************************************)
(* An input that arrives is for the frame after the last one received.     *)
(***************************************************************************)
LEMMA ReceiveInputLoads ==
    ASSUME IInv, LoadInv, IInv', NEW p \in Remotes, NEW input \in Inputs, ReceiveInput(p, input)
    PROVE  LoadInv'
<1>1. /\ kind = "P2P" /\ Idle /\ p \notin gone
      /\ received' = [received EXCEPT ![p] = Append(received[p], input)]
      /\ gone' = gone /\ inputs' = inputs /\ current' = current /\ localLast' = localLast
      /\ UNCHANGED <<bevyVars, requests, kind, sessions, current, inputs, localLast>>
  BY DEF ReceiveInput
<1>2. TypeOK /\ TypeOK' /\ received \in [Remotes -> Seq(Inputs)]
  BY DEF IInv, TypeOK
<1>3. /\ \A q \in Remotes : q # p => received'[q] = received[q]
      /\ received'[p] = Append(received[p], input)
  BY <1>1, <1>2
<1>4. /\ Len(received[p]) \in Nat /\ Len(received'[p]) = Len(received[p]) + 1
      /\ \A i \in 1 .. Len(received[p]) : received'[p][i] = received[p][i]
  BY <1>2, <1>3, LenProperties, AppendProperties
<1>5. Known <= Known'
  <2>1. \A q \in Remotes : Len(received[q]) <= Len(received'[q])
    <3>1. \A q \in Remotes : Len(received[q]) \in Nat
      BY <1>2, LenProperties
    <3> QED BY <1>3, <1>4, <3>1
  <2>2. localLast <= localLast'
    BY <1>1, <1>2, RollbackLoopAssumption DEF TypeOK
  <2> QED BY <1>1, <1>2, <2>1, <2>2, KnownGrows
<1>6. Known \in Int /\ Known <= Len(received[p]) - 1
  BY <1>1, <1>2, KnownFacts, RollbackLoopAssumption
<1>7. ASSUME NEW f \in Incorrect' PROVE f \in Incorrect \/ f > Known
  <2> SUFFICES ASSUME f \notin Incorrect PROVE f > Known
    OBVIOUS
  <2>1. f \in 0 .. (current - 1) /\ f \in Nat
    <3>1. f \in 0 .. (current - 1)
      BY <1>1 DEF Incorrect
    <3> QED BY <1>2, <3>1, RollbackLoopAssumption DEF TypeOK
  <2>2. PICK q \in Remotes : /\ f < Len(received'[q]) \/ q \in gone'
                             /\ inputs'[f + 1][q] # InputOf(q, f)'
    BY DEF Incorrect
  <2>3. q = p
    <3> SUFFICES ASSUME q # p PROVE f \in Incorrect
      OBVIOUS
    <3>1. InputOf(q, f)' = InputOf(q, f)
      BY <1>1, <1>3 DEF InputOf
    <3>2. received'[q] = received[q]
      BY <1>3
    <3> QED BY <1>1, <2>1, <2>2, <3>1, <3>2 DEF Incorrect
  <2>4. ~ (f < Len(received[p]))
    <3> SUFFICES ASSUME f < Len(received[p]) PROVE f \in Incorrect
      OBVIOUS
    <3>1. f + 1 \in 1 .. Len(received[p]) /\ f < Len(received'[p])
      BY <1>4, <2>1
    <3>2. InputOf(p, f)' = received'[p][f + 1] /\ InputOf(p, f) = received[p][f + 1]
      <4>1. ~ (f >= Len(received[p])) /\ ~ (f >= Len(received'[p]))
        BY <1>4, <2>1, <3>1
      <4>2. InputOf(p, f) = received[p][f + 1]
        BY <4>1 DEF InputOf
      <4>3. InputOf(p, f)' = received'[p][f + 1]
        BY <3>1, <4>1 DEF InputOf
      <4> QED BY <4>2, <4>3
    <3>3. InputOf(p, f)' = InputOf(p, f)
      BY <1>4, <3>1, <3>2
    <3> QED BY <1>1, <2>1, <2>2, <2>3, <3>3 DEF Incorrect
  <2> QED BY <1>4, <1>6, <2>1, <2>4
<1> QED BY <1>1, <1>5, <1>7, PeerLoads

(***************************************************************************)
(* A player who leaves contributes to no frame after the last one received *)
(* from it.                                                                *)
(***************************************************************************)
LEMMA DisconnectPlayerLoads ==
    ASSUME IInv, LoadInv, IInv', NEW p \in Remotes, DisconnectPlayer(p)
    PROVE  LoadInv'
<1>1. /\ kind = "P2P" /\ Idle /\ p \notin gone
      /\ gone' = gone \union {p} /\ received' = received
      /\ inputs' = inputs /\ current' = current /\ localLast' = localLast
      /\ UNCHANGED <<bevyVars, requests, kind, sessions, current, inputs, localLast>>
  BY DEF DisconnectPlayer
<1>2. TypeOK /\ TypeOK' /\ received \in [Remotes -> Seq(Inputs)]
  BY DEF IInv, TypeOK
<1>3. \A q \in Remotes : Len(received[q]) \in Nat
  BY <1>2, LenProperties
<1>4. Known <= Known'
  <2>1. \A q \in Remotes : Len(received[q]) <= Len(received'[q])
    BY <1>1, <1>3
  <2>2. localLast <= localLast'
    BY <1>1, <1>2, RollbackLoopAssumption DEF TypeOK
  <2>3. gone \subseteq gone'
    BY <1>1
  <2> QED BY <1>2, <2>1, <2>2, <2>3, KnownGrows
<1>5. Known \in Int /\ Known <= Len(received[p]) - 1
  BY <1>1, <1>2, KnownFacts, RollbackLoopAssumption
<1>6. ASSUME NEW f \in Incorrect' PROVE f \in Incorrect \/ f > Known
  <2> SUFFICES ASSUME f \notin Incorrect PROVE f > Known
    OBVIOUS
  <2>1. f \in 0 .. (current - 1) /\ f \in Nat
    <3>1. f \in 0 .. (current - 1)
      BY <1>1 DEF Incorrect
    <3> QED BY <1>2, <3>1, RollbackLoopAssumption DEF TypeOK
  <2>2. PICK q \in Remotes : /\ f < Len(received'[q]) \/ q \in gone'
                             /\ inputs'[f + 1][q] # InputOf(q, f)'
    BY DEF Incorrect
  <2>3. q = p
    <3> SUFFICES ASSUME q # p PROVE f \in Incorrect
      OBVIOUS
    <3>1. q \in gone' <=> q \in gone
      BY <1>1
    <3>2. InputOf(q, f)' = InputOf(q, f)
      BY <1>1, <3>1 DEF InputOf
    <3> QED BY <1>1, <2>1, <2>2, <3>1, <3>2 DEF Incorrect
  <2>4. ~ (f < Len(received[p]))
    <3> SUFFICES ASSUME f < Len(received[p]) PROVE f \in Incorrect
      OBVIOUS
    <3>1. ~ (f >= Len(received[p]))
      BY <1>3, <2>1
    <3>2. InputOf(p, f) = received[p][f + 1]
      BY <3>1 DEF InputOf
    <3>3. InputOf(p, f)' = received[p][f + 1]
      BY <1>1, <3>1 DEF InputOf
    <3> QED BY <1>1, <2>1, <2>2, <2>3, <3>2, <3>3 DEF Incorrect
  <2> QED BY <1>3, <1>5, <2>1, <2>4
<1> QED BY <1>1, <1>4, <1>6, PeerLoads

----------------------------------------------------------------------------
(* One step of the schedule *)

(***************************************************************************)
(* Whether run_p2p advances, and how far ahead of the confirmed frame it   *)
(* then is.                                                                *)
(***************************************************************************)
LEMMA FramesAheadFacts ==
    ASSUME TypeOK
    PROVE  /\ current = 0 => FramesAhead < MaxPrediction
           /\ FramesAhead < MaxPrediction => current + 1 <= MaxPrediction + AtLeastZero(Known)
<1> DEFINE last == Smallest({Known, current})
<1>1. /\ Known \in Int /\ Known >= -1 /\ current \in Nat
      /\ MaxPrediction \in Nat \ {0} /\ NullFrame = -1
  BY KnownFacts, RollbackLoopAssumption DEF TypeOK, NullFrame
<1>2. /\ last \in {Known, current} /\ last <= Known /\ last <= current
  <2> DEFINE S == {Known, current}
  <2>1. S \in SUBSET Int /\ S # {} /\ (\A x \in S : x >= -1) /\ Known \in S /\ current \in S
    BY <1>1
  <2> HIDE DEF S
  <2>2. Smallest(S) \in S /\ \A y \in S : Smallest(S) <= y
    BY <2>1, SmallestFacts
  <2> QED BY <2>1, <2>2 DEF S
<1>3. FramesAhead = IF last = -1 THEN current ELSE current - last
  BY <1>1 DEF FramesAhead, Known
<1> HIDE DEF last
<1>4. current = 0 => FramesAhead = 0
  BY <1>1, <1>2, <1>3
<1> QED BY <1>1, <1>2, <1>3, <1>4 DEF AtLeastZero

(***************************************************************************)
(* After a correction every input that is known is the one handed out.     *)
(***************************************************************************)
LEMMA NothingIncorrect ==
    ASSUME IInv, RunP2P
    PROVE  Incorrect' = {}
<1> DEFINE load    == FirstIncorrect
           advance == FramesAhead < MaxPrediction /\ current < MaxFrame
           from    == IF load = NullFrame THEN current ELSE load
           to      == IF advance THEN current ELSE current - 1
<1>1. /\ inputs' = Corrected(from, to) /\ current' = to + 1
      /\ received' = received /\ gone' = gone
  BY DEF RunP2P, peerVars
<1>2. TypeOK /\ current \in Nat /\ NullFrame = -1
  BY RollbackLoopAssumption DEF IInv, TypeOK, NullFrame
<1>3. from \in 0 .. current /\ to \in {current - 1, current}
  <2>1. load \in {NullFrame} \union (0 .. (current - 1))
    BY <1>2, FirstIncorrectType
  <2> HIDE DEF load, advance
  <2> QED BY <1>2, <2>1
<1>4. \A f \in Incorrect : from <= f
  <2> SUFFICES ASSUME NEW f \in Incorrect PROVE from <= f
    OBVIOUS
  <2>1. Incorrect # {} /\ Incorrect \subseteq 0 .. (current - 1)
    <3>1. Incorrect \subseteq 0 .. (current - 1)
      BY DEF Incorrect
    <3> QED BY <3>1
  <2>2. Incorrect \in SUBSET Int /\ (\A x \in Incorrect : x >= -1) /\ \A x \in Incorrect : x >= 0
    BY <1>2, <2>1
  <2>3. Smallest(Incorrect) \in Incorrect /\ Smallest(Incorrect) <= f
    BY <2>1, <2>2, SmallestFacts
  <2>4. load = Smallest(Incorrect) /\ load # NullFrame
    BY <1>2, <2>1, <2>2, <2>3 DEF FirstIncorrect
  <2> HIDE DEF load
  <2> QED BY <2>3, <2>4
<1> HIDE DEF from, to, load, advance
<1>5. \A i \in 1 .. (to + 1) :
         inputs'[i] = IF i <= from THEN inputs[i] ELSE [p \in Remotes |-> InputOf(p, i - 1)]
  BY <1>1 DEF Corrected
<1>6. \A p, f : InputOf(p, f)' = InputOf(p, f)
  BY <1>1 DEF InputOf
<1> SUFFICES ASSUME NEW f \in Incorrect' PROVE FALSE
  OBVIOUS
<1>7. f \in 0 .. to /\ f \in Nat /\ f + 1 \in 1 .. (to + 1) /\ (f + 1) - 1 = f
  <2>1. f \in 0 .. (current' - 1)
    BY DEF Incorrect
  <2> QED BY <1>1, <1>2, <1>3, <2>1
<1>8. PICK p \in Remotes : /\ f < Len(received[p]) \/ p \in gone
                           /\ inputs'[f + 1][p] # InputOf(p, f)
  BY <1>1, <1>6 DEF Incorrect
<1>9. CASE f + 1 <= from
  <2>1. inputs[f + 1][p] # InputOf(p, f)
    BY <1>5, <1>7, <1>8, <1>9
  <2>2. f \in 0 .. (current - 1)
    BY <1>2, <1>3, <1>7, <1>9
  <2>3. f \in Incorrect
    BY <1>8, <2>1, <2>2 DEF Incorrect
  <2>4. from <= f
    BY <1>4, <2>3
  <2> QED BY <1>2, <1>3, <1>7, <1>9, <2>4
<1>10. CASE ~ (f + 1 <= from)
  <2>1. inputs'[f + 1] = [q \in Remotes |-> InputOf(q, (f + 1) - 1)]
    BY <1>5, <1>7, <1>10
  <2>2. inputs'[f + 1][p] = InputOf(p, (f + 1) - 1)
    BY <2>1
  <2> QED BY <1>7, <1>8, <2>2
<1> QED BY <1>9, <1>10

(***************************************************************************)
(* What run_p2p and run_synctest have in common: the new requests, and a   *)
(* storage as it was.                                                      *)
(***************************************************************************)
LEMMA BatchLoads ==
    ASSUME IInv, LoadInv, IInv', Idle, kind \in {"P2P", "SyncTest"},
           UNCHANGED <<bevyVars, kind, sessions, peerVars>>,
           requests' # <<>>, Alternating(requests'),
           current <= current', Floor <= Floor', Floor' \in Int,
           MaxFrame > 0 => current' >= 1,
           NEW load \in {NullFrame} \union (0 .. (current - 1)),
           Head(requests') = IF load = NullFrame THEN SaveGameState(current)
                                                 ELSE LoadGameState(load),
           (load # NullFrame /\ HasSaved) =>
               load > confirmed /\ (kind = "SyncTest" => load >= Floor'),
           (kind = "P2P") => P2PInv', (kind = "SyncTest") => SyncTestInv'
    PROVE  LoadInv'
<1>1. /\ frame' = frame /\ confirmed' = confirmed /\ store' = store
      /\ panicked' = panicked /\ kind' = kind /\ requests = <<>> /\ ~ panicked /\ kind # "None"
  BY DEF bevyVars, Idle
<1>2. TypeOK /\ current \in Nat /\ current' \in Nat /\ MaxFrame \in Nat
  <2>1. TypeOK /\ TypeOK'
    BY DEF IInv
  <2>2. MaxFrame \in Nat
    BY RollbackLoopAssumption
  <2>3. current \in 0 .. MaxFrame
    BY <2>1 DEF TypeOK
  <2>4. current' \in 0 .. MaxFrame
    BY <2>1 DEF TypeOK
  <2> QED BY <2>1, <2>2, <2>3, <2>4
<1>3. frame = current
  BY <1>1, IdleFrame
<1>4. StoreInv
  BY <1>1 DEF LoadInv
<1>5. Head(requests').type # "Advance"
  BY DEF SaveGameState, LoadGameState
<1>6. HasSaved' => HasSaved
  <2> SUFFICES ASSUME HasSaved', ~ HasSaved PROVE FALSE
    OBVIOUS
  <2>1. current = 0
    BY <1>1, <1>2 DEF HasSaved
  <2>2. load = NullFrame
    BY <2>1
  <2>3. Head(requests') = SaveGameState(0)
    BY <2>1, <2>2
  <2> QED BY <2>3 DEF HasSaved
<1>7. HasSaved' => \A f \in 0 .. MaxFrame : Floor' <= f /\ f < frame' => f \in StoredFrames(store')
  <2> SUFFICES ASSUME HasSaved, NEW f \in 0 .. MaxFrame, Floor' <= f, f < frame
               PROVE  f \in StoredFrames(store)
    BY <1>1, <1>6
  <2>1. Floor \in Int
    <3>1. confirmed \in Int /\ CheckDistance \in Int
      BY <1>2, RollbackLoopAssumption DEF TypeOK
    <3> QED BY <1>2, <3>1 DEF Floor, AtLeastZero
  <2>2. Floor <= f
    BY <1>2, <2>1
  <2> QED BY <1>4, <2>2 DEF StoreInv
<1>8. LoadPending' => /\ Head(requests').frame > confirmed'
                      /\ Head(requests').frame < frame'
                      /\ kind' = "SyncTest" => Head(requests').frame >= Floor'
  <2> SUFFICES ASSUME LoadPending'
               PROVE  /\ Head(requests').frame > confirmed
                      /\ Head(requests').frame < frame
                      /\ kind = "SyncTest" => Head(requests').frame >= Floor'
    BY <1>1
  <2>1. load # NullFrame
    BY DEF LoadPending, SaveGameState
  <2>2. load \in 0 .. (current - 1) /\ Head(requests').frame = load /\ current > 0
    BY <1>2, <2>1 DEF LoadGameState
  <2>3. HasSaved
    BY <1>1, <2>2 DEF HasSaved
  <2> QED BY <1>2, <1>3, <2>1, <2>2, <2>3
<1>9. StoreInv'
  BY <1>5, <1>7, <1>8 DEF StoreInv
<1> QED BY <1>1, <1>9 DEF LoadInv

(***************************************************************************)
(* run_p2p: the rollback goes to the first wrong frame, and wrong frames   *)
(* are not confirmed.                                                      *)
(***************************************************************************)
LEMMA RunP2PLoads ==
    ASSUME IInv, LoadInv, IInv', RunP2P
    PROVE  LoadInv'
<1> DEFINE load    == FirstIncorrect
           advance == FramesAhead < MaxPrediction /\ current < MaxFrame
           to      == IF advance THEN current ELSE current - 1
           n       == IF advance THEN current + 1 ELSE current
<1>1. /\ Idle /\ kind = "P2P" /\ current' = to + 1 /\ localLast' = current + InputDelay
      /\ requests' = P2PRequests(current, load, advance, inputs')
      /\ UNCHANGED <<bevyVars, kind, sessions, peerVars>>
  BY DEF RunP2P
<1>2. /\ confirmed' = confirmed /\ kind' = kind /\ requests = <<>> /\ ~ panicked
      /\ received' = received /\ gone' = gone
  BY <1>1 DEF bevyVars, peerVars, Idle
<1>3. TypeOK /\ TypeOK'
  BY DEF IInv
<1>4. /\ current \in 0 .. MaxFrame /\ current \in Nat /\ MaxFrame \in Nat /\ InputDelay \in Nat
      /\ MaxPrediction \in Nat \ {0} /\ NullFrame = -1 /\ confirmed \in Int /\ localLast \in Int
      /\ inputs' \in Seq(PlayerInputs) /\ Len(inputs') = current'
  BY <1>3, RollbackLoopAssumption DEF TypeOK, NullFrame
<1>5. load \in {NullFrame} \union (0 .. (current - 1))
  BY <1>3, FirstIncorrectType
<1>6. Incorrect' = {}
  BY NothingIncorrect
<1>7. P2PInv
  BY <1>1, <1>2 DEF LoadInv
<1>8. /\ current = 0 => FramesAhead < MaxPrediction
      /\ FramesAhead < MaxPrediction => current + 1 <= MaxPrediction + AtLeastZero(Known)
  BY <1>3, FramesAheadFacts
<1>9. /\ advance \in BOOLEAN /\ (current = 0 /\ MaxFrame > 0 => advance)
      /\ advance => current + 1 <= MaxPrediction + AtLeastZero(Known)
  BY <1>4, <1>8
<1> HIDE DEF advance
<1>10. /\ current' = n /\ current <= n /\ (advance => current < n)
       /\ (MaxFrame > 0 => n >= 1) /\ n <= MaxPrediction + AtLeastZero(Known)
  <2>1. current <= MaxPrediction + AtLeastZero(Known)
    BY <1>7 DEF P2PInv
  <2> QED BY <1>1, <1>4, <1>9, <2>1
<1>11. Known <= Known' /\ Known \in Int /\ Known' \in Int
  <2>1. localLast <= localLast'
    BY <1>1, <1>4, <1>7 DEF P2PInv
  <2>2. \A p \in Remotes : Len(received[p]) <= Len(received'[p])
    <3>1. \A p \in Remotes : Len(received[p]) \in Nat
      BY <1>3, LenProperties DEF TypeOK
    <3> QED BY <1>2, <3>1
  <2>3. Known <= Known'
    BY <1>2, <1>3, <2>1, <2>2, KnownGrows
  <2>4. Known \in -1 .. (MaxFrame + InputDelay) /\ (Known \in -1 .. (MaxFrame + InputDelay))'
    BY <1>3, KnownFacts, PTL
  <2> QED BY <1>4, <2>3, <2>4
<1> HIDE DEF load, n, to
<1> DEFINE s == P2PRequests(current, load, advance, inputs')
<1>12. current <= Len(inputs') /\ (advance => current < Len(inputs'))
  BY <1>4, <1>10
<1>13. /\ load = NullFrame => s # <<>> /\ Head(s) = SaveGameState(current)
       /\ load # NullFrame => s # <<>> /\ Head(s) = LoadGameState(load)
  BY <1>4, <1>5, <1>9, <1>12, P2PPath
<1>14. Alternating(s)
  BY <1>4, <1>5, <1>9, <1>12, StepAlternates
<1> HIDE DEF s
<1>15. requests' = s
  BY <1>1 DEF s
<1>16. P2PInv'
  <2>1. localLast' <= current' + InputDelay
    <3>1. localLast' = current + InputDelay /\ current' = n /\ current <= n
      BY <1>1, <1>10
    <3>2. n \in Int
      BY <1>4, <1>10 DEF n
    <3> QED BY <1>4, <3>1, <3>2
  <2>2. (current <= MaxPrediction + AtLeastZero(Known))'
    <3> DEFINE x == Known'
               y == Known
               m == current'
    <3>1. /\ x \in Int /\ y \in Int /\ y <= x /\ m <= MaxPrediction + AtLeastZero(y)
          /\ m \in Int
      BY <1>3, <1>10, <1>11, RollbackLoopAssumption DEF TypeOK
    <3> HIDE DEF x, y, m
    <3>2. m <= MaxPrediction + AtLeastZero(x)
      BY <1>4, <3>1 DEF AtLeastZero
    <3> QED BY <3>2 DEF x, m, AtLeastZero
  <2>3. HasSaved' => confirmed' <= Known'
    <3> SUFFICES ASSUME HasSaved' PROVE confirmed <= Known'
      BY <1>2
    <3>1. current > 0
      <4> SUFFICES ASSUME current = 0 PROVE FALSE
        BY <1>4
      <4>1. load = NullFrame
        BY <1>4, <1>5
      <4>2. Head(requests') = SaveGameState(0) /\ requests' # <<>>
        BY <1>13, <1>15, <4>1
      <4> QED BY <4>2 DEF HasSaved
    <3>2. HasSaved
      BY <1>1, <1>2, <3>1 DEF HasSaved
    <3>3. confirmed <= Known
      BY <1>7, <3>2 DEF P2PInv
    <3> QED BY <1>4, <1>11, <3>3
  <2> QED BY <1>6, <2>1, <2>2, <2>3 DEF P2PInv
<1>17. Floor' = Floor /\ Floor \in Int
  BY <1>1, <1>2, <1>4 DEF Floor, AtLeastZero
<1>18. (load # NullFrame /\ HasSaved) => load > confirmed
  <2> SUFFICES ASSUME load # NullFrame, HasSaved PROVE load > confirmed
    OBVIOUS
  <2>1. \A f \in Incorrect : f > confirmed
    BY <1>7 DEF P2PInv
  <2>2. Incorrect # {} /\ load = Smallest(Incorrect)
    BY DEF load, FirstIncorrect
  <2>3. Incorrect \subseteq 0 .. (current - 1)
    BY DEF Incorrect
  <2>4. Incorrect \in SUBSET Int /\ \A x \in Incorrect : x >= -1
    BY <1>4, <2>3
  <2> QED BY <2>1, <2>2, <2>4, SmallestFacts
<1>19. /\ requests' # <<>> /\ Alternating(requests')
       /\ current <= current' /\ Floor <= Floor' /\ Floor' \in Int
       /\ (MaxFrame > 0 => current' >= 1)
       /\ Head(requests') = IF load = NullFrame THEN SaveGameState(current) ELSE LoadGameState(load)
  <2>1. current <= current' /\ Floor <= Floor' /\ Floor' \in Int /\ (MaxFrame > 0 => current' >= 1)
    BY <1>10, <1>17
  <2> QED BY <1>13, <1>14, <1>15, <2>1
<1>20. kind \in {"P2P", "SyncTest"} /\ kind # "SyncTest"
  BY <1>1
<1> QED BY <1>1, <1>5, <1>16, <1>18, <1>19, <1>20, BatchLoads

(***************************************************************************)
(* run_synctest: ConfirmedFrameCount trails the frame it goes back to.     *)
(***************************************************************************)
LEMMA RunSyncTestLoads ==
    ASSUME IInv, LoadInv, IInv', NEW input \in [Remotes -> Inputs], RunSyncTest(input)
    PROVE  LoadInv'
<1> DEFINE load == IF current > CheckDistance THEN current - CheckDistance ELSE NullFrame
           s    == SyncTestRequests(current, load, inputs')
<1>1. /\ Idle /\ kind = "SyncTest" /\ current < MaxFrame
      /\ current' = current + 1 /\ requests' = s
      /\ UNCHANGED <<bevyVars, kind, sessions, peerVars>>
  BY DEF RunSyncTest
<1>2. /\ confirmed' = confirmed /\ kind' = kind /\ frame' = frame
      /\ requests = <<>> /\ ~ panicked /\ kind # "None"
  BY <1>1 DEF bevyVars, Idle
<1>3. TypeOK /\ TypeOK'
  BY DEF IInv
<1>4. /\ current \in 0 .. MaxFrame /\ current \in Nat /\ MaxFrame \in Nat
      /\ CheckDistance \in Nat \ {0} /\ NullFrame = -1 /\ confirmed \in Int
      /\ inputs' \in Seq(PlayerInputs) /\ Len(inputs') = current'
  BY <1>3, RollbackLoopAssumption DEF TypeOK, NullFrame
<1>5. /\ load \in {NullFrame} \union (0 .. (current - 1))
      /\ load # NullFrame => load = current - CheckDistance /\ load >= 1
  BY <1>4
<1>6. s = CorrectAndSave(current, load, inputs') \o Proceed(current, TRUE, inputs')
  BY DEF SyncTestRequests
<1> HIDE DEF load, s
<1>7. current <= Len(inputs') /\ current < Len(inputs')
  BY <1>1, <1>4
<1>8. /\ load = NullFrame => s # <<>> /\ Head(s) = SaveGameState(current)
      /\ load # NullFrame => s # <<>> /\ Head(s) = LoadGameState(load)
  BY <1>4, <1>5, <1>6, <1>7, CorrectAndSavePath
<1>9. Alternating(s) /\ UpTo(s, current)
  BY <1>4, <1>5, <1>6, <1>7, StepAlternates
<1>10. SyncTestInv
  BY <1>1, <1>2 DEF LoadInv
<1>11. frame = current
  BY <1>2, IdleFrame
<1>12. SyncTestInv'
  <2>1. \A i \in 1 .. Len(requests') : requests'[i].frame < current'
    <3> SUFFICES ASSUME NEW i \in 1 .. Len(s) PROVE s[i].frame < current + 1
      BY <1>1
    <3>1. s \in Seq(Requests)
      BY <1>1, <1>3 DEF TypeOK
    <3>2. s[i] \in Requests
      BY <3>1, ElementOfSeq
    <3>3. s[i].frame \in 0 .. MaxFrame /\ s[i].frame <= current
      BY <1>9, <3>2, RequestFields DEF UpTo
    <3> QED BY <1>4, <3>3
  <2>2. frame' < current'
    BY <1>1, <1>2, <1>4, <1>11
  <2>3. MaxFrame > 0 => confirmed' <= 0 \/ confirmed' <= current' - CheckDistance - 1
    BY <1>1, <1>2, <1>4, <1>10 DEF SyncTestInv
  <2> QED BY <2>1, <2>2, <2>3 DEF SyncTestInv
<1>13. Floor = current - CheckDistance - 1 /\ Floor' = current - CheckDistance
  <2>1. Floor = current - CheckDistance - 1
    BY <1>1 DEF Floor
  <2>2. Floor' = current' - CheckDistance - 1
    BY <1>1, <1>2 DEF Floor
  <2> QED BY <1>1, <1>4, <2>1, <2>2
<1>14. (load # NullFrame /\ HasSaved) => load > confirmed /\ load >= Floor'
  <2>1. confirmed <= 0 \/ confirmed <= current - CheckDistance - 1
    BY <1>1, <1>4, <1>10 DEF SyncTestInv
  <2> QED BY <1>4, <1>5, <1>13, <2>1
<1>15. /\ requests' # <<>> /\ Alternating(requests')
       /\ current <= current' /\ Floor <= Floor' /\ Floor' \in Int
       /\ (MaxFrame > 0 => current' >= 1)
       /\ Head(requests') = IF load = NullFrame THEN SaveGameState(current) ELSE LoadGameState(load)
  <2>1. current <= current' /\ Floor <= Floor' /\ Floor' \in Int /\ (MaxFrame > 0 => current' >= 1)
    BY <1>1, <1>4, <1>13
  <2> QED BY <1>1, <1>8, <1>9, <2>1
<1>16. kind \in {"P2P", "SyncTest"} /\ kind # "P2P"
  BY <1>1
<1> QED BY <1>1, <1>5, <1>12, <1>14, <1>15, <1>16, BatchLoads

(***************************************************************************)
(* run_spectator never rolls back.                                         *)
(***************************************************************************)
LEMMA RunSpectatorLoads ==
    ASSUME IInv, LoadInv, NEW n \in 1 .. CatchUp, NEW host \in [1 .. n -> [Remotes -> Inputs]],
           RunSpectator(host)
    PROVE  LoadInv'
<1>1. n \in Nat \ {0} /\ Len(host) = n
  <2>1. n \in Nat \ {0}
    BY RollbackLoopAssumption
  <2>2. host \in Seq([Remotes -> Inputs])
    BY <2>1
  <2> QED BY <2>1, <2>2, LenProperties
<1>2. /\ requests = <<>> /\ ~ panicked /\ kind = "Spectator" /\ current' = current + n
      /\ store' = store /\ kind' = kind /\ panicked' = panicked
      /\ frame' = frame /\ confirmed' = confirmed
  BY <1>1 DEF RunSpectator, Idle, bevyVars
<1>3. current \in Nat /\ current' >= 1
  BY <1>1, <1>2, RollbackLoopAssumption DEF IInv, TypeOK
<1>4. frame' = 0 /\ MaxFrame > 0 => confirmed' <= 0
  BY <1>2 DEF LoadInv
<1> QED BY <1>2, <1>3, <1>4 DEF LoadInv

----------------------------------------------------------------------------
(* handle_requests *)

(***************************************************************************)
(* The frame of a request, and what is left after it.                      *)
(***************************************************************************)
LEMMA AfterRequest ==
    ASSUME IInv, NEW type, NextRequest(type)
    PROVE  /\ type # "Load" => Head(requests).frame = frame
           /\ type = "Load" => HasSaved
           /\ Head(requests).frame \in 0 .. MaxFrame
           /\ ~ LoadPending'
<1>1. /\ kind # "None" /\ ~ panicked /\ requests # <<>> /\ Head(requests).type = type
      /\ Head(requests) \in Requests /\ requests' = Tail(requests)
  BY NextRequestFacts
<1>2. RequestsLeadToCurrent
  BY <1>1 DEF IInv
<1>3. Head(requests).frame \in 0 .. MaxFrame
  BY <1>1, RequestFields
<1>4. CASE Path(requests, frame, current, inputs)
  <2>1. /\ Head(requests).frame = frame /\ type # "Load"
        /\ Path(Tail(requests), NextFrame(Head(requests)), current, inputs)
    BY <1>1, <1>4, PathTail
  <2>2. ~ LoadPending'
    BY <1>1, <2>1, NoLoadOnPath DEF LoadPending
  <2> QED BY <1>3, <2>1, <2>2
<1>5. CASE LoadPending /\ HasSaved /\ Path(Tail(requests), Head(requests).frame, current, inputs)
  <2>1. type = "Load"
    BY <1>1, <1>5 DEF LoadPending
  <2>2. ~ LoadPending'
    BY <1>1, <1>5, NoLoadOnPath DEF LoadPending
  <2> QED BY <1>3, <1>5, <2>1, <2>2
<1> QED BY <1>2, <1>4, <1>5 DEF RequestsLeadToCurrent

(***************************************************************************)
(* What is left of an alternating list.                                    *)
(***************************************************************************)
LEMMA AlternatingTail ==
    ASSUME NEW s \in Seq(Requests), s # <<>>, Alternating(s)
    PROVE  /\ Alternating(Tail(s))
           /\ (Head(s).type = "Advance" /\ Tail(s) # <<>>) => Head(Tail(s)).type # "Advance"
           /\ \A i \in 1 .. Len(Tail(s)) : i + 1 \in 1 .. Len(s) /\ Tail(s)[i] = s[i + 1]
<1> DEFINE t == Tail(s)
<1>1. /\ Len(s) \in Nat \ {0} /\ Head(s) = s[1]
      /\ t \in Seq(Requests) /\ Len(t) = Len(s) - 1
      /\ \A i \in 1 .. Len(t) : t[i] = s[i + 1]
  BY EmptySeq, HeadTailProperties
<1>2. t # <<>> => Len(t) \in Nat \ {0} /\ Head(t) = t[1]
  BY <1>1, EmptySeq, HeadTailProperties
<1> HIDE DEF t
<1>3. Alternating(t)
  <2> SUFFICES ASSUME NEW i \in 1 .. (Len(t) - 1), t[i].type = "Advance"
               PROVE  t[i + 1].type # "Advance"
    BY DEF Alternating
  <2>1. /\ i \in 1 .. Len(t) /\ i + 1 \in 1 .. Len(t) /\ i + 1 \in 1 .. (Len(s) - 1)
    BY <1>1
  <2>2. t[i] = s[i + 1] /\ t[i + 1] = s[(i + 1) + 1]
    BY <1>1, <2>1
  <2> QED BY <2>1, <2>2 DEF Alternating
<1>4. (Head(s).type = "Advance" /\ t # <<>>) => Head(t).type # "Advance"
  <2> SUFFICES ASSUME s[1].type = "Advance", t # <<>> PROVE t[1].type # "Advance"
    BY <1>1, <1>2
  <2>1. 1 \in 1 .. (Len(s) - 1) /\ 1 \in 1 .. Len(t)
    BY <1>1, <1>2
  <2>2. t[1] = s[1 + 1]
    BY <1>1, <2>1
  <2> QED BY <2>1, <2>2 DEF Alternating
<1>5. \A i \in 1 .. Len(t) : i + 1 \in 1 .. Len(s)
  BY <1>1
<1> QED BY <1>1, <1>3, <1>4, <1>5 DEF t

(***************************************************************************)
(* What every request does to ConfirmedFrameCount, and what it leaves of   *)
(* the invariant: only the storage is open.                                *)
(***************************************************************************)
LEMMA RequestLoads ==
    ASSUME IInv, LoadInv, IInv', NEW type, NextRequest(type), kind \in {"P2P", "SyncTest"}
    PROVE  /\ ~ LoadPending' /\ Alternating(requests')
           /\ (type = "Advance" /\ requests' # <<>>) => Head(requests').type # "Advance"
           /\ kind = "P2P" => P2PInv' /\ confirmed' = Known /\ (HasSaved => confirmed <= Known)
           /\ kind = "SyncTest" => /\ SyncTestInv' /\ frame < current
                                   /\ confirmed' = IF frame >= CheckDistance
                                                   THEN frame - CheckDistance ELSE confirmed
           /\ confirmed \in Int /\ Known \in Int /\ Floor \in Int /\ Floor' \in Int
           /\ HasSaved => Floor <= Floor'
<1>1. /\ kind # "None" /\ ~ panicked /\ requests # <<>>
      /\ Head(requests).type = type /\ Head(requests) \in Requests
      /\ requests' = Tail(requests) /\ requests' \in Seq(Requests)
      /\ kind' = kind /\ current' = current /\ inputs' = inputs
      /\ received' = received /\ gone' = gone /\ localLast' = localLast
      /\ confirmed' \in -1 .. (MaxFrame + InputDelay)
  BY NextRequestFacts
<1>2. confirmed' = SessionConfirmedFrame
  BY DEF NextRequest
<1>3. TypeOK /\ requests \in Seq(Requests)
  BY DEF IInv, TypeOK
<1>4. /\ current \in Nat /\ frame \in Nat /\ confirmed \in Int /\ CheckDistance \in Nat \ {0}
      /\ MaxFrame \in Nat /\ InputDelay \in Nat /\ frame <= MaxFrame /\ confirmed' \in Int
  BY <1>1, <1>3, RollbackLoopAssumption DEF TypeOK
<1>5. Known \in Int
  BY <1>3, <1>4, KnownFacts
<1>6. Known' = Known /\ Incorrect' = Incorrect
  BY <1>1 DEF Known, ConfirmedFrame, Incorrect, InputOf
<1>7. StoreInv
  BY <1>1 DEF LoadInv
<1>8. /\ Alternating(requests')
      /\ (type = "Advance" /\ requests' # <<>>) => Head(requests').type # "Advance"
      /\ \A i \in 1 .. Len(requests') : i + 1 \in 1 .. Len(requests) /\ requests'[i] = requests[i + 1]
  BY <1>1, <1>3, <1>7, AlternatingTail DEF StoreInv
<1>9. /\ type # "Load" => Head(requests).frame = frame
      /\ ~ LoadPending'
  BY AfterRequest
<1>10. CASE kind = "P2P"
  <2>1. P2PInv /\ confirmed' = Known
    BY <1>1, <1>2, <1>10 DEF LoadInv, SessionConfirmedFrame, Known
  <2>2. Incorrect = {} /\ (HasSaved => confirmed <= Known)
    BY <1>1, <2>1 DEF P2PInv
  <2>3. confirmed' <= Known'
    BY <1>4, <1>6, <2>1
  <2>4. P2PInv'
    BY <1>1, <1>6, <2>1, <2>2, <2>3 DEF P2PInv
  <2>5. /\ Floor = AtLeastZero(confirmed) + 1 /\ Floor' = AtLeastZero(confirmed') + 1
    BY <1>1, <1>10 DEF Floor, AtLeastZero
  <2>6. Floor \in Int /\ Floor' \in Int /\ (HasSaved => Floor <= Floor')
    <3> DEFINE x == confirmed'
    <3>1. x \in Int /\ (HasSaved => confirmed <= x)
      BY <1>4, <2>1, <2>2
    <3> HIDE DEF x
    <3>2. /\ AtLeastZero(confirmed) + 1 \in Int /\ AtLeastZero(x) + 1 \in Int
          /\ HasSaved => AtLeastZero(confirmed) + 1 <= AtLeastZero(x) + 1
      BY <1>4, <3>1 DEF AtLeastZero
    <3> QED BY <2>5, <3>2 DEF x
  <2> QED BY <1>4, <1>5, <1>8, <1>9, <1>10, <2>1, <2>2, <2>4, <2>6
<1>11. CASE kind = "SyncTest"
  <2>1. SyncTestInv
    BY <1>1, <1>11 DEF LoadInv
  <2>2. confirmed' = IF frame >= CheckDistance THEN frame - CheckDistance ELSE confirmed
    BY <1>2, <1>11 DEF SessionConfirmedFrame
  <2>3. frame < current
    <3>1. CASE type = "Load"
      BY <1>1, <2>1, <3>1 DEF SyncTestInv, LoadPending
    <3>2. CASE type # "Load"
      <4>1. 1 \in 1 .. Len(requests) /\ Head(requests) = requests[1]
        BY <1>1, <1>3, EmptySeq, HeadTailProperties
      <4> QED BY <1>9, <2>1, <3>2, <4>1 DEF SyncTestInv
    <3> QED BY <3>1, <3>2
  <2>4. SyncTestInv'
    <3>1. \A i \in 1 .. Len(requests') : requests'[i].frame < current'
      BY <1>1, <1>8, <2>1 DEF SyncTestInv
    <3>2. MaxFrame > 0 => confirmed' <= 0 \/ confirmed' <= current - CheckDistance - 1
      <4>1. MaxFrame > 0 => confirmed <= 0 \/ confirmed <= current - CheckDistance - 1
        BY <2>1 DEF SyncTestInv
      <4> QED BY <1>4, <2>2, <2>3, <4>1
    <3> QED BY <1>1, <1>9, <3>1, <3>2 DEF SyncTestInv
  <2>5. Floor = current - CheckDistance - 1 /\ Floor' = current - CheckDistance - 1
    BY <1>1, <1>11 DEF Floor
  <2>6. Floor \in Int /\ Floor' \in Int /\ Floor <= Floor'
    BY <1>4, <2>5
  <2> QED BY <1>4, <1>5, <1>8, <1>9, <1>11, <2>2, <2>3, <2>4, <2>6
<1> QED BY <1>10, <1>11

(***************************************************************************)
(* So a request keeps the invariant when what it does to the storage does. *)
(***************************************************************************)
LEMMA RequestStep ==
    ASSUME IInv, LoadInv, IInv', NEW type, NextRequest(type),
           Spread(store'.entries),
           (kind \in {"P2P", "SyncTest"} /\ ~ panicked') =>
               /\ (requests' # <<>> /\ Head(requests').type = "Advance") =>
                     frame' \in StoredFrames(store')
               /\ HasSaved' => \A f \in 0 .. MaxFrame :
                                  Floor' <= f /\ f < frame' => f \in StoredFrames(store')
    PROVE  LoadInv'
<1>1. /\ kind # "None" /\ ~ panicked /\ requests # <<>> /\ kind' = kind /\ current' = current
  BY NextRequestFacts
<1>2. ~ LoadPending'
  BY AfterRequest
<1>3. current \in Nat /\ (MaxFrame > 0 => current >= 1)
  <2>1. current \in Nat
    BY RollbackLoopAssumption DEF IInv, TypeOK
  <2> QED BY <1>1, <2>1 DEF LoadInv
<1>4. (requests' = <<>> /\ frame' = 0 /\ MaxFrame > 0 /\ ~ panicked') => confirmed' <= 0
  <2> SUFFICES ASSUME requests' = <<>>, frame' = 0, MaxFrame > 0, ~ panicked' PROVE FALSE
    OBVIOUS
  <2>1. frame' = current'
    BY <1>1 DEF IInv, RequestsLeadToCurrent, LoadPending, Path
  <2> QED BY <1>1, <1>3, <2>1
<1>5. (kind = "P2P" => P2PInv') /\ (kind = "SyncTest" => SyncTestInv')
  BY RequestLoads
<1>6. (kind \in {"P2P", "SyncTest"} /\ ~ panicked') => StoreInv'
  <2> SUFFICES ASSUME kind \in {"P2P", "SyncTest"}, ~ panicked' PROVE StoreInv'
    OBVIOUS
  <2>1. Alternating(requests')
    BY RequestLoads
  <2> QED BY <1>2, <2>1 DEF StoreInv
<1> QED BY <1>1, <1>2, <1>3, <1>4, <1>5, <1>6 DEF LoadInv

(***************************************************************************)
(* SaveWorld drops no snapshot from Floor on: neither the confirmed frame  *)
(* nor the depth of the queue reaches so far.                              *)
(***************************************************************************)
LEMMA HandleSaveLoads ==
    ASSUME IInv, LoadInv, IInv', HandleSave
    PROVE  LoadInv'
<1>1. /\ NextRequest("Save") /\ store' = SaveChain(store, window', confirmed', frame, world)
      /\ frame' = frame /\ panicked' = panicked
  BY DEF HandleSave
<1>2. /\ kind # "None" /\ ~ panicked /\ requests # <<>> /\ kind' = kind /\ current' = current
      /\ confirmed' \in -1 .. (MaxFrame + InputDelay) /\ window' \in Nat
  BY <1>1, NextRequestFacts
<1>3. TypeOK /\ Spread(store.entries) /\ frame <= current
  BY <1>2 DEF IInv, LoadInv
<1>4. /\ MaxFrame \in Nat /\ MaxFrame < Half /\ InputDelay \in Nat /\ MaxPrediction \in Nat \ {0}
      /\ CheckDistance \in Nat \ {0} /\ CheckDistance < MaxPrediction
      /\ frame \in 0 .. MaxFrame /\ world \in Worlds /\ confirmed' \in Int /\ current \in Nat
      /\ store \in Storage(MaxFrame, Worlds)
  BY <1>2, <1>3, RollbackLoopAssumption DEF TypeOK, Storage
<1> DEFINE w == window'
           k == confirmed'
<1>5. w \in Nat /\ k \in Int /\ store' = SaveChain(store, w, k, frame, world)
  BY <1>1, <1>2, <1>4
<1> HIDE DEF w, k
<1>6. /\ Spread(store'.entries)
      /\ w >= 1 => frame \in StoredFrames(store')
      /\ w >= 1 => \A g \in StoredFrames(store) :
                      g < frame /\ k <= g /\ frame - w < g => g \in StoredFrames(store')
  <2> DEFINE t == SaveChain(store, w, k, frame, world)
  <2>1. /\ Spread(t.entries)
        /\ w >= 1 => frame \in StoredFrames(t)
        /\ w >= 1 => \A g \in StoredFrames(store) :
                        g < frame /\ k <= g /\ frame - w < g => g \in StoredFrames(t)
    BY <1>3, <1>4, <1>5, SaveChainStored
  <2> HIDE DEF t
  <2>2. store' = t
    BY <1>5 DEF t
  <2> QED BY <2>1, <2>2
<1>7. ASSUME kind \in {"P2P", "SyncTest"}
      PROVE  /\ frame \in StoredFrames(store')
             /\ HasSaved' => \A f \in 0 .. MaxFrame :
                                Floor' <= f /\ f < frame => f \in StoredFrames(store')
  <2>1. w = MaxPrediction
    BY <1>1, <1>7 DEF NextRequest, SessionMaxPrediction, w
  <2>2. frame \in StoredFrames(store')
    BY <1>4, <1>6, <2>1
  <2> SUFFICES ASSUME HasSaved', NEW f \in 0 .. MaxFrame, Floor' <= f, f < frame
               PROVE  f \in StoredFrames(store')
    BY <2>2
  <2>3. HasSaved
    <3>1. frame # 0 /\ Head(requests).frame = frame
      BY <1>1, <1>4, AfterRequest
    <3>2. Head(requests) # SaveGameState(0)
      BY <3>1 DEF SaveGameState
    <3>3. current > 0
      BY <1>3, <1>4
    <3> QED BY <1>7, <3>2, <3>3 DEF HasSaved
  <2>4. Floor \in Int /\ Floor' \in Int /\ Floor <= Floor' /\ confirmed \in Int /\ Known \in Int
    BY <1>1, <1>7, <2>3, RequestLoads
  <2>5. f \in StoredFrames(store)
    <3>1. Floor <= f
      BY <1>4, <2>4
    <3>2. StoreInv
      BY <1>2, <1>7 DEF LoadInv
    <3> QED BY <2>3, <3>1, <3>2 DEF StoreInv
  <2>6. k <= f /\ frame - w < f
    <3>1. CASE kind = "P2P"
      <4>1. k = Known /\ P2PInv
        BY <1>1, <1>2, <3>1, RequestLoads DEF k, LoadInv
      <4>2. Floor' = AtLeastZero(Known) + 1
        BY <1>1, <1>2, <3>1, RequestLoads DEF Floor, AtLeastZero
      <4>3. current <= MaxPrediction + AtLeastZero(Known)
        BY <4>1 DEF P2PInv
      <4>4. AtLeastZero(Known) \in Int /\ Known <= AtLeastZero(Known)
        BY <2>4 DEF AtLeastZero
      <4> QED BY <1>3, <1>4, <2>1, <2>4, <4>1, <4>2, <4>3, <4>4
    <3>2. CASE kind = "SyncTest"
      <4>1. /\ frame < current
            /\ k = IF frame >= CheckDistance THEN frame - CheckDistance ELSE confirmed
        BY <1>1, <3>2, RequestLoads DEF k
      <4>2. Floor' = current - CheckDistance - 1
        BY <1>2, <3>2 DEF Floor
      <4>3. confirmed <= 0 \/ confirmed <= current - CheckDistance - 1
        <5>1. MaxFrame > 0
          BY <1>4
        <5>2. SyncTestInv
          BY <1>2, <3>2 DEF LoadInv
        <5> QED BY <5>1, <5>2 DEF SyncTestInv
      <4> QED BY <1>4, <2>1, <2>4, <4>1, <4>2, <4>3
    <3> QED BY <1>7, <3>1, <3>2
  <2> QED BY <1>4, <1>6, <2>1, <2>5, <2>6
<1> QED BY <1>1, <1>6, <1>7, RequestStep

(***************************************************************************)
(* LoadWorld keeps the snapshot it restores and the older ones.            *)
(***************************************************************************)
LEMMA HandleLoadLoads ==
    ASSUME IInv, LoadInv, IInv', HandleLoad
    PROVE  LoadInv'
<1> DEFINE l == Head(requests).frame
<1>1. NextRequest("Load") /\ frame' = l
  BY DEF HandleLoad
<1>2. ~ panicked /\ kind' = kind /\ Head(requests).type = "Load" /\ requests # <<>>
  BY <1>1, NextRequestFacts
<1>3. TypeOK /\ Spread(store.entries)
  BY DEF IInv, LoadInv
<1>4. CASE ~ CanRollback(store, frame')
  <2>1. panicked' = TRUE /\ store' = store
    BY <1>4 DEF HandleLoad
  <2> QED BY <1>1, <1>3, <2>1, RequestStep
<1>5. CASE CanRollback(store, frame')
  <2>1. store' = Rollback(store, l) /\ CanRollback(store, l)
    BY <1>1, <1>5 DEF HandleLoad
  <2>2. store \in Storage(MaxFrame, Worlds) /\ MaxFrame \in Nat
    BY <1>3, RollbackLoopAssumption DEF TypeOK, Storage
  <2>3. HasSaved /\ l \in 0 .. MaxFrame
    BY <1>1, AfterRequest
  <2> HIDE DEF l
  <2>4. /\ Spread(store'.entries)
        /\ l \in StoredFrames(store')
        /\ \A g \in StoredFrames(store) : g <= l => g \in StoredFrames(store')
    <3> DEFINE t == Rollback(store, l)
    <3>1. /\ Spread(t.entries)
          /\ l \in StoredFrames(t)
          /\ \A g \in StoredFrames(store) : g <= l => g \in StoredFrames(t)
      BY <1>3, <2>1, <2>2, RollbackStored
    <3> HIDE DEF t
    <3>2. store' = t
      BY <2>1 DEF t
    <3> QED BY <3>1, <3>2
  <2>5. ASSUME kind \in {"P2P", "SyncTest"}, NEW f \in 0 .. MaxFrame, Floor' <= f, f < l
        PROVE  f \in StoredFrames(store')
    <3>1. Floor \in Int /\ Floor' \in Int /\ Floor <= Floor'
      BY <1>1, <2>3, <2>5, RequestLoads
    <3>2. StoreInv
      BY <1>2, <2>5 DEF LoadInv
    <3>3. l < frame /\ frame \in Nat
      BY <1>2, <1>3, <3>2, RollbackLoopAssumption DEF StoreInv, LoadPending, TypeOK, l
    <3>4. Floor <= f /\ f < frame /\ f <= l
      BY <2>2, <2>3, <2>5, <3>1, <3>3
    <3>5. f \in StoredFrames(store)
      BY <2>3, <3>2, <3>4 DEF StoreInv
    <3> QED BY <2>4, <3>4, <3>5
  <2> QED BY <1>1, <2>4, <2>5, RequestStep DEF l
<1> QED BY <1>4, <1>5

(***************************************************************************)
(* AdvanceWorld leaves a frame that has been saved.                        *)
(***************************************************************************)
LEMMA HandleAdvanceLoads ==
    ASSUME IInv, LoadInv, IInv', HandleAdvance
    PROVE  LoadInv'
<1>1. NextRequest("Advance") /\ frame' = frame + 1 /\ store' = store /\ panicked' = panicked
  BY DEF HandleAdvance
<1>2. /\ ~ panicked /\ kind' = kind /\ current' = current
      /\ Head(requests).type = "Advance" /\ requests # <<>>
  BY <1>1, NextRequestFacts
<1>3. TypeOK /\ Spread(store.entries)
  BY DEF IInv, LoadInv
<1>4. frame \in Nat /\ MaxFrame \in Nat
  BY <1>3, RollbackLoopAssumption DEF TypeOK
<1>5. ASSUME kind \in {"P2P", "SyncTest"}
      PROVE  /\ requests' # <<>> => Head(requests').type # "Advance"
             /\ HasSaved' => \A f \in 0 .. MaxFrame :
                                Floor' <= f /\ f < frame + 1 => f \in StoredFrames(store)
  <2>1. requests' # <<>> => Head(requests').type # "Advance"
    BY <1>1, <1>5, RequestLoads
  <2> SUFFICES ASSUME HasSaved', NEW f \in 0 .. MaxFrame, Floor' <= f, f < frame + 1
               PROVE  f \in StoredFrames(store)
    BY <2>1
  <2>2. HasSaved
    BY <1>2 DEF HasSaved, SaveGameState
  <2>3. Floor \in Int /\ Floor' \in Int /\ Floor <= Floor'
    BY <1>1, <1>5, <2>2, RequestLoads
  <2>4. StoreInv
    BY <1>2, <1>5 DEF LoadInv
  <2>5. Floor <= f /\ (f < frame \/ f = frame)
    BY <1>4, <2>3
  <2> QED BY <1>2, <2>2, <2>4, <2>5 DEF StoreInv
<1> QED BY <1>1, <1>3, <1>5, RequestStep

----------------------------------------------------------------------------
(***************************************************************************)
(* Every step of the specification preserves the invariant.                *)
(***************************************************************************)
LEMMA NextLoadInv == IInv /\ LoadInv /\ IInv' /\ [Next]_vars => LoadInv'
<1> SUFFICES ASSUME IInv, LoadInv, IInv', [Next]_vars PROVE LoadInv'
  OBVIOUS
<1>1. CASE \E k \in Kinds : InsertSession(k)
  BY <1>1, InsertSessionLoads
<1>2. CASE RemoveSession
  BY <1>2, RemoveSessionLoads
<1>3. CASE \E p \in Remotes, input \in Inputs : ReceiveInput(p, input)
  BY <1>3, ReceiveInputLoads
<1>4. CASE \E p \in Remotes : DisconnectPlayer(p)
  BY <1>4, DisconnectPlayerLoads
<1>5. CASE RunP2P
  BY <1>5, RunP2PLoads
<1>6. CASE \E input \in [Remotes -> Inputs] : RunSyncTest(input)
  BY <1>6, RunSyncTestLoads
<1>7. CASE \E n \in 1 .. CatchUp : \E host \in [1 .. n -> [Remotes -> Inputs]] : RunSpectator(host)
  BY <1>7, RunSpectatorLoads
<1>8. CASE RunWithoutSession
  BY <1>8, RunWithoutSessionLoads
<1>9. CASE HandleSave
  BY <1>9, HandleSaveLoads
<1>10. CASE HandleLoad
  BY <1>10, HandleLoadLoads
<1>11. CASE HandleAdvance
  BY <1>11, HandleAdvanceLoads
<1>12. CASE UNCHANGED vars
  <2>1. /\ frame' = frame /\ confirmed' = confirmed /\ store' = store /\ requests' = requests
        /\ panicked' = panicked /\ kind' = kind /\ current' = current /\ inputs' = inputs
        /\ received' = received /\ gone' = gone /\ localLast' = localLast
    BY <1>12 DEF vars
  <2>2. /\ LoadPending' = LoadPending /\ HasSaved' = HasSaved /\ Floor' = Floor
        /\ Known' = Known /\ Incorrect' = Incorrect
    BY <2>1 DEF LoadPending, HasSaved, Floor, Known, ConfirmedFrame, Incorrect, InputOf
  <2>3. P2PInv' = P2PInv /\ SyncTestInv' = SyncTestInv /\ StoreInv' = StoreInv
    BY <2>1, <2>2 DEF P2PInv, SyncTestInv, StoreInv
  <2> QED BY <2>1, <2>2, <2>3 DEF LoadInv
<1> QED BY <1>1, <1>2, <1>3, <1>4, <1>5, <1>6, <1>7, <1>8, <1>9, <1>10, <1>11, <1>12
        DEF Next, RunSession, HandleRequest

(***************************************************************************)
(* So it holds in every reachable state.                                   *)
(***************************************************************************)
LEMMA AlwaysLoadInv == Spec => [](IInv /\ LoadInv)
<1>1. Init => IInv /\ LoadInv
  BY InitIInv, InitLoadInv
<1>2. (IInv /\ LoadInv) /\ [Next]_vars => (IInv /\ LoadInv)'
  BY NextIInv, NextLoadInv
<1> QED BY <1>1, <1>2, PTL DEF Spec

(***************************************************************************)
(* A request to load a frame is for one between the confirmed frame and    *)
(* the present one.                                                        *)
(***************************************************************************)
LEMMA PendingLoad ==
    ASSUME IInv, LoadInv, LoadPending
    PROVE  /\ Head(requests).frame > confirmed
           /\ Head(requests).frame > 0 => CanRollback(store, Head(requests).frame)
<1>1. requests # <<>> /\ Head(requests).type = "Load"
  BY DEF LoadPending
<1>2. kind # "None" /\ ~ panicked /\ TypeOK /\ requests \in Seq(Requests)
  BY <1>1 DEF IInv, LoadInv, TypeOK
<1>3. HasSaved
  <2>1. ~ Path(requests, frame, current, inputs)
    BY <1>1, NoLoadOnPath
  <2> QED BY <1>2, <2>1 DEF IInv, RequestsLeadToCurrent
<1>4. kind \in {"P2P", "SyncTest"}
  BY <1>3 DEF HasSaved
<1>5. StoreInv
  BY <1>2, <1>4 DEF LoadInv
<1> DEFINE l == Head(requests).frame
<1>6. l > confirmed /\ l < frame /\ (kind = "SyncTest" => l >= Floor)
  BY <1>5 DEF StoreInv
<1>7. l \in 0 .. MaxFrame
  <2>1. Head(requests) \in Requests
    BY <1>1, <1>2, HeadTailProperties
  <2> QED BY <2>1, RequestFields
<1> HIDE DEF l
<1>8. l > 0 => l \in StoredFrames(store)
  <2> SUFFICES ASSUME l > 0 PROVE l \in StoredFrames(store)
    OBVIOUS
  <2>1. Floor <= l
    <3>1. confirmed \in Int /\ l \in Int /\ CheckDistance \in Int /\ current \in Int
      BY <1>2, <1>7, RollbackLoopAssumption DEF TypeOK
    <3>2. CASE kind = "P2P"
      BY <1>6, <3>1, <3>2 DEF Floor, AtLeastZero
    <3>3. CASE kind = "SyncTest"
      <4>1. Floor \in Int
        BY <3>1, <3>3 DEF Floor
      <4> QED BY <1>6, <3>1, <3>3, <4>1
    <3> QED BY <1>4, <3>2, <3>3
  <2> QED BY <1>3, <1>5, <1>6, <1>7, <2>1 DEF StoreInv
<1> QED BY <1>6, <1>8 DEF CanRollback, l

(***************************************************************************)
(* Every rollback to a frame other than the first finds its snapshot: for  *)
(* any number of players, any inputs and any order in which they arrive,   *)
(* any prediction window, check distance and input delay, neither the      *)
(* depth of the queue nor discard_old_snapshots takes away a snapshot that *)
(* GGRS asks for.                                                          *)
(***************************************************************************)
THEOREM LoadsAreStoredAlways == Spec => []LoadsAreStored
<1>1. IInv /\ LoadInv => LoadsAreStored
  BY PendingLoad DEF LoadsAreStored, LoadPending
<1> QED BY <1>1, AlwaysLoadInv, PTL

(***************************************************************************)
(* A rollback never goes to a frame at or before ConfirmedFrameCount.      *)
(***************************************************************************)
THEOREM ConfirmedStaysConfirmedAlways == Spec => ConfirmedStaysConfirmed
<1>1. IInv /\ LoadInv => (HandleLoad => frame' > confirmed)
  <2> SUFFICES ASSUME IInv, LoadInv, HandleLoad PROVE frame' > confirmed
    OBVIOUS
  <2>1. frame' = Head(requests).frame /\ LoadPending
    BY DEF HandleLoad, NextRequest, LoadPending
  <2> QED BY <2>1, PendingLoad
<1> QED BY <1>1, AlwaysLoadInv, PTL DEF ConfirmedStaysConfirmed
=============================================================================
