-------------------------- MODULE SyncTest_proofs --------------------------
(***************************************************************************)
(* Proofs about SyncTest: what a checksum tells apart, that a reported     *)
(* mismatch is no false alarm and leaves nothing out, and that a           *)
(* deterministic game is never accused.                                    *)
(***************************************************************************)
EXTENDS SyncTest, GgrsSnapshots_proofs, FiniteSetTheorems

----------------------------------------------------------------------------
(* States, views and checksums *)

AllValues == Values \union {InitialValue}

(***************************************************************************)
(* The rollback states with Entities that were handed out before n: every  *)
(* RollbackId is registered once, and every active one is registered.      *)
(***************************************************************************)
States(n) ==
    {s \in [ordered    : Seq(1 .. (n - 1)),
            components : UNION {[ids -> AllValues] : ids \in SUBSET (1 .. (n - 1))},
            resources  : [Resources -> AllValues]] :
        /\ \A i, j \in 1 .. Len(s.ordered) : s.ordered[i] = s.ordered[j] => i = j
        /\ \A id \in DOMAIN s.components : \E i \in 1 .. Len(s.ordered) : s.ordered[i] = id}

Views == [components : UNION {[places -> AllValues] : places \in SUBSET Nat},
          total      : Nat,
          resources  : [Resources -> AllValues]]

(***************************************************************************)
(* The checksum as a function of what counts.                              *)
(***************************************************************************)
ComponentHashes(v) ==
    {[order |-> i, component |-> v.components[i]] : i \in DOMAIN v.components}

PartsOf(v) ==
    [flag \in Flags |->
        CASE flag = "Component" -> [xor |-> ComponentHashes(v)]
          [] flag = "Entity"    -> [active |-> Cardinality(DOMAIN v.components),
                                    total  |-> v.total]
          [] flag \in Resources -> [value |-> v.resources[flag]]]

ChecksumOf(v) == Total(PartsOf(v))

(***************************************************************************)
(* Parts of equal resources cancel out (src/snapshot/checksum.rs:91), so   *)
(* that only with at most one resource all parts are different.            *)
(***************************************************************************)
OneResource == \A r, s \in Resources : r = s

----------------------------------------------------------------------------
(* The requests of a step *)

Requests(c) == [type : {"Save", "Load"}, frame : 0 .. c]
                  \union [type : {"Advance"}, frame : 0 .. c, input : {"input"}]

Follows(a, b) ==
    IF a.type = "Advance" THEN b.type = "Save" /\ b.frame = a.frame + 1
                          ELSE b.type = "Advance" /\ b.frame = a.frame

(***************************************************************************)
(* A list of requests that ends with leaving frame c.                      *)
(***************************************************************************)
Path(r, c) ==
    /\ r \in Seq(Requests(c)) /\ r # <<>>
    /\ r[Len(r)].type = "Advance" /\ r[Len(r)].frame = c
    /\ \A i \in 1 .. (Len(r) - 1) : Follows(r[i], r[i + 1])

(***************************************************************************)
(* Before, during and after a step; a step that began in frame c has       *)
(* current = c + 1.                                                        *)
(***************************************************************************)
StepInv ==
    /\ requests = <<>> => frame = current
    /\ requests # <<>> =>
          LET c == current - 1
          IN  /\ c \in Nat /\ Path(requests, c)
              /\ Len(requests) > 2 => c > CheckDistance
              /\ Head(requests).type = "Load" => /\ c > CheckDistance
                                                 /\ Head(requests).frame = c - CheckDistance
              /\ Head(requests).type # "Load" => /\ Head(requests).frame = frame
                                                 /\ frame >= c - CheckDistance
              /\ Head(requests).type = "Save" => frame > c - CheckDistance

(***************************************************************************)
(* The frames that have been saved; in a step the save of its first frame  *)
(* is the last request but one.                                            *)
(***************************************************************************)
Saved == 0 .. ((IF Len(requests) <= 1 THEN current ELSE current - 1) - 1)

TypeInv ==
    /\ nextEntity \in Nat \ {0}
    /\ state \in States(nextEntity)
    /\ store \in Storage(MaxFrame, States(nextEntity))
    /\ Descending(store.entries)
    /\ frame \in 0 .. MaxFrame /\ current \in 0 .. MaxFrame /\ confirmed \in Int
    /\ DOMAIN parts \subseteq Flags
    /\ DOMAIN first = Saved /\ DOMAIN cells = Saved
    /\ \A f \in Saved : first[f] \in Views
    /\ diverged \subseteq Saved

(***************************************************************************)
(* What the session remembers is the checksum of the first state; what is  *)
(* in the cell is that of the last one.                                    *)
(***************************************************************************)
ChecksumInv ==
    /\ DOMAIN history \subseteq Saved
    /\ \A f \in DOMAIN history : history[f] = ChecksumOf(first[f])
    /\ \A f \in Saved \ diverged : cells[f] = ChecksumOf(first[f])
    /\ OneResource => \A f \in diverged : cells[f] # ChecksumOf(first[f])

(***************************************************************************)
(* No frame that may still be compared diverges before the session has its *)
(* first checksum; and when every divergence shows, none is older.         *)
(***************************************************************************)
WindowInv ==
    /\ (requests # <<>> /\ current - 1 > CheckDistance) =>
          (current - 1 - CheckDistance) .. (current - 2) \subseteq DOMAIN history
    /\ \A f \in diverged : f >= current - CheckDistance => f \in DOMAIN history
    /\ OneResource => \A f \in diverged : f >= current - CheckDistance /\ current > CheckDistance

\* Once reported, a mismatch stays, and the session does not go on.
ReportInv ==
    mismatch # NoMismatch => /\ requests = <<>>
                             /\ mismatch.frames = Mismatched /\ Mismatched # {}

SyncInv == TypeInv /\ StepInv /\ ChecksumInv /\ WindowInv /\ ReportInv

----------------------------------------------------------------------------
(* A deterministic game *)

(***************************************************************************)
(* What an operation of the game does to the view, whatever the Entities.  *)
(***************************************************************************)
PlayView(v, op) ==
    CASE op.op = "spawn" /\ v.total < MaxEntities ->
            [v EXCEPT !.total = @ + 1, !.components = With(@, v.total + 1, op.value)]
      [] op.op = "change" /\ op.place \in DOMAIN v.components ->
            [v EXCEPT !.components[op.place] = op.value]
      [] op.op = "despawn" /\ op.place \in DOMAIN v.components ->
            [v EXCEPT !.components = [i \in DOMAIN @ \ {op.place} |-> @[i]]]
      [] op.op = "set" ->
            [v EXCEPT !.resources[op.resource] = op.value]
      [] OTHER -> v

(***************************************************************************)
(* The script leads from each first view to the next; world and snapshots  *)
(* are on that way.                                                        *)
(***************************************************************************)
ScriptInv ==
    /\ script \in Seq(Ops)
    /\ Len(script) = IF requests = <<>> THEN current ELSE current - 1

ReplayInv ==
    /\ diverged = {}
    /\ \A f \in Saved : f > 0 => first[f] = PlayView(first[f - 1], script[f])
    /\ frame \in Saved => View(state) = first[frame]
    /\ (frame \notin Saved /\ frame > 0) => View(state) = PlayView(first[frame - 1], script[frame])
    /\ \A i \in 1 .. Len(store.entries) :
          /\ store.entries[i].frame \in Saved
          /\ View(store.entries[i].data) = first[store.entries[i].frame]

GameInv == ScriptInv /\ (~ leaked => ReplayInv)

----------------------------------------------------------------------------
(* What a state is made of *)

(***************************************************************************)
(* The parts of a rollback state.                                          *)
(***************************************************************************)
LEMMA StateFacts ==
    ASSUME NEW n \in Nat \ {0}, NEW s \in States(n)
    PROVE  /\ s = [ordered |-> s.ordered, components |-> s.components, resources |-> s.resources]
           /\ s.ordered \in Seq(1 .. (n - 1))
           /\ Len(s.ordered) \in Nat /\ DOMAIN s.ordered = 1 .. Len(s.ordered)
           /\ s.components \in [DOMAIN s.components -> AllValues]
           /\ DOMAIN s.components \subseteq 1 .. (n - 1)
           /\ s.resources \in [Resources -> AllValues]
           /\ \A i, j \in 1 .. Len(s.ordered) : s.ordered[i] = s.ordered[j] => i = j
           /\ \A id \in DOMAIN s.components :
                 \E i \in 1 .. Len(s.ordered) : s.ordered[i] = id
<1>1. /\ s \in [ordered    : Seq(1 .. (n - 1)),
                components : UNION {[ids -> AllValues] : ids \in SUBSET (1 .. (n - 1))},
                resources  : [Resources -> AllValues]]
      /\ \A i, j \in 1 .. Len(s.ordered) : s.ordered[i] = s.ordered[j] => i = j
      /\ \A id \in DOMAIN s.components : \E i \in 1 .. Len(s.ordered) : s.ordered[i] = id
  BY DEF States
<1>2. /\ s = [ordered |-> s.ordered, components |-> s.components, resources |-> s.resources]
      /\ s.ordered \in Seq(1 .. (n - 1))
      /\ s.resources \in [Resources -> AllValues]
      /\ s.components \in UNION {[ids -> AllValues] : ids \in SUBSET (1 .. (n - 1))}
  BY <1>1
<1>3. Len(s.ordered) \in Nat /\ DOMAIN s.ordered = 1 .. Len(s.ordered)
  BY <1>2, LenProperties
<1>4. PICK ids \in SUBSET (1 .. (n - 1)) : s.components \in [ids -> AllValues]
  BY <1>2
<1>5. DOMAIN s.components = ids
  BY <1>4
<1> QED BY <1>1, <1>2, <1>3, <1>4, <1>5

(***************************************************************************)
(* And the other way round.                                                *)
(***************************************************************************)
LEMMA StateIntro ==
    ASSUME NEW n \in Nat \ {0}, NEW o \in Seq(1 .. (n - 1)), NEW c, NEW r \in [Resources -> AllValues],
           c \in [DOMAIN c -> AllValues], DOMAIN c \subseteq 1 .. (n - 1),
           \A i, j \in 1 .. Len(o) : o[i] = o[j] => i = j,
           \A id \in DOMAIN c : \E i \in 1 .. Len(o) : o[i] = id
    PROVE  [ordered |-> o, components |-> c, resources |-> r] \in States(n)
<1>1. c \in UNION {[ids -> AllValues] : ids \in SUBSET (1 .. (n - 1))}
  OBVIOUS
<1> DEFINE s == [ordered |-> o, components |-> c, resources |-> r]
<1>2. s.ordered = o /\ s.components = c /\ s.resources = r
  OBVIOUS
<1>3. s \in [ordered    : Seq(1 .. (n - 1)),
             components : UNION {[ids -> AllValues] : ids \in SUBSET (1 .. (n - 1))},
             resources  : [Resources -> AllValues]]
  BY <1>1
<1> QED BY <1>2, <1>3 DEF States

(***************************************************************************)
(* A state stays one when more Entities have been handed out.              *)
(***************************************************************************)
LEMMA StatesGrow ==
    ASSUME NEW n \in Nat \ {0}, NEW m \in Nat \ {0}, n <= m
    PROVE  States(n) \subseteq States(m)
<1> SUFFICES ASSUME NEW s \in States(n) PROVE s \in States(m)
  OBVIOUS
<1>1. 1 .. (n - 1) \subseteq 1 .. (m - 1)
  OBVIOUS
<1>2. /\ s = [ordered |-> s.ordered, components |-> s.components, resources |-> s.resources]
      /\ s.ordered \in Seq(1 .. (n - 1))
      /\ s.components \in [DOMAIN s.components -> AllValues]
      /\ DOMAIN s.components \subseteq 1 .. (n - 1)
      /\ s.resources \in [Resources -> AllValues]
      /\ \A i, j \in 1 .. Len(s.ordered) : s.ordered[i] = s.ordered[j] => i = j
      /\ \A id \in DOMAIN s.components : \E i \in 1 .. Len(s.ordered) : s.ordered[i] = id
  BY StateFacts
<1>3. s.ordered \in Seq(1 .. (m - 1))
  <2>1. \A i \in 1 .. Len(s.ordered) : s.ordered[i] \in 1 .. (m - 1)
    BY <1>1, <1>2, ElementOfSeq
  <2> QED BY <1>2, <2>1, SeqDef, LenProperties
<1>4. DOMAIN s.components \subseteq 1 .. (m - 1)
  BY <1>1, <1>2
<1> DEFINE o == s.ordered
           c == s.components
           r == s.resources
<1>5. [ordered |-> o, components |-> c, resources |-> r] \in States(m)
  <2> HIDE DEF o, c, r
  <2> QED BY <1>2, <1>3, <1>4, StateIntro DEF o, c, r
<1> QED BY <1>2, <1>5

(***************************************************************************)
(* The view of a state: the active places, and the values there.           *)
(***************************************************************************)
LEMMA ViewFacts ==
    ASSUME NEW n \in Nat \ {0}, NEW s \in States(n)
    PROVE  /\ View(s) \in Views
           /\ View(s) = [components |-> View(s).components, total |-> View(s).total,
                         resources |-> View(s).resources]
           /\ View(s).total = Len(s.ordered)
           /\ View(s).resources = s.resources
           /\ \A i : i \in DOMAIN View(s).components <=> Active(s, i)
           /\ \A i : Active(s, i) => /\ i \in 1 .. Len(s.ordered)
                                     /\ s.ordered[i] \in DOMAIN s.components
                                     /\ View(s).components[i] = s.components[s.ordered[i]]
<1> DEFINE places == {j \in DOMAIN s.ordered : s.ordered[j] \in DOMAIN s.components}
           c == [i \in places |-> s.components[s.ordered[i]]]
<1>1. /\ View(s).components = c /\ View(s).total = Len(s.ordered)
      /\ View(s).resources = s.resources
      /\ View(s) = [components |-> c, total |-> Len(s.ordered), resources |-> s.resources]
  BY DEF View
<1>2. /\ Len(s.ordered) \in Nat /\ DOMAIN s.ordered = 1 .. Len(s.ordered)
      /\ s.resources \in [Resources -> AllValues]
      /\ s.components \in [DOMAIN s.components -> AllValues]
  BY StateFacts
<1>3. places \in SUBSET Nat
  BY <1>2
<1>4. c \in [places -> AllValues] /\ DOMAIN c = places
  BY <1>2
<1>5. \A i : Active(s, i) <=> i \in places
  BY DEF Active
<1>6. \A i \in places : c[i] = s.components[s.ordered[i]] /\ i \in 1 .. Len(s.ordered)
                        /\ s.ordered[i] \in DOMAIN s.components
  BY <1>2
<1>7. c \in UNION {[q -> AllValues] : q \in SUBSET Nat}
  BY <1>3, <1>4
<1> HIDE DEF places, c
<1>8. View(s) \in Views
  BY <1>1, <1>2, <1>7 DEF Views
<1> QED BY <1>1, <1>4, <1>5, <1>6, <1>8

----------------------------------------------------------------------------
(* What a checksum tells apart *)

(***************************************************************************)
(* Nothing cancels out when all hashes are different.                      *)
(***************************************************************************)
LEMMA XorDistinct ==
    ASSUME NEW hashes, \A x, y \in DOMAIN hashes : hashes[x] = hashes[y] => x = y
    PROVE  Xor(hashes) = Hashed(hashes)
<1> SUFFICES ASSUME NEW x \in DOMAIN hashes
             PROVE  Cardinality({y \in DOMAIN hashes : hashes[y] = hashes[x]}) % 2 = 1
  BY DEF Xor, Hashed
<1>1. {y \in DOMAIN hashes : hashes[y] = hashes[x]} = {x}
  OBVIOUS
<1>2. Cardinality({x}) = 1
  BY FS_Singleton
<1> QED BY <1>1, <1>2

(***************************************************************************)
(* RollbackOrdered::order finds the place of an entity.                    *)
(***************************************************************************)
LEMMA OrderFacts ==
    ASSUME NEW n \in Nat \ {0}, NEW s \in States(n), NEW i \in 1 .. Len(s.ordered)
    PROVE  Order(s.ordered, s.ordered[i]) = i
<1> DEFINE j == CHOOSE k \in DOMAIN s.ordered : s.ordered[k] = s.ordered[i]
<1>1. /\ DOMAIN s.ordered = 1 .. Len(s.ordered)
      /\ \A k, m \in 1 .. Len(s.ordered) : s.ordered[k] = s.ordered[m] => k = m
  BY StateFacts
<1>2. j \in DOMAIN s.ordered /\ s.ordered[j] = s.ordered[i]
  BY <1>1
<1>3. j = i
  BY <1>1, <1>2
<1> QED BY <1>3 DEF Order

(***************************************************************************)
(* Components of different entities never cancel out: their places differ. *)
(***************************************************************************)
LEMMA ComponentsHashed ==
    ASSUME NEW n \in Nat \ {0}, NEW s \in States(n)
    PROVE  ComponentPart(s) = [xor |-> ComponentHashes(View(s))]
<1> DEFINE h == [id \in DOMAIN s.components |-> ComponentHash(s, id)]
           v == View(s)
<1>1. \A id \in DOMAIN s.components : \E i \in 1 .. Len(s.ordered) : s.ordered[i] = id
  BY StateFacts
<1>2. \A i \in 1 .. Len(s.ordered) :
         ComponentHash(s, s.ordered[i]) = [order |-> i, component |-> s.components[s.ordered[i]]]
  BY OrderFacts DEF ComponentHash
<1>3. \A x, y \in DOMAIN h : h[x] = h[y] => x = y
  <2> SUFFICES ASSUME NEW x \in DOMAIN s.components, NEW y \in DOMAIN s.components,
                      ComponentHash(s, x) = ComponentHash(s, y)
               PROVE  x = y
    OBVIOUS
  <2>1. PICK i \in 1 .. Len(s.ordered) : s.ordered[i] = x
    BY <1>1
  <2>2. PICK j \in 1 .. Len(s.ordered) : s.ordered[j] = y
    BY <1>1
  <2> DEFINE a == s.components[x]
             b == s.components[y]
  <2>3. i = j
    <3>1. ComponentHash(s, x) = [order |-> i, component |-> a]
      BY <1>2, <2>1
    <3>2. ComponentHash(s, y) = [order |-> j, component |-> b]
      BY <1>2, <2>2
    <3> HIDE DEF a, b
    <3>3. [order |-> i, component |-> a] = [order |-> j, component |-> b]
      BY <3>1, <3>2
    <3>4. [order |-> i, component |-> a].order = [order |-> j, component |-> b].order
      BY <3>3
    <3> QED BY <3>4
  <2> QED BY <2>1, <2>2, <2>3
<1>4. Xor(h) = Hashed(h)
  <2> HIDE DEF h
  <2> QED BY <1>3, XorDistinct
<1>5. \A i : /\ i \in DOMAIN v.components <=> Active(s, i)
             /\ Active(s, i) => /\ i \in 1 .. Len(s.ordered)
                                /\ s.ordered[i] \in DOMAIN s.components
                                /\ v.components[i] = s.components[s.ordered[i]]
  BY ViewFacts
<1>6. \A i \in 1 .. Len(s.ordered) : s.ordered[i] \in DOMAIN s.components => Active(s, i)
  <2>1. DOMAIN s.ordered = 1 .. Len(s.ordered)
    BY StateFacts
  <2> QED BY <2>1 DEF Active
<1> HIDE DEF v
<1>7. Hashed(h) \subseteq ComponentHashes(v)
  <2> SUFFICES ASSUME NEW id \in DOMAIN s.components
               PROVE  ComponentHash(s, id) \in ComponentHashes(v)
    BY DEF Hashed
  <2>1. PICK i \in 1 .. Len(s.ordered) : s.ordered[i] = id
    BY <1>1
  <2>2. i \in DOMAIN v.components /\ v.components[i] = s.components[id]
    BY <1>5, <1>6, <2>1
  <2>3. ComponentHash(s, id) = [order |-> i, component |-> v.components[i]]
    BY <1>2, <2>1, <2>2
  <2> QED BY <2>2, <2>3 DEF ComponentHashes
<1>8. ComponentHashes(v) \subseteq Hashed(h)
  <2> SUFFICES ASSUME NEW i \in DOMAIN v.components
               PROVE  [order |-> i, component |-> v.components[i]] \in Hashed(h)
    BY DEF ComponentHashes
  <2>1. /\ i \in 1 .. Len(s.ordered) /\ s.ordered[i] \in DOMAIN s.components
        /\ v.components[i] = s.components[s.ordered[i]]
    BY <1>5
  <2>2. h[s.ordered[i]] = [order |-> i, component |-> v.components[i]]
    BY <1>2, <2>1
  <2> QED BY <2>1, <2>2 DEF Hashed
<1>9. Xor(h) = ComponentHashes(v)
  <2> HIDE DEF h
  <2> QED BY <1>4, <1>7, <1>8
<1> QED BY <1>9 DEF ComponentPart, v

(***************************************************************************)
(* As many places are active as there are active entities.                 *)
(***************************************************************************)
LEMMA ActiveCount ==
    ASSUME NEW n \in Nat \ {0}, NEW s \in States(n)
    PROVE  Cardinality(DOMAIN s.components) = Cardinality(DOMAIN View(s).components)
<1> DEFINE P == DOMAIN View(s).components
           C == DOMAIN s.components
           g == [i \in P |-> s.ordered[i]]
<1>1. \A i : /\ i \in P <=> Active(s, i)
             /\ Active(s, i) => i \in 1 .. Len(s.ordered) /\ s.ordered[i] \in C
  BY ViewFacts
<1>2. /\ DOMAIN s.ordered = 1 .. Len(s.ordered) /\ Len(s.ordered) \in Nat
      /\ \A i, j \in 1 .. Len(s.ordered) : s.ordered[i] = s.ordered[j] => i = j
      /\ \A id \in C : \E i \in 1 .. Len(s.ordered) : s.ordered[i] = id
  BY StateFacts
<1> HIDE DEF P, C
<1>3. P \in SUBSET (1 .. Len(s.ordered))
  BY <1>1
<1>4. IsFiniteSet(P)
  <2>1. IsFiniteSet(1 .. Len(s.ordered))
    BY <1>2, FS_Interval
  <2> QED BY <1>3, <2>1, FS_Subset
<1>5. g \in [P -> C] /\ \A i \in P : g[i] = s.ordered[i]
  BY <1>1
<1>6. \A i, j \in P : g[i] = g[j] => i = j
  BY <1>2, <1>3, <1>5
<1>7. \A id \in C : \E i \in P : g[i] = id
  <2> SUFFICES ASSUME NEW id \in C PROVE \E i \in P : g[i] = id
    OBVIOUS
  <2>1. PICK i \in 1 .. Len(s.ordered) : s.ordered[i] = id
    BY <1>2
  <2>2. i \in P
    BY <1>1, <1>2, <2>1 DEF Active, C
  <2> QED BY <1>5, <2>1, <2>2
<1> HIDE DEF g
<1>8. ExistsBijection(P, C)
  <2>1. g \in Injection(P, C)
    BY <1>5, <1>6 DEF Injection, IsInjective
  <2>2. g \in Surjection(P, C)
    BY <1>5, <1>7 DEF Surjection
  <2> QED BY <2>1, <2>2 DEF ExistsBijection, Bijection
<1>9. Cardinality(C) = Cardinality(P)
  BY <1>4, <1>8, FS_Bijection
<1> QED BY <1>9 DEF P, C

(***************************************************************************)
(* The parts of a view.                                                    *)
(***************************************************************************)
LEMMA PartsFacts ==
    ASSUME NEW v
    PROVE  /\ DOMAIN PartsOf(v) = Flags
           /\ PartsOf(v)["Component"] = [xor |-> ComponentHashes(v)]
           /\ PartsOf(v)["Entity"] = [active |-> Cardinality(DOMAIN v.components),
                                      total |-> v.total]
           /\ \A r \in Resources : PartsOf(v)[r] = [value |-> v.resources[r]]
           /\ "Component" \in Flags /\ "Entity" \in Flags /\ Resources \subseteq Flags
<1>1. /\ "Component" \in Flags /\ "Entity" \in Flags /\ Resources \subseteq Flags
      /\ "Component" # "Entity"
      /\ \A r \in Resources : r # "Component" /\ r # "Entity"
  BY ChecksumAssumption DEF Flags
<1> QED BY <1>1 DEF PartsOf

(***************************************************************************)
(* The checksum depends on nothing but the view: not on the numbers Bevy   *)
(* gave the entities, nor on the parts an earlier save left.               *)
(***************************************************************************)
LEMMA ChecksumOfView ==
    ASSUME NEW n \in Nat \ {0}, NEW s \in States(n), NEW p, DOMAIN p \subseteq Flags
    PROVE  /\ DOMAIN UpdateParts(p, s) = Flags
           /\ Total(UpdateParts(p, s)) = ChecksumOf(View(s))
<1> DEFINE v == View(s)
<1>1. DOMAIN p \union Flags = Flags
  OBVIOUS
<1>2. ComponentPart(s) = [xor |-> ComponentHashes(v)]
  BY ComponentsHashed
<1>3. EntityPart(s) = [active |-> Cardinality(DOMAIN v.components), total |-> v.total]
  BY ActiveCount, ViewFacts DEF EntityPart
<1>4. \A r : ResourcePart(s, r) = [value |-> v.resources[r]]
  BY ViewFacts DEF ResourcePart
<1> HIDE DEF v
<1>4a. /\ PartsOf(v)["Component"] = [xor |-> ComponentHashes(v)]
       /\ PartsOf(v)["Entity"] = [active |-> Cardinality(DOMAIN v.components),
                                  total |-> v.total]
       /\ \A r \in Resources : PartsOf(v)[r] = [value |-> v.resources[r]]
  BY PartsFacts
<1>5. UpdateParts(p, s) = PartsOf(v)
  <2> DEFINE F(flag) == CASE flag = "Component" -> ComponentPart(s)
                          [] flag = "Entity"    -> EntityPart(s)
                          [] flag \in Resources -> ResourcePart(s, flag)
             G(flag) == CASE flag = "Component" -> [xor |-> ComponentHashes(v)]
                          [] flag = "Entity"    -> [active |-> Cardinality(DOMAIN v.components),
                                                    total  |-> v.total]
                          [] flag \in Resources -> [value |-> v.resources[flag]]
  <2>1. UpdateParts(p, s) = [flag \in Flags |-> F(flag)]
    BY <1>1 DEF UpdateParts
  <2>1a. PartsOf(v) = [flag \in Flags |-> G(flag)]
    BY DEF PartsOf
  <2>2. \A flag \in Flags : UpdateParts(p, s)[flag] = PartsOf(v)[flag]
    <3> SUFFICES ASSUME NEW flag \in Flags PROVE UpdateParts(p, s)[flag] = PartsOf(v)[flag]
      OBVIOUS
    <3>1. CASE flag = "Component"
      <4>1. UpdateParts(p, s)[flag] = ComponentPart(s)
        BY <2>1, <3>1, PartsFacts, ChecksumAssumption
      <4> QED BY <1>2, <1>4a, <3>1, <4>1
    <3>2. CASE flag = "Entity"
      <4>1. UpdateParts(p, s)[flag] = EntityPart(s)
        BY <2>1, <3>2, PartsFacts, ChecksumAssumption
      <4> QED BY <1>3, <1>4a, <3>2, <4>1
    <3>3. CASE flag \in Resources
      <4>1. flag # "Component" /\ flag # "Entity"
        BY <3>3, ChecksumAssumption
      <4>2. UpdateParts(p, s)[flag] = ResourcePart(s, flag)
        BY <2>1, <3>3, <4>1
      <4>3. PartsOf(v)[flag] = [value |-> v.resources[flag]]
        BY <1>4a, <3>3
      <4>4. ResourcePart(s, flag) = [value |-> v.resources[flag]]
        BY <1>4
      <4> QED BY <4>2, <4>3, <4>4
    <3> QED BY <3>1, <3>2, <3>3 DEF Flags
  <2>3. /\ UpdateParts(p, s) = [flag \in Flags |-> UpdateParts(p, s)[flag]]
        /\ PartsOf(v) = [flag \in Flags |-> PartsOf(v)[flag]]
    <3> HIDE DEF F, G
    <3> QED BY <2>1, <2>1a
  <2> QED BY <2>2, <2>3
<1>6. DOMAIN PartsOf(v) = Flags
  BY PartsFacts
<1> QED BY <1>5, <1>6 DEF ChecksumOf, v

(***************************************************************************)
(* With at most one resource the checksum has all the parts in it.         *)
(***************************************************************************)
LEMMA ChecksumHasParts ==
    ASSUME OneResource, NEW v
    PROVE  ChecksumOf(v) = {PartsOf(v)[flag] : flag \in Flags}
<1> DEFINE p == PartsOf(v)
<1>1. ASSUME NEW x \in Flags, NEW y \in Flags, p[x] = p[y]
      PROVE  x = y
  <2> DEFINE a == ComponentHashes(v)
             b == Cardinality(DOMAIN v.components)
             t == v.total
  <2>1. /\ p["Component"] = [xor |-> a] /\ p["Entity"] = [active |-> b, total |-> t]
        /\ \A r \in Resources : p[r] = [value |-> v.resources[r]]
    BY PartsFacts
  <2> HIDE DEF p, a, b, t
  <2>2. p["Component"] # p["Entity"]
    BY <2>1
  <2>3. \A r \in Resources : p[r] # p["Component"] /\ p[r] # p["Entity"]
    <3> SUFFICES ASSUME NEW r \in Resources PROVE p[r] # p["Component"] /\ p[r] # p["Entity"]
      OBVIOUS
    <3> DEFINE z == v.resources[r]
    <3>1. p[r] = [value |-> z]
      BY <2>1
    <3> HIDE DEF z
    <3> QED BY <2>1, <3>1
  <2> QED BY <1>1, <2>2, <2>3 DEF Flags, OneResource
<1>2. DOMAIN p = Flags
  BY PartsFacts
<1> HIDE DEF p
<1>3. Xor(p) = Hashed(p)
  BY <1>1, <1>2, XorDistinct
<1> QED BY <1>2, <1>3 DEF ChecksumOf, Total, Hashed, p

(***************************************************************************)
(* Different views have different checksums, unless two resources can      *)
(* cancel out.                                                             *)
(***************************************************************************)
LEMMA ChecksumTellsApart ==
    ASSUME OneResource, NEW v \in Views, NEW w \in Views, ChecksumOf(v) = ChecksumOf(w)
    PROVE  v = w
<1> DEFINE p == PartsOf(v)
           q == PartsOf(w)
<1>1. \A flag \in Flags : \E other \in Flags : p[flag] = q[other]
  <2>1. {p[flag] : flag \in Flags} = {q[flag] : flag \in Flags}
    BY ChecksumHasParts
  <2> HIDE DEF p, q
  <2> QED BY <2>1
<1> DEFINE a == ComponentHashes(v)
           b == Cardinality(DOMAIN v.components)
           t == v.total
           c == ComponentHashes(w)
           d == Cardinality(DOMAIN w.components)
           u == w.total
<1>2. /\ p["Component"] = [xor |-> a] /\ p["Entity"] = [active |-> b, total |-> t]
      /\ q["Component"] = [xor |-> c] /\ q["Entity"] = [active |-> d, total |-> u]
      /\ \A r \in Resources : /\ p[r] = [value |-> v.resources[r]]
                              /\ q[r] = [value |-> w.resources[r]]
      /\ "Component" \in Flags /\ "Entity" \in Flags /\ Resources \subseteq Flags
  BY PartsFacts
<1> HIDE DEF p, q, a, b, t, c, d, u
<1>3. \A flag \in Flags : flag = "Component" \/ flag = "Entity" \/ flag \in Resources
  BY DEF Flags
<1>4. a = c
  <2>1. PICK flag \in Flags : [xor |-> a] = q[flag]
    BY <1>1, <1>2
  <2>2. CASE flag = "Component"
    <3>1. [xor |-> a] = [xor |-> c]
      BY <1>2, <2>1, <2>2
    <3>2. [xor |-> a].xor = [xor |-> c].xor
      BY <3>1
    <3> QED BY <3>2
  <2>3. CASE flag = "Entity"
    BY <1>2, <2>1, <2>3
  <2>4. CASE flag \in Resources
    <3> DEFINE z == w.resources[flag]
    <3>1. [xor |-> a] = [value |-> z]
      BY <1>2, <2>1, <2>4
    <3> HIDE DEF z
    <3> QED BY <3>1
  <2> QED BY <1>3, <2>2, <2>3, <2>4
<1>5. t = u
  <2>1. PICK flag \in Flags : [active |-> b, total |-> t] = q[flag]
    BY <1>1, <1>2
  <2>2. CASE flag = "Component"
    BY <1>2, <2>1, <2>2
  <2>3. CASE flag = "Entity"
    <3>1. [active |-> b, total |-> t].total = [active |-> d, total |-> u].total
      BY <1>2, <2>1, <2>3
    <3> QED BY <3>1
  <2>4. CASE flag \in Resources
    <3> DEFINE z == w.resources[flag]
    <3>1. [active |-> b, total |-> t] = [value |-> z]
      BY <1>2, <2>1, <2>4
    <3> HIDE DEF z
    <3> QED BY <3>1
  <2> QED BY <1>3, <2>2, <2>3, <2>4
<1>6. ASSUME NEW r \in Resources PROVE v.resources[r] = w.resources[r]
  <2> DEFINE x == v.resources[r]
  <2>0. p[r] = [value |-> x] /\ r \in Flags
    BY <1>2
  <2>1. PICK flag \in Flags : [value |-> x] = q[flag]
    BY <1>1, <2>0
  <2> HIDE DEF x
  <2>2. CASE flag = "Component"
    BY <1>2, <2>1, <2>2
  <2>3. CASE flag = "Entity"
    BY <1>2, <2>1, <2>3
  <2>4. CASE flag \in Resources
    <3>1. flag = r
      BY <2>4 DEF OneResource
    <3> DEFINE z == w.resources[r]
    <3>2. [value |-> x] = [value |-> z]
      BY <1>2, <2>1, <3>1
    <3>3. [value |-> x].value = [value |-> z].value
      BY <3>2
    <3> QED BY <3>3 DEF x
  <2> QED BY <1>3, <2>2, <2>3, <2>4
<1>7. v.resources = w.resources
  <2>1. v.resources \in [Resources -> AllValues] /\ w.resources \in [Resources -> AllValues]
    BY DEF Views
  <2> QED BY <1>6, <2>1
<1>8. v.components = w.components
  <2> DEFINE f == v.components
             g == w.components
  <2>1. f = [i \in DOMAIN f |-> f[i]] /\ g = [i \in DOMAIN g |-> g[i]]
    <3>1. \A h \in UNION {[places -> AllValues] : places \in SUBSET Nat} :
             h = [i \in DOMAIN h |-> h[i]]
      OBVIOUS
    <3> QED BY <3>1 DEF Views
  <2>2. {[order |-> i, component |-> f[i]] : i \in DOMAIN f}
           = {[order |-> i, component |-> g[i]] : i \in DOMAIN g}
    BY <1>4 DEF a, c, ComponentHashes
  <2> HIDE DEF f, g
  <2>3. ASSUME NEW i \in DOMAIN f PROVE i \in DOMAIN g /\ f[i] = g[i]
    <3>1. PICK j \in DOMAIN g : [order |-> i, component |-> f[i]] = [order |-> j, component |-> g[j]]
      BY <2>2
    <3>2. i = j /\ f[i] = g[j]
      <4>1. /\ [order |-> i, component |-> f[i]].order = [order |-> j, component |-> g[j]].order
            /\ [order |-> i, component |-> f[i]].component
                  = [order |-> j, component |-> g[j]].component
        BY <3>1
      <4> QED BY <4>1
    <3> QED BY <3>2
  <2>4. ASSUME NEW i \in DOMAIN g PROVE i \in DOMAIN f
    <3>1. PICK j \in DOMAIN f : [order |-> i, component |-> g[i]] = [order |-> j, component |-> f[j]]
      BY <2>2
    <3>2. [order |-> i, component |-> g[i]].order = [order |-> j, component |-> f[j]].order
      BY <3>1
    <3> QED BY <3>2
  <2>5. DOMAIN f = DOMAIN g
    BY <2>3, <2>4
  <2>6. f = g
    BY <2>1, <2>3, <2>5
  <2> QED BY <2>6 DEF f, g
<1>9. /\ v = [components |-> v.components, total |-> v.total, resources |-> v.resources]
      /\ w = [components |-> w.components, total |-> w.total, resources |-> w.resources]
  BY DEF Views
<1> QED BY <1>5, <1>7, <1>8, <1>9 DEF t, u

----------------------------------------------------------------------------
(* Lists of requests *)

(***************************************************************************)
(* Members of Requests have a type and a frame.                            *)
(***************************************************************************)
LEMMA RequestFields ==
    ASSUME NEW c \in Nat, NEW r \in Requests(c)
    PROVE  r.type \in {"Save", "Load", "Advance"} /\ r.frame \in 0 .. c
<1>1. CASE r \in [type : {"Save", "Load"}, frame : 0 .. c]
  BY <1>1
<1>2. CASE r \in [type : {"Advance"}, frame : 0 .. c, input : {"input"}]
  BY <1>2
<1> QED BY <1>1, <1>2 DEF Requests

(***************************************************************************)
(* The first request of a list, and what is left after it.                 *)
(***************************************************************************)
LEMMA PathTail ==
    ASSUME NEW c \in Nat, NEW r, Path(r, c)
    PROVE  /\ Len(r) \in Nat \ {0} /\ Len(Tail(r)) = Len(r) - 1
           /\ Tail(r) = <<>> <=> Len(r) = 1
           /\ Head(r).type \in {"Save", "Load", "Advance"} /\ Head(r).frame \in 0 .. c
           /\ Len(r) = 1 => Head(r).type = "Advance" /\ Head(r).frame = c
           /\ Len(r) = 2 => Head(r).type # "Advance" /\ Head(r).frame = c
           /\ Len(r) > 1 => Path(Tail(r), c) /\ Follows(Head(r), Head(Tail(r)))
           /\ Len(r) > 2 => Head(r).frame < c
<1> DEFINE t == Tail(r)
<1>1. /\ r \in Seq(Requests(c)) /\ r # <<>>
      /\ r[Len(r)].type = "Advance" /\ r[Len(r)].frame = c
      /\ \A i \in 1 .. (Len(r) - 1) : Follows(r[i], r[i + 1])
  BY DEF Path
<1>2. Len(r) \in Nat \ {0}
  BY <1>1, EmptySeq, LenProperties
<1>3. /\ Head(r) = r[1] /\ t \in Seq(Requests(c)) /\ Len(t) = Len(r) - 1
      /\ \A i \in 1 .. Len(t) : t[i] = r[i + 1]
  BY <1>1, <1>2, HeadTailProperties
<1>4. t = <<>> <=> Len(r) = 1
  BY <1>2, <1>3, EmptySeq, LenProperties
<1>5. \A i \in 1 .. Len(r) : r[i].type \in {"Save", "Load", "Advance"} /\ r[i].frame \in 0 .. c
  BY <1>1, ElementOfSeq, RequestFields
<1> HIDE DEF t
<1>6. ASSUME Len(r) > 1 PROVE Path(t, c) /\ Follows(Head(r), Head(t))
  <2>1. t # <<>> /\ Len(t) \in Nat \ {0} /\ Len(t) + 1 = Len(r)
    BY <1>2, <1>3, <1>4, <1>6
  <2>2. t[Len(t)] = r[Len(r)] /\ Head(t) = t[1] /\ t[1] = r[2]
    <3>1. Len(t) \in 1 .. Len(t) /\ 1 \in 1 .. Len(t)
      BY <2>1
    <3>2. Head(t) = t[1]
      BY <1>3, <2>1, HeadTailProperties
    <3> QED BY <1>3, <2>1, <3>1, <3>2
  <2>3. \A i \in 1 .. (Len(t) - 1) : Follows(t[i], t[i + 1])
    <3> SUFFICES ASSUME NEW i \in 1 .. (Len(t) - 1) PROVE Follows(t[i], t[i + 1])
      OBVIOUS
    <3>1. /\ i \in 1 .. Len(t) /\ i + 1 \in 1 .. Len(t) /\ i + 1 \in 1 .. (Len(r) - 1)
      BY <2>1
    <3>2. t[i] = r[i + 1] /\ t[i + 1] = r[(i + 1) + 1]
      BY <1>3, <3>1
    <3> QED BY <1>1, <3>1, <3>2
  <2>4. Follows(r[1], r[2])
    <3>1. 1 \in 1 .. (Len(r) - 1) /\ 1 + 1 = 2
      BY <1>2, <1>6
    <3> QED BY <1>1, <3>1
  <2> QED BY <1>1, <1>3, <2>1, <2>2, <2>3, <2>4 DEF Path
<1>7. Len(r) = 2 => Head(r).type # "Advance" /\ Head(r).frame = c
  <2> SUFFICES ASSUME Len(r) = 2 PROVE r[1].type # "Advance" /\ r[1].frame = c
    BY <1>3
  <2>1. Follows(r[1], r[2]) /\ r[2].type = "Advance" /\ r[2].frame = c
    <3>1. 1 \in 1 .. (Len(r) - 1) /\ 1 + 1 = 2
      OBVIOUS
    <3> QED BY <1>1, <3>1
  <2> QED BY <2>1 DEF Follows
<1>8. Len(r) > 2 => Head(r).frame < c
  <2> SUFFICES ASSUME Len(r) > 2 PROVE r[1].frame < c
    BY <1>3
  <2>1. 1 \in 1 .. (Len(r) - 1) /\ 2 \in 1 .. (Len(r) - 1) /\ 1 + 1 = 2 /\ 2 + 1 = 3
        /\ 1 \in 1 .. Len(r) /\ 2 \in 1 .. Len(r) /\ 3 \in 1 .. Len(r)
    BY <1>2
  <2>2. Follows(r[1], r[2]) /\ Follows(r[2], r[3])
    BY <1>1, <2>1
  <2>3. r[1].frame \in 0 .. c /\ r[2].frame \in 0 .. c /\ r[3].frame \in 0 .. c
    BY <1>5, <2>1
  <2>4. CASE r[1].type = "Advance"
    <3>1. r[2].frame = r[1].frame + 1
      BY <2>2, <2>4 DEF Follows
    <3> QED BY <2>3, <3>1
  <2>5. CASE r[1].type # "Advance"
    <3>1. r[2].frame = r[1].frame /\ r[2].type = "Advance"
      BY <2>2, <2>5 DEF Follows
    <3>2. r[3].frame = r[2].frame + 1
      BY <2>2, <3>1 DEF Follows
    <3> QED BY <2>3, <3>1, <3>2
  <2> QED BY <2>4, <2>5
<1>9. Head(r).type \in {"Save", "Load", "Advance"} /\ Head(r).frame \in 0 .. c
  BY <1>2, <1>3, <1>5
<1>10. Len(r) = 1 => Head(r).type = "Advance" /\ Head(r).frame = c
  BY <1>1, <1>3
<1> QED BY <1>2, <1>3, <1>4, <1>6, <1>7, <1>8, <1>9, <1>10 DEF t

(***************************************************************************)
(* A step without a rollback.                                              *)
(***************************************************************************)
LEMMA PlainStep ==
    ASSUME NEW c \in Nat, c < MaxFrame, MaxFrame \in Nat
    PROVE  LET s == SyncTestRequests(c, NullFrame, NoInputs)
           IN  Path(s, c) /\ Len(s) = 2 /\ Head(s) = SaveGameState(c)
<1> DEFINE a == SaveGameState(c)
           b == AdvanceFrame(c, "input")
           s == SyncTestRequests(c, NullFrame, NoInputs)
<1>1. NoInputs[c + 1] = "input"
  BY DEF NoInputs
<1>2. /\ a \in Requests(c) /\ a.type = "Save" /\ a.frame = c
      /\ b \in Requests(c) /\ b.type = "Advance" /\ b.frame = c
  BY DEF SaveGameState, AdvanceFrame, Requests
<1>3. s = <<a>> \o <<b>>
  BY <1>1 DEF SyncTestRequests, CorrectAndSave, Proceed
<1> HIDE DEF a, b, s
<1>4. /\ <<a>> \in Seq(Requests(c)) /\ Len(<<a>>) = 1 /\ <<a>>[1] = a
      /\ <<b>> \in Seq(Requests(c)) /\ Len(<<b>>) = 1 /\ <<b>>[1] = b
  BY <1>2
<1>5. s \in Seq(Requests(c)) /\ Len(s) = 2 /\ s[1] = a /\ s[2] = b /\ s # <<>> /\ Head(s) = a
  <2>1. /\ s \in Seq(Requests(c)) /\ Len(s) = Len(<<a>>) + Len(<<b>>)
        /\ \A i \in 1 .. Len(<<a>>) + Len(<<b>>) :
              s[i] = IF i <= Len(<<a>>) THEN <<a>>[i] ELSE <<b>>[i - Len(<<a>>)]
    BY <1>3, <1>4, ConcatProperties
  <2>2. Len(s) = 2 /\ s[1] = a /\ s[2] = b
    BY <1>4, <2>1
  <2>3. s # <<>>
    BY <2>2, EmptySeq
  <2> QED BY <2>1, <2>2, <2>3, HeadTailProperties
<1>6. \A i \in 1 .. (Len(s) - 1) : i = 1
  BY <1>5
<1>7. Follows(s[1], s[1 + 1])
  BY <1>2, <1>5 DEF Follows
<1>8. Path(s, c)
  BY <1>2, <1>5, <1>6, <1>7 DEF Path
<1> QED BY <1>5, <1>8 DEF s, a

(***************************************************************************)
(* The resimulation from frame f to frame c.                               *)
(***************************************************************************)
LEMMA ResimulationFacts ==
    ASSUME NEW c \in Nat, NEW f \in Nat, f < c, c < MaxFrame, MaxFrame \in Nat
    PROVE  LET s == Resimulation(f, c, NoInputs)
               n == 2 * (c - f)
           IN  /\ s \in Seq(Requests(c)) /\ Len(s) = n
               /\ \A i \in 1 .. n :
                     /\ i % 2 = 1 => s[i].type = "Advance"
                     /\ i % 2 # 1 => s[i].type = "Save"
                     /\ s[i].frame = f + (i \div 2)
<1> DEFINE s == Resimulation(f, c, NoInputs)
           n == 2 * (c - f)
           at(i) == f + (i \div 2)
<1>1. n \in Nat
  OBVIOUS
<1>2. \A i \in 1 .. n : at(i) \in 0 .. c
  OBVIOUS
<1>3. \A i \in 1 .. n : s[i] = IF i % 2 = 1 THEN AdvanceFrame(at(i), NoInputs[at(i) + 1])
                                            ELSE SaveGameState(at(i))
  BY DEF Resimulation
<1>4. ASSUME NEW i \in 1 .. n
      PROVE  /\ s[i] \in Requests(c)
             /\ i % 2 = 1 => s[i].type = "Advance"
             /\ i % 2 # 1 => s[i].type = "Save"
             /\ s[i].frame = at(i)
  <2> DEFINE k == at(i)
  <2>1. k \in 0 .. c
    BY <1>2
  <2>2. NoInputs[k + 1] = "input"
    <3>1. k + 1 \in 1 .. (MaxFrame + 1)
      BY <2>1
    <3> QED BY <3>1 DEF NoInputs
  <2> HIDE DEF k
  <2>3. CASE i % 2 = 1
    <3>1. s[i] = AdvanceFrame(k, "input")
      BY <1>3, <2>2, <2>3 DEF k
    <3> HIDE DEF s
    <3>2. s[i] \in Requests(c) /\ s[i].type = "Advance" /\ s[i].frame = k
      BY <2>1, <3>1 DEF AdvanceFrame, Requests
    <3> QED BY <2>3, <3>2 DEF k
  <2>4. CASE i % 2 # 1
    <3>1. s[i] = SaveGameState(k)
      BY <1>3, <2>4 DEF k
    <3> HIDE DEF s
    <3>2. s[i] \in Requests(c) /\ s[i].type = "Save" /\ s[i].frame = k
      BY <2>1, <3>1 DEF SaveGameState, Requests
    <3> QED BY <2>4, <3>2 DEF k
  <2> QED BY <2>3, <2>4
<1>5. s = [i \in 1 .. n |-> s[i]]
  BY DEF Resimulation
<1>6. s \in Seq(Requests(c)) /\ Len(s) = n
  <2>1. s \in [1 .. n -> Requests(c)]
    BY <1>4, <1>5
  <2> HIDE DEF s, n
  <2> QED BY <1>1, <2>1
<1> QED BY <1>4, <1>6

(***************************************************************************)
(* A step that rolls back to frame f.                                      *)
(***************************************************************************)
LEMMA RollbackStep ==
    ASSUME NEW c \in Nat, NEW f \in Nat, f < c, c < MaxFrame, MaxFrame \in Nat
    PROVE  LET s == SyncTestRequests(c, f, NoInputs)
           IN  Path(s, c) /\ Len(s) > 2 /\ Head(s) = LoadGameState(f)
<1> DEFINE a == LoadGameState(f)
           b == AdvanceFrame(c, "input")
           m == Resimulation(f, c, NoInputs)
           n == 2 * (c - f)
           s == SyncTestRequests(c, f, NoInputs)
<1>1. NoInputs[c + 1] = "input" /\ f # NullFrame
  BY DEF NoInputs, NullFrame
<1>2. /\ a \in Requests(c) /\ a.type = "Load" /\ a.frame = f
      /\ b \in Requests(c) /\ b.type = "Advance" /\ b.frame = c
  BY DEF LoadGameState, AdvanceFrame, Requests
<1>3. s = (<<a>> \o m) \o <<b>>
  BY <1>1 DEF SyncTestRequests, CorrectAndSave, Proceed
<1>4. /\ m \in Seq(Requests(c)) /\ Len(m) = n
      /\ \A i \in 1 .. n : /\ i % 2 = 1 => m[i].type = "Advance"
                           /\ i % 2 # 1 => m[i].type = "Save"
                           /\ m[i].frame = f + (i \div 2)
  BY ResimulationFacts
<1>5. n \in Nat /\ n >= 2 /\ n % 2 = 0 /\ n \div 2 = c - f
  OBVIOUS
<1> HIDE DEF a, b, m, n, s
<1>6. /\ <<a>> \in Seq(Requests(c)) /\ Len(<<a>>) = 1 /\ <<a>>[1] = a
      /\ <<b>> \in Seq(Requests(c)) /\ Len(<<b>>) = 1 /\ <<b>>[1] = b
  BY <1>2
<1> DEFINE u == <<a>> \o m
<1>7. /\ u \in Seq(Requests(c)) /\ Len(u) = n + 1
      /\ u[1] = a /\ \A i \in 2 .. (n + 1) : u[i] = m[i - 1]
  <2>1. /\ u \in Seq(Requests(c)) /\ Len(u) = Len(<<a>>) + Len(m)
        /\ \A i \in 1 .. Len(<<a>>) + Len(m) :
              u[i] = IF i <= Len(<<a>>) THEN <<a>>[i] ELSE m[i - Len(<<a>>)]
    BY <1>4, <1>6, ConcatProperties
  <2> HIDE DEF u
  <2>2. \A i \in 1 .. (n + 1) : u[i] = IF i <= 1 THEN <<a>>[i] ELSE m[i - 1]
    BY <1>4, <1>5, <1>6, <2>1
  <2> QED BY <1>4, <1>5, <1>6, <2>1, <2>2
<1> HIDE DEF u
<1>8. /\ s \in Seq(Requests(c)) /\ Len(s) = n + 2
      /\ s[1] = a /\ (\A i \in 2 .. (n + 1) : s[i] = m[i - 1]) /\ s[n + 2] = b
  <2>1. /\ s \in Seq(Requests(c)) /\ Len(s) = Len(u) + Len(<<b>>)
        /\ \A i \in 1 .. Len(u) + Len(<<b>>) :
              s[i] = IF i <= Len(u) THEN u[i] ELSE <<b>>[i - Len(u)]
    BY <1>3, <1>6, <1>7, ConcatProperties DEF u
  <2>2. \A i \in 1 .. (n + 2) : s[i] = IF i <= n + 1 THEN u[i] ELSE <<b>>[i - (n + 1)]
    BY <1>5, <1>6, <1>7, <2>1
  <2>3. (n + 2) - (n + 1) = 1 /\ n + 2 \in 1 .. (n + 2) /\ ~ (n + 2 <= n + 1)
    BY <1>5
  <2>4. s[n + 2] = b
    BY <1>6, <2>2, <2>3
  <2>5. s[1] = a
    BY <1>5, <1>7, <2>2
  <2>6. \A i \in 2 .. (n + 1) : s[i] = m[i - 1]
    BY <1>5, <1>7, <2>2
  <2>7. Len(s) = n + 2
    BY <1>5, <1>6, <1>7, <2>1
  <2> QED BY <2>1, <2>4, <2>5, <2>6, <2>7
<1>9. ASSUME NEW i \in 1 .. (n + 1) PROVE Follows(s[i], s[i + 1])
  <2>1. CASE i = 1
    <3>1. 2 \in 2 .. (n + 1) /\ 2 - 1 = 1 /\ 1 \in 1 .. n /\ 1 % 2 = 1 /\ f + (1 \div 2) = f
      BY <1>5
    <3>2. s[2] = m[1] /\ m[1].type = "Advance" /\ m[1].frame = f
      BY <1>4, <1>8, <3>1
    <3> QED BY <1>2, <1>8, <2>1, <3>2 DEF Follows
  <2>2. CASE i = n + 1
    <3>1. n + 1 \in 2 .. (n + 1) /\ (n + 1) - 1 = n /\ n \in 1 .. n /\ n % 2 # 1
          /\ f + (n \div 2) = c /\ (n + 1) + 1 = n + 2
      BY <1>5
    <3>2. s[i] = m[n] /\ m[n].type = "Save" /\ m[n].frame = c
      BY <1>4, <1>8, <2>2, <3>1
    <3> QED BY <1>2, <1>8, <2>2, <3>1, <3>2 DEF Follows
  <2>3. CASE i # 1 /\ i # n + 1
    <3> DEFINE j == i - 1
    <3>1. /\ i \in 2 .. (n + 1) /\ i + 1 \in 2 .. (n + 1) /\ (i + 1) - 1 = j + 1
          /\ j \in 1 .. n /\ j + 1 \in 1 .. n
      BY <1>5, <2>3
    <3>2. s[i] = m[j] /\ s[i + 1] = m[j + 1]
      BY <1>8, <3>1
    <3> HIDE DEF j
    <3>3. CASE j % 2 = 1
      <4>1. (j + 1) % 2 # 1 /\ (j + 1) \div 2 = (j \div 2) + 1
        BY <3>1, <3>3
      <4>2. /\ m[j].type = "Advance" /\ m[j].frame = f + (j \div 2)
            /\ m[j + 1].type = "Save" /\ m[j + 1].frame = f + ((j + 1) \div 2)
        BY <1>4, <3>1, <3>3, <4>1
      <4>3. m[j + 1].frame = m[j].frame + 1
        BY <3>1, <4>1, <4>2
      <4> QED BY <3>2, <4>2, <4>3 DEF Follows
    <3>4. CASE j % 2 # 1
      <4>1. (j + 1) % 2 = 1 /\ (j + 1) \div 2 = j \div 2
        BY <3>1, <3>4
      <4>2. /\ m[j].type = "Save" /\ m[j].frame = f + (j \div 2)
            /\ m[j + 1].type = "Advance" /\ m[j + 1].frame = f + ((j + 1) \div 2)
        BY <1>4, <3>1, <3>4, <4>1
      <4> QED BY <3>2, <4>1, <4>2 DEF Follows
    <3> QED BY <3>3, <3>4
  <2> QED BY <2>1, <2>2, <2>3
<1>10. Len(s) > 2 /\ s # <<>> /\ Len(s) - 1 = n + 1 /\ Head(s) = a
  <2>1. Len(s) > 2 /\ Len(s) - 1 = n + 1
    BY <1>5, <1>8
  <2>2. s # <<>>
    BY <2>1, EmptySeq
  <2> QED BY <1>8, <2>1, <2>2, HeadTailProperties
<1>11. Path(s, c)
  BY <1>2, <1>8, <1>9, <1>10 DEF Path
<1> QED BY <1>10, <1>11 DEF s, a

----------------------------------------------------------------------------
(* What the game does to a state *)

(***************************************************************************)
(* The fields of an operation.                                             *)
(***************************************************************************)
LEMMA OpFields ==
    ASSUME NEW op \in Ops
    PROVE  /\ op.op \in {"quiet", "spawn", "change", "despawn", "set"}
           /\ op.op \in {"spawn", "change", "set"} => op.value \in Values
           /\ op.op = "set" => op.resource \in Resources
<1>1. CASE op = Quiet
  BY <1>1 DEF Quiet
<1>2. CASE op \in [op : {"spawn"}, value : Values]
  BY <1>2
<1>3. CASE op \in [op : {"change"}, place : Places, value : Values]
  BY <1>3
<1>4. CASE op \in [op : {"despawn"}, place : Places]
  BY <1>4
<1>5. CASE op \in [op : {"set"}, resource : Resources, value : Values]
  BY <1>5
<1> QED BY <1>1, <1>2, <1>3, <1>4, <1>5 DEF Ops

(***************************************************************************)
(* How a view is recognised.                                               *)
(***************************************************************************)
LEMMA ViewIs ==
    ASSUME NEW n \in Nat \ {0}, NEW s \in States(n), NEW c, c = [i \in DOMAIN c |-> c[i]],
           \A i : i \in DOMAIN c <=> Active(s, i),
           \A i \in DOMAIN c : c[i] = s.components[s.ordered[i]]
    PROVE  View(s) = [components |-> c, total |-> Len(s.ordered), resources |-> s.resources]
<1> DEFINE d == View(s).components
<1>1. /\ View(s) = [components |-> d, total |-> View(s).total, resources |-> View(s).resources]
      /\ View(s).total = Len(s.ordered) /\ View(s).resources = s.resources
      /\ \A i : i \in DOMAIN d <=> Active(s, i)
      /\ \A i : Active(s, i) => d[i] = s.components[s.ordered[i]]
  BY ViewFacts
<1>2. d = [i \in DOMAIN d |-> d[i]]
  BY DEF View
<1> HIDE DEF d
<1>3. DOMAIN c = DOMAIN d
  BY <1>1
<1>4. \A i \in DOMAIN d : c[i] = d[i]
  BY <1>1, <1>3
<1>5. c = d
  BY <1>2, <1>3, <1>4
<1> QED BY <1>1, <1>5

(***************************************************************************)
(* States and views that are changed in two of their fields.               *)
(***************************************************************************)
LEMMA StateExcept ==
    ASSUME NEW s, NEW n, NEW x,
           s = [ordered |-> s.ordered, components |-> s.components, resources |-> s.resources]
    PROVE  [s EXCEPT !.ordered = Append(@, n), !.components = With(@, n, x)]
              = [ordered |-> Append(s.ordered, n), components |-> With(s.components, n, x),
                 resources |-> s.resources]
<1> DEFINE p == Append(s.ordered, n)
           d == With(s.components, n, x)
<1>1. DOMAIN s = {"ordered", "components", "resources"}
  OBVIOUS
<1>2. [s EXCEPT !.ordered = p, !.components = d]
         = [f \in DOMAIN s |-> IF f = "components" THEN d ELSE IF f = "ordered" THEN p ELSE s[f]]
  <2> HIDE DEF p, d
  <2> QED OBVIOUS
<1>3. [s EXCEPT !.ordered = p, !.components = d]
         = [ordered |-> p, components |-> d, resources |-> s.resources]
  <2> HIDE DEF p, d
  <2> QED BY <1>1, <1>2
<1> QED BY <1>3

LEMMA ViewExcept ==
    ASSUME NEW v, NEW i, NEW x,
           v = [components |-> v.components, total |-> v.total, resources |-> v.resources]
    PROVE  [v EXCEPT !.total = @ + 1, !.components = With(@, i, x)]
              = [components |-> With(v.components, i, x), total |-> v.total + 1,
                 resources |-> v.resources]
<1> DEFINE u == v.total + 1
           d == With(v.components, i, x)
<1>1. DOMAIN v = {"components", "total", "resources"}
  OBVIOUS
<1>2. [v EXCEPT !.total = u, !.components = d]
         = [f \in DOMAIN v |-> IF f = "components" THEN d ELSE IF f = "total" THEN u ELSE v[f]]
  <2> HIDE DEF u, d
  <2> QED OBVIOUS
<1>3. [v EXCEPT !.total = u, !.components = d]
         = [components |-> d, total |-> u, resources |-> v.resources]
  <2> HIDE DEF u, d
  <2> QED BY <1>1, <1>2
<1> QED BY <1>3

(***************************************************************************)
(* A spawn: the next Entity, at the next place.                            *)
(***************************************************************************)
LEMMA SpawnFacts ==
    ASSUME NEW n \in Nat \ {0}, NEW s \in States(n), NEW x \in AllValues
    PROVE  LET t == [s EXCEPT !.ordered = Append(@, n), !.components = With(@, n, x)]
               v == View(s)
           IN  /\ t \in States(n + 1) /\ Len(t.ordered) = Len(s.ordered) + 1
               /\ View(t) = [v EXCEPT !.total = @ + 1, !.components = With(@, v.total + 1, x)]
<1> DEFINE o == s.ordered
           c == s.components
           r == s.resources
           p == Append(o, n)
           d == With(c, n, x)
           t == [ordered |-> p, components |-> d, resources |-> r]
<1>1. /\ s = [ordered |-> o, components |-> c, resources |-> r]
      /\ o \in Seq(1 .. (n - 1)) /\ Len(o) \in Nat /\ DOMAIN o = 1 .. Len(o)
      /\ c \in [DOMAIN c -> AllValues] /\ DOMAIN c \subseteq 1 .. (n - 1)
      /\ r \in [Resources -> AllValues]
      /\ \A i, j \in 1 .. Len(o) : o[i] = o[j] => i = j
      /\ \A id \in DOMAIN c : \E i \in 1 .. Len(o) : o[i] = id
  BY StateFacts
<1>2. [s EXCEPT !.ordered = Append(@, n), !.components = With(@, n, x)] = t
  BY <1>1, StateExcept
<1>3. \A i \in 1 .. Len(o) : o[i] \in 1 .. (n - 1)
  <2> HIDE DEF o
  <2> QED BY <1>1, ElementOfSeq
<1>4. /\ p \in Seq(1 .. n) /\ Len(p) = Len(o) + 1
      /\ (\A i \in 1 .. Len(o) : p[i] = o[i]) /\ p[Len(o) + 1] = n
  <2> HIDE DEF o
  <2>1. o \in Seq(1 .. n)
    <3>1. \A i \in 1 .. Len(o) : o[i] \in 1 .. n
      BY <1>3
    <3> QED BY <1>1, <3>1, SeqDef
  <2> QED BY <1>1, <2>1, AppendProperties
<1> HIDE DEF p, o
<1>5. /\ DOMAIN d = DOMAIN c \union {n} /\ d \in [DOMAIN d -> AllValues]
      /\ d[n] = x /\ \A id \in DOMAIN c : d[id] = c[id]
  BY <1>1 DEF With
<1> HIDE DEF d, c, r
<1>6. \A i, j \in 1 .. Len(p) : p[i] = p[j] => i = j
  <2> SUFFICES ASSUME NEW i \in 1 .. Len(p), NEW j \in 1 .. Len(p), p[i] = p[j] PROVE i = j
    OBVIOUS
  <2>1. \A k \in 1 .. Len(p) : k \in 1 .. Len(o) \/ k = Len(o) + 1
    BY <1>1, <1>4
  <2>2. CASE i \in 1 .. Len(o) /\ j \in 1 .. Len(o)
    BY <1>1, <1>4, <2>2
  <2>3. CASE i = Len(o) + 1 /\ j = Len(o) + 1
    BY <2>3
  <2>4. CASE i \in 1 .. Len(o) /\ j = Len(o) + 1
    <3>1. o[i] = n
      BY <1>4, <2>4
    <3> QED BY <1>3, <2>4, <3>1
  <2>5. CASE j \in 1 .. Len(o) /\ i = Len(o) + 1
    <3>1. o[j] = n
      BY <1>4, <2>5
    <3> QED BY <1>3, <2>5, <3>1
  <2> QED BY <2>1, <2>2, <2>3, <2>4, <2>5
<1>7. \A id \in DOMAIN d : \E i \in 1 .. Len(p) : p[i] = id
  <2> SUFFICES ASSUME NEW id \in DOMAIN d PROVE \E i \in 1 .. Len(p) : p[i] = id
    OBVIOUS
  <2>1. CASE id = n
    <3>1. Len(o) + 1 \in 1 .. Len(p)
      BY <1>1, <1>4
    <3> QED BY <1>4, <2>1, <3>1
  <2>2. CASE id # n
    <3>1. PICK i \in 1 .. Len(o) : o[i] = id
      BY <1>1, <1>5, <2>2
    <3>2. i \in 1 .. Len(p)
      BY <1>1, <1>4
    <3> QED BY <1>4, <3>1, <3>2
  <2> QED BY <2>1, <2>2
<1>8. DOMAIN d \subseteq 1 .. ((n + 1) - 1) /\ p \in Seq(1 .. ((n + 1) - 1)) /\ n + 1 \in Nat \ {0}
  <2>1. (n + 1) - 1 = n /\ n + 1 \in Nat \ {0} /\ 1 .. (n - 1) \subseteq 1 .. n /\ n \in 1 .. n
    OBVIOUS
  <2> QED BY <1>1, <1>4, <1>5, <2>1
<1>9. t \in States(n + 1)
  BY <1>1, <1>5, <1>6, <1>7, <1>8, StateIntro
<1> DEFINE v == View(s)
           vc == v.components
           g == With(vc, v.total + 1, x)
<1>10. /\ v = [components |-> vc, total |-> v.total, resources |-> v.resources]
       /\ v.total = Len(o) /\ v.resources = r
       /\ \A i : i \in DOMAIN vc <=> Active(s, i)
       /\ \A i : Active(s, i) => i \in 1 .. Len(o) /\ o[i] \in DOMAIN c /\ vc[i] = c[o[i]]
  BY ViewFacts DEF o, c, r
<1>11. \A i : Active(s, i) <=> i \in 1 .. Len(o) /\ o[i] \in DOMAIN c
  BY <1>1 DEF Active, o, c
<1>12. \A i : Active(t, i) <=> i \in 1 .. Len(p) /\ p[i] \in DOMAIN d
  <2>1. t.ordered = p /\ t.components = d
    OBVIOUS
  <2>2. DOMAIN p = 1 .. Len(p)
    BY <1>4, LenProperties
  <2> HIDE DEF t
  <2> QED BY <2>1, <2>2 DEF Active
<1> HIDE DEF v, vc
<1>13. g = [i \in DOMAIN g |-> g[i]] /\ DOMAIN g = DOMAIN vc \union {Len(o) + 1}
       /\ g[Len(o) + 1] = x /\ \A i \in DOMAIN vc : i # Len(o) + 1 => g[i] = vc[i]
  BY <1>10 DEF With
<1> HIDE DEF g
<1>14. \A i : i \in DOMAIN g <=> Active(t, i)
  <2> SUFFICES ASSUME NEW i PROVE i \in DOMAIN g <=> i \in 1 .. Len(p) /\ p[i] \in DOMAIN d
    BY <1>12
  <2>1. CASE i = Len(o) + 1
    <3>1. i \in 1 .. Len(p) /\ p[i] = n
      BY <1>1, <1>4, <2>1
    <3> QED BY <1>5, <1>13, <2>1, <3>1
  <2>2. CASE i \in 1 .. Len(o)
    <3>1. i \in 1 .. Len(p) /\ i # Len(o) + 1 /\ p[i] = o[i] /\ o[i] # n
      BY <1>1, <1>3, <1>4, <2>2
    <3>2. i \in DOMAIN g <=> o[i] \in DOMAIN c
      BY <1>10, <1>11, <1>13, <2>2, <3>1
    <3> QED BY <1>5, <3>1, <3>2
  <2>3. CASE i # Len(o) + 1 /\ i \notin 1 .. Len(o)
    <3>1. i \notin DOMAIN g
      BY <1>10, <1>11, <1>13, <2>3
    <3>2. i \notin 1 .. Len(p)
      BY <1>1, <1>4, <2>3
    <3> QED BY <3>1, <3>2
  <2> QED BY <2>1, <2>2, <2>3
<1>15. \A i \in DOMAIN g : g[i] = d[p[i]]
  <2> SUFFICES ASSUME NEW i \in DOMAIN g PROVE g[i] = d[p[i]]
    OBVIOUS
  <2>1. CASE i = Len(o) + 1
    BY <1>4, <1>5, <1>13, <2>1
  <2>2. CASE i # Len(o) + 1
    <3>1. i \in DOMAIN vc /\ g[i] = vc[i]
      BY <1>13, <2>2
    <3>2. i \in 1 .. Len(o) /\ o[i] \in DOMAIN c /\ vc[i] = c[o[i]]
      BY <1>10, <3>1
    <3> QED BY <1>4, <1>5, <3>1, <3>2
  <2> QED BY <2>1, <2>2
<1>16. View(t) = [components |-> g, total |-> Len(p), resources |-> r]
  <2>1. t.ordered = p /\ t.components = d /\ t.resources = r
    OBVIOUS
  <2> HIDE DEF t
  <2> QED BY <1>8, <1>9, <1>13, <1>14, <1>15, <2>1, ViewIs
<1>17. [v EXCEPT !.total = @ + 1, !.components = With(@, v.total + 1, x)]
          = [components |-> g, total |-> Len(o) + 1, resources |-> r]
  <2>1. [v EXCEPT !.total = @ + 1, !.components = With(@, v.total + 1, x)]
           = [components |-> g, total |-> v.total + 1, resources |-> v.resources]
    <3> DEFINE i == v.total + 1
    <3>1. [v EXCEPT !.total = @ + 1, !.components = With(@, i, x)]
             = [components |-> With(v.components, i, x), total |-> v.total + 1,
                resources |-> v.resources]
      <4>1. v = [components |-> v.components, total |-> v.total, resources |-> v.resources]
        BY <1>10 DEF vc
      <4> HIDE DEF i
      <4> QED BY <4>1, ViewExcept, ZenonT(30)
    <3>2. g = With(v.components, i, x)
      BY DEF g, vc
    <3> HIDE DEF i
    <3>3. [v EXCEPT !.total = @ + 1, !.components = With(@, i, x)]
             = [components |-> g, total |-> v.total + 1, resources |-> v.resources]
      BY <3>1, <3>2
    <3> QED BY <3>3 DEF i
  <2> QED BY <1>10, <2>1
<1>18. t.ordered = p
  OBVIOUS
<1> HIDE DEF t
<1> QED BY <1>2, <1>4, <1>9, <1>16, <1>17, <1>18 DEF v, o

(***************************************************************************)
(* A change of the component at an active place.                           *)
(***************************************************************************)
LEMMA ChangeFacts ==
    ASSUME NEW n \in Nat \ {0}, NEW s \in States(n), NEW k, Active(s, k), NEW x \in AllValues
    PROVE  LET t == [s EXCEPT !.components[s.ordered[k]] = x]
           IN  /\ t \in States(n) /\ t.ordered = s.ordered
               /\ View(t) = [View(s) EXCEPT !.components[k] = x]
<1> DEFINE o == s.ordered
           c == s.components
           r == s.resources
           d == [c EXCEPT ![o[k]] = x]
           t == [ordered |-> o, components |-> d, resources |-> r]
<1>1. /\ s = [ordered |-> o, components |-> c, resources |-> r]
      /\ o \in Seq(1 .. (n - 1)) /\ Len(o) \in Nat /\ DOMAIN o = 1 .. Len(o)
      /\ c \in [DOMAIN c -> AllValues] /\ DOMAIN c \subseteq 1 .. (n - 1)
      /\ r \in [Resources -> AllValues]
      /\ \A i, j \in 1 .. Len(o) : o[i] = o[j] => i = j
      /\ \A id \in DOMAIN c : \E i \in 1 .. Len(o) : o[i] = id
  BY StateFacts
<1>2. [s EXCEPT !.components[s.ordered[k]] = x] = t
  <2>1. [s EXCEPT !.components[o[k]] = x] = [s EXCEPT !.components = d]
    BY <1>1
  <2> HIDE DEF d, o, c, r
  <2>2. [s EXCEPT !.components = d] = t
    BY <1>1
  <2> QED BY <2>1, <2>2 DEF o
<1>3. /\ DOMAIN d = DOMAIN c /\ d \in [DOMAIN d -> AllValues]
      /\ \A id \in DOMAIN c : d[id] = IF id = o[k] THEN x ELSE c[id]
  BY <1>1
<1>4. k \in 1 .. Len(o) /\ o[k] \in DOMAIN c
  BY <1>1 DEF Active
<1> HIDE DEF o, c, r, d
<1>5. t \in States(n)
  BY <1>1, <1>3, StateIntro
<1> DEFINE v == View(s)
           vc == v.components
           g == [vc EXCEPT ![k] = x]
<1>6. /\ v = [components |-> vc, total |-> v.total, resources |-> v.resources]
      /\ v.total = Len(o) /\ v.resources = r
      /\ \A i : i \in DOMAIN vc <=> Active(s, i)
      /\ \A i : Active(s, i) => i \in 1 .. Len(o) /\ o[i] \in DOMAIN c /\ vc[i] = c[o[i]]
  BY ViewFacts DEF o, c, r
<1>7. t.ordered = o /\ t.components = d /\ t.resources = r
  OBVIOUS
<1> HIDE DEF t, v, vc
<1>8. \A i : Active(t, i) <=> Active(s, i)
  BY <1>3, <1>7 DEF Active, o, c
<1>9. /\ g = [i \in DOMAIN g |-> g[i]] /\ DOMAIN g = DOMAIN vc
      /\ \A i \in DOMAIN vc : g[i] = IF i = k THEN x ELSE vc[i]
  OBVIOUS
<1>10. [v EXCEPT !.components[k] = x] = [components |-> g, total |-> Len(o), resources |-> r]
  <2>1. [v EXCEPT !.components[k] = x] = [v EXCEPT !.components = g]
    BY <1>6 DEF vc
  <2> HIDE DEF g
  <2> QED BY <1>6, <2>1
<1> HIDE DEF g
<1>11. \A i \in DOMAIN g : g[i] = d[o[i]]
  <2> SUFFICES ASSUME NEW i \in DOMAIN g PROVE g[i] = d[o[i]]
    OBVIOUS
  <2>1. i \in 1 .. Len(o) /\ o[i] \in DOMAIN c /\ vc[i] = c[o[i]]
    BY <1>6, <1>9
  <2>2. i = k <=> o[i] = o[k]
    BY <1>1, <1>4, <2>1
  <2> QED BY <1>3, <1>9, <2>1, <2>2
<1>12. View(t) = [components |-> g, total |-> Len(o), resources |-> r]
  <2>1. \A i : i \in DOMAIN g <=> Active(t, i)
    BY <1>6, <1>8, <1>9
  <2> QED BY <1>5, <1>7, <1>9, <1>11, <2>1, ViewIs
<1> QED BY <1>2, <1>5, <1>7, <1>10, <1>12 DEF v, o

(***************************************************************************)
(* A despawn: the place stays, and is no longer active.                    *)
(***************************************************************************)
LEMMA DespawnFacts ==
    ASSUME NEW n \in Nat \ {0}, NEW s \in States(n), NEW k, Active(s, k)
    PROVE  LET t == [s EXCEPT !.components = [id \in DOMAIN @ \ {s.ordered[k]} |-> @[id]]]
               v == View(s)
           IN  /\ t \in States(n) /\ t.ordered = s.ordered
               /\ View(t) = [v EXCEPT !.components = [i \in DOMAIN @ \ {k} |-> @[i]]]
<1> DEFINE o == s.ordered
           c == s.components
           r == s.resources
           d == [id \in DOMAIN c \ {o[k]} |-> c[id]]
           t == [ordered |-> o, components |-> d, resources |-> r]
<1>1. /\ s = [ordered |-> o, components |-> c, resources |-> r]
      /\ o \in Seq(1 .. (n - 1)) /\ Len(o) \in Nat /\ DOMAIN o = 1 .. Len(o)
      /\ c \in [DOMAIN c -> AllValues] /\ DOMAIN c \subseteq 1 .. (n - 1)
      /\ r \in [Resources -> AllValues]
      /\ \A i, j \in 1 .. Len(o) : o[i] = o[j] => i = j
      /\ \A id \in DOMAIN c : \E i \in 1 .. Len(o) : o[i] = id
  BY StateFacts
<1>2. [s EXCEPT !.components = [id \in DOMAIN @ \ {s.ordered[k]} |-> @[id]]] = t
  <2>1. [s EXCEPT !.components = [id \in DOMAIN @ \ {s.ordered[k]} |-> @[id]]]
           = [s EXCEPT !.components = d]
    OBVIOUS
  <2> HIDE DEF d, o, c, r
  <2>2. [s EXCEPT !.components = d] = t
    BY <1>1
  <2> QED BY <2>1, <2>2
<1>3. /\ DOMAIN d = DOMAIN c \ {o[k]} /\ d \in [DOMAIN d -> AllValues]
      /\ \A id \in DOMAIN d : d[id] = c[id]
  BY <1>1
<1>4. k \in 1 .. Len(o) /\ o[k] \in DOMAIN c
  BY <1>1 DEF Active
<1> HIDE DEF o, c, r, d
<1>5. t \in States(n)
  BY <1>1, <1>3, StateIntro
<1> DEFINE v == View(s)
           vc == v.components
           g == [i \in DOMAIN vc \ {k} |-> vc[i]]
<1>6. /\ v = [components |-> vc, total |-> v.total, resources |-> v.resources]
      /\ v.total = Len(o) /\ v.resources = r
      /\ \A i : i \in DOMAIN vc <=> Active(s, i)
      /\ \A i : Active(s, i) => i \in 1 .. Len(o) /\ o[i] \in DOMAIN c /\ vc[i] = c[o[i]]
  BY ViewFacts DEF o, c, r
<1>7. t.ordered = o /\ t.components = d /\ t.resources = r
  OBVIOUS
<1>8. [v EXCEPT !.components = [i \in DOMAIN @ \ {k} |-> @[i]]]
         = [components |-> g, total |-> Len(o), resources |-> r]
  <2>1. [v EXCEPT !.components = [i \in DOMAIN @ \ {k} |-> @[i]]] = [v EXCEPT !.components = g]
    OBVIOUS
  <2> HIDE DEF g, v, vc
  <2> QED BY <1>6, <2>1
<1> HIDE DEF t, v, vc
<1>9. /\ g = [i \in DOMAIN g |-> g[i]] /\ DOMAIN g = DOMAIN vc \ {k}
      /\ \A i \in DOMAIN g : g[i] = vc[i]
  OBVIOUS
<1> HIDE DEF g
<1>10. \A i : i \in DOMAIN g <=> Active(t, i)
  <2> SUFFICES ASSUME NEW i PROVE i \in DOMAIN g <=> Active(t, i)
    OBVIOUS
  <2>1. Active(s, i) <=> i \in 1 .. Len(o) /\ o[i] \in DOMAIN c
    BY <1>1 DEF Active, o, c
  <2>2. Active(t, i) <=> i \in 1 .. Len(o) /\ o[i] \in DOMAIN c /\ o[i] # o[k]
    BY <1>1, <1>3, <1>7 DEF Active
  <2>3. i \in 1 .. Len(o) => (o[i] = o[k] <=> i = k)
    BY <1>1, <1>4
  <2> QED BY <1>6, <1>9, <2>1, <2>2, <2>3
<1>11. \A i \in DOMAIN g : g[i] = d[o[i]]
  <2> SUFFICES ASSUME NEW i \in DOMAIN g PROVE g[i] = d[o[i]]
    OBVIOUS
  <2>1. o[i] \in DOMAIN c /\ vc[i] = c[o[i]] /\ i \in 1 .. Len(o) /\ i # k
    BY <1>6, <1>9
  <2>2. o[i] # o[k]
    BY <1>1, <1>4, <2>1
  <2> QED BY <1>3, <1>9, <2>1, <2>2
<1>12. View(t) = [components |-> g, total |-> Len(o), resources |-> r]
  BY <1>5, <1>7, <1>9, <1>10, <1>11, ViewIs
<1> QED BY <1>2, <1>5, <1>7, <1>8, <1>12 DEF v, o

(***************************************************************************)
(* A change of a resource.                                                 *)
(***************************************************************************)
LEMMA SetFacts ==
    ASSUME NEW n \in Nat \ {0}, NEW s \in States(n), NEW k \in Resources, NEW x \in AllValues
    PROVE  LET t == [s EXCEPT !.resources[k] = x]
           IN  /\ t \in States(n) /\ t.ordered = s.ordered
               /\ View(t) = [View(s) EXCEPT !.resources[k] = x]
<1> DEFINE o == s.ordered
           c == s.components
           r == s.resources
           d == [r EXCEPT ![k] = x]
           t == [ordered |-> o, components |-> c, resources |-> d]
<1>1. /\ s = [ordered |-> o, components |-> c, resources |-> r]
      /\ o \in Seq(1 .. (n - 1)) /\ Len(o) \in Nat /\ DOMAIN o = 1 .. Len(o)
      /\ c \in [DOMAIN c -> AllValues] /\ DOMAIN c \subseteq 1 .. (n - 1)
      /\ r \in [Resources -> AllValues]
      /\ \A i, j \in 1 .. Len(o) : o[i] = o[j] => i = j
      /\ \A id \in DOMAIN c : \E i \in 1 .. Len(o) : o[i] = id
  BY StateFacts
<1>2. [s EXCEPT !.resources[k] = x] = t
  <2>1. [s EXCEPT !.resources[k] = x] = [s EXCEPT !.resources = d]
    BY <1>1
  <2> HIDE DEF d, o, c, r
  <2> QED BY <1>1, <2>1
<1>3. d \in [Resources -> AllValues]
  BY <1>1
<1>4. t.ordered = o /\ t.components = c /\ t.resources = d
  OBVIOUS
<1> DEFINE v == View(s)
           vc == v.components
<1>5. /\ v = [components |-> vc, total |-> v.total, resources |-> v.resources]
      /\ v.total = Len(o) /\ v.resources = r
      /\ \A i : i \in DOMAIN vc <=> Active(s, i)
      /\ \A i : Active(s, i) => vc[i] = c[o[i]]
  BY ViewFacts
<1>6. vc = [i \in DOMAIN vc |-> vc[i]]
  BY DEF View
<1>7. [v EXCEPT !.resources[k] = x] = [components |-> vc, total |-> Len(o), resources |-> d]
  <2>1. [v EXCEPT !.resources[k] = x] = [v EXCEPT !.resources = [v.resources EXCEPT ![k] = x]]
    <3> HIDE DEF v
    <3> QED BY <1>5
  <2> HIDE DEF v, vc, o, r
  <2> QED BY <1>5, <2>1
<1> HIDE DEF o, c, r, d
<1>8. t \in States(n)
  BY <1>1, <1>3, StateIntro
<1> HIDE DEF t, v, vc
<1>9. \A i : Active(t, i) <=> Active(s, i)
  BY <1>4 DEF Active, o, c
<1>10. View(t) = [components |-> vc, total |-> Len(o), resources |-> d]
  <2>1. \A i : i \in DOMAIN vc <=> Active(t, i)
    BY <1>5, <1>9
  <2>2. \A i \in DOMAIN vc : vc[i] = t.components[t.ordered[i]]
    BY <1>4, <1>5
  <2> QED BY <1>4, <1>6, <1>8, <2>1, <2>2, ViewIs
<1> QED BY <1>2, <1>4, <1>7, <1>8, <1>10 DEF v, o

(***************************************************************************)
(* Whatever the game does, the state stays a state, and what counts of the *)
(* result depends on nothing but the operation and what counted before.    *)
(***************************************************************************)
LEMMA PlayFacts ==
    ASSUME nextEntity \in Nat \ {0}, NEW s \in States(nextEntity), NEW op \in Ops
    PROVE  LET t == Play(s, op)
               m == nextEntity + Len(t.ordered) - Len(s.ordered)
           IN  /\ m \in Nat \ {0} /\ nextEntity <= m /\ t \in States(m)
               /\ View(t) = PlayView(View(s), op)
<1> DEFINE n == nextEntity
           t == Play(s, op)
           v == View(s)
           m == n + Len(t.ordered) - Len(s.ordered)
<1>1. /\ op.op \in {"quiet", "spawn", "change", "despawn", "set"}
      /\ op.op \in {"spawn", "change", "set"} => op.value \in AllValues
      /\ op.op = "set" => op.resource \in Resources
  BY OpFields DEF AllValues
<1>2. /\ Len(s.ordered) \in Nat
      /\ v.total = Len(s.ordered)
      /\ \A i : i \in DOMAIN v.components <=> Active(s, i)
  BY StateFacts, ViewFacts
<1>3. CASE op.op = "spawn" /\ Len(s.ordered) < MaxEntities
  <2> DEFINE u == [s EXCEPT !.ordered = Append(@, n), !.components = With(@, n, op.value)]
             w == [v EXCEPT !.total = @ + 1, !.components = With(@, v.total + 1, op.value)]
  <2>1. t = u
    BY <1>3 DEF Play
  <2>2. PlayView(v, op) = w
    <3> HIDE DEF v
    <3> QED BY <1>2, <1>3 DEF PlayView
  <2>3. op.value \in AllValues
    BY <1>1, <1>3
  <2>4. u \in States(n + 1) /\ Len(u.ordered) = Len(s.ordered) + 1 /\ View(u) = w
    BY <2>3, SpawnFacts, ZenonT(30)
  <2> HIDE DEF t, u, w, v
  <2>5. Len(t.ordered) = Len(s.ordered) + 1
    BY <2>1, <2>4
  <2>6. t \in States(n + 1) /\ View(t) = PlayView(v, op)
    BY <2>1, <2>2, <2>4
  <2> DEFINE a == Len(t.ordered)
             b == Len(s.ordered)
  <2>7. m = n + 1
    <3>1. a = b + 1 /\ b \in Nat /\ m = n + a - b
      BY <1>2, <2>5
    <3> HIDE DEF a, b, m
    <3> QED BY <3>1
  <2>8. m \in Nat \ {0} /\ n <= m
    <3> HIDE DEF m
    <3> QED BY <2>7
  <2> HIDE DEF m
  <2> QED BY <2>6, <2>7, <2>8 DEF t, v, m
<1>4. CASE op.op = "change" /\ Active(s, op.place)
  <2> DEFINE u == [s EXCEPT !.components[s.ordered[op.place]] = op.value]
             w == [v EXCEPT !.components[op.place] = op.value]
  <2>1. t = u
    BY <1>4 DEF Play
  <2>2. PlayView(v, op) = w
    <3> HIDE DEF v
    <3> QED BY <1>2, <1>4 DEF PlayView
  <2>3. op.value \in AllValues
    BY <1>1, <1>4
  <2>4. u \in States(n) /\ u.ordered = s.ordered /\ View(u) = w
    BY <1>4, <2>3, ChangeFacts
  <2> HIDE DEF t, u, w, v
  <2>5. m = n
    BY <1>2, <2>1, <2>4
  <2> QED BY <2>1, <2>2, <2>4, <2>5 DEF t, v
<1>5. CASE op.op = "despawn" /\ Active(s, op.place)
  <2> DEFINE u == [s EXCEPT !.components = [id \in DOMAIN @ \ {s.ordered[op.place]} |-> @[id]]]
             w == [v EXCEPT !.components = [i \in DOMAIN @ \ {op.place} |-> @[i]]]
  <2>1. t = u
    BY <1>5 DEF Play
  <2>2. PlayView(v, op) = w
    <3> HIDE DEF v
    <3> QED BY <1>2, <1>5 DEF PlayView
  <2>4. u \in States(n) /\ u.ordered = s.ordered /\ View(u) = w
    BY <1>5, DespawnFacts
  <2> HIDE DEF t, u, w, v
  <2>5. m = n
    BY <1>2, <2>1, <2>4
  <2> QED BY <2>1, <2>2, <2>4, <2>5 DEF t, v
<1>6. CASE op.op = "set"
  <2> DEFINE u == [s EXCEPT !.resources[op.resource] = op.value]
             w == [v EXCEPT !.resources[op.resource] = op.value]
  <2>1. t = u
    BY <1>6 DEF Play
  <2>2. PlayView(v, op) = w
    <3> HIDE DEF v
    <3> QED BY <1>2, <1>6 DEF PlayView
  <2>3. op.value \in AllValues /\ op.resource \in Resources
    BY <1>1, <1>6
  <2>4. u \in States(n) /\ u.ordered = s.ordered /\ View(u) = w
    BY <2>3, SetFacts
  <2> HIDE DEF t, u, w, v
  <2>5. m = n
    BY <1>2, <2>1, <2>4
  <2> QED BY <2>1, <2>2, <2>4, <2>5 DEF t, v
<1>7. CASE /\ ~ (op.op = "spawn" /\ Len(s.ordered) < MaxEntities)
           /\ ~ (op.op = "change" /\ Active(s, op.place))
           /\ ~ (op.op = "despawn" /\ Active(s, op.place))
           /\ op.op # "set"
  <2>1. t = s
    BY <1>7 DEF Play
  <2>2. PlayView(v, op) = v
    <3> HIDE DEF v
    <3> QED BY <1>2, <1>7 DEF PlayView
  <2> HIDE DEF t, v
  <2>3. m = n
    BY <1>2, <2>1
  <2> QED BY <2>1, <2>2, <2>3 DEF t, v
<1> QED BY <1>3, <1>4, <1>5, <1>6, <1>7

(***************************************************************************)
(* A storage stays one when more data may be stored.                       *)
(***************************************************************************)
LEMMA StorageGrows ==
    ASSUME NEW M, NEW D, NEW E, D \subseteq E
    PROVE  Storage(M, D) \subseteq Storage(M, E)
<1> DEFINE A == [frame : 0 .. M, data : D]
           B == [frame : 0 .. M, data : E]
<1>1. A \subseteq B
  OBVIOUS
<1>2. Storage(M, D) = [entries : Seq(A), depth : Nat] /\ Storage(M, E) = [entries : Seq(B), depth : Nat]
  BY DEF Storage
<1> HIDE DEF A, B
<1>3. Seq(A) \subseteq Seq(B)
  <2> SUFFICES ASSUME NEW q \in Seq(A) PROVE q \in Seq(B)
    OBVIOUS
  <2>1. \A i \in 1 .. Len(q) : q[i] \in B
    BY <1>1, ElementOfSeq
  <2> QED BY <2>1, SeqDef, LenProperties
<1> QED BY <1>2, <1>3

----------------------------------------------------------------------------
(* Between two steps *)

(***************************************************************************)
(* What the session compares when no request is left: only saved frames    *)
(* within the check distance; what it finds has diverged, and it finds all *)
(* that has when every divergence shows in the checksum.                   *)
(***************************************************************************)
LEMMA IdleFacts ==
    ASSUME SyncInv, requests = <<>>
    PROVE  /\ current \in Nat /\ Saved = 0 .. (current - 1)
           /\ Checked \subseteq Saved
           /\ \A f \in Checked : f >= current - CheckDistance
           /\ current > CheckDistance =>
                 (current - CheckDistance) .. (current - 1) \subseteq Checked
           /\ Mismatched \subseteq diverged
           /\ OneResource => diverged = Mismatched
<1>1. /\ current \in Nat /\ DOMAIN cells = Saved /\ diverged \subseteq Saved
      /\ CheckDistance \in Nat \ {0}
  BY SyncTestAssumption DEF SyncInv, TypeInv
<1>2. Saved = 0 .. (current - 1)
  <2>1. Len(requests) = 0
    OBVIOUS
  <2> QED BY <2>1 DEF Saved
<1>3. /\ Checked \subseteq Saved
      /\ \A f \in Checked : f >= current - CheckDistance
  <2>1. CASE current > CheckDistance
    <3>1. Checked = ((current - CheckDistance) .. current) \intersect Saved
      BY <1>1, <2>1 DEF Checked
    <3> QED BY <1>1, <3>1
  <2>2. CASE ~ (current > CheckDistance)
    BY <2>2 DEF Checked
  <2> QED BY <2>1, <2>2
<1>4. ASSUME current > CheckDistance
      PROVE  (current - CheckDistance) .. (current - 1) \subseteq Checked
  <2>1. Checked = ((current - CheckDistance) .. current) \intersect Saved
    BY <1>1, <1>4 DEF Checked
  <2> QED BY <1>1, <1>2, <1>4, <2>1
<1>5. Mismatched \subseteq diverged
  <2> SUFFICES ASSUME NEW f \in Mismatched, f \notin diverged PROVE FALSE
    OBVIOUS
  <2>1. f \in Checked /\ f \in DOMAIN history /\ cells[f] # history[f]
    BY DEF Mismatched
  <2>2. history[f] = ChecksumOf(first[f]) /\ cells[f] = ChecksumOf(first[f])
    BY <1>3, <2>1 DEF SyncInv, ChecksumInv
  <2> QED BY <2>1, <2>2
<1>6. ASSUME OneResource PROVE diverged \subseteq Mismatched
  <2> SUFFICES ASSUME NEW f \in diverged PROVE f \in Mismatched
    OBVIOUS
  <2>1. f >= current - CheckDistance /\ current > CheckDistance /\ f \in DOMAIN history
    BY <1>6 DEF SyncInv, WindowInv
  <2>2. f \in Checked
    BY <1>1, <1>2, <1>4, <2>1
  <2>3. history[f] = ChecksumOf(first[f]) /\ cells[f] # ChecksumOf(first[f])
    BY <1>6, <2>1 DEF SyncInv, ChecksumInv
  <2> QED BY <2>1, <2>2, <2>3 DEF Mismatched
<1> QED BY <1>1, <1>2, <1>3, <1>4, <1>5, <1>6

(***************************************************************************)
(* The session goes on remembering first checksums, and has one of every   *)
(* frame it compared.                                                      *)
(***************************************************************************)
LEMMA NextHistoryFacts ==
    ASSUME SyncInv, requests = <<>>
    PROVE  /\ DOMAIN NextHistory \subseteq Saved
           /\ \A f \in DOMAIN NextHistory : NextHistory[f] = ChecksumOf(first[f])
           /\ \A f \in DOMAIN history : f >= current - CheckDistance => f \in DOMAIN NextHistory
           /\ Checked \subseteq DOMAIN NextHistory
           /\ Mismatched = {f \in Checked \intersect DOMAIN NextHistory : cells[f] # NextHistory[f]}
<1> DEFINE kept == {f \in DOMAIN history : Checked = {} \/ f >= current - CheckDistance}
           H == NextHistory
<1>1. /\ DOMAIN H = kept \union Checked
      /\ \A f \in kept : H[f] = history[f]
      /\ \A f \in Checked : f \notin kept => H[f] = cells[f]
  BY DEF NextHistory
<1>2. /\ Checked \subseteq Saved /\ \A f \in Checked : f >= current - CheckDistance
      /\ DOMAIN history \subseteq Saved
      /\ \A f \in DOMAIN history : history[f] = ChecksumOf(first[f])
      /\ \A f \in Saved \ diverged : cells[f] = ChecksumOf(first[f])
      /\ \A f \in diverged : f >= current - CheckDistance => f \in DOMAIN history
  BY IdleFacts DEF SyncInv, ChecksumInv, WindowInv
<1>3. \A f \in DOMAIN history : f >= current - CheckDistance => f \in kept
  OBVIOUS
<1>4. kept \subseteq DOMAIN history
  OBVIOUS
<1> HIDE DEF kept, H
<1>5. ASSUME NEW f \in Checked, f \notin kept
      PROVE  f \notin DOMAIN history /\ H[f] = cells[f] /\ H[f] = ChecksumOf(first[f])
  BY <1>1, <1>2, <1>3, <1>5
<1>6. \A f \in DOMAIN H : H[f] = ChecksumOf(first[f])
  BY <1>1, <1>2, <1>4, <1>5
<1>7. Mismatched = {f \in Checked \intersect DOMAIN H : cells[f] # H[f]}
  <2>1. \A f \in Checked : f \in DOMAIN H
    BY <1>1
  <2>2. \A f \in Checked : (f \in DOMAIN history /\ cells[f] # history[f]) <=> cells[f] # H[f]
    BY <1>1, <1>2, <1>3, <1>4, <1>5
  <2> QED BY <2>1, <2>2 DEF Mismatched
<1> QED BY <1>1, <1>2, <1>3, <1>4, <1>6, <1>7 DEF H

(***************************************************************************)
(* The session starts a step: plain, or with a rollback once it has come   *)
(* far enough.                                                             *)
(***************************************************************************)
LEMMA StepRequests ==
    ASSUME SyncInv, RunConsistent
    PROVE  /\ Path(requests', current) /\ Len(requests') >= 2 /\ current < MaxFrame
           /\ \/ Len(requests') = 2 /\ Head(requests') = SaveGameState(current)
              \/ /\ current > CheckDistance
                 /\ Head(requests') = LoadGameState(current - CheckDistance)
<1>1. /\ current \in Nat /\ MaxFrame \in Nat /\ CheckDistance \in Nat \ {0} /\ current < MaxFrame
  BY SyncTestAssumption DEF SyncInv, TypeInv, RunConsistent
<1>2. CASE current > CheckDistance
  <2>1. current - CheckDistance \in Nat /\ current - CheckDistance < current
    BY <1>1, <1>2
  <2> DEFINE s == SyncTestRequests(current, current - CheckDistance, NoInputs)
  <2>2. requests' = s
    BY <1>2 DEF RunConsistent
  <2>3. Path(s, current) /\ Len(s) > 2 /\ Head(s) = LoadGameState(current - CheckDistance)
    BY <1>1, <2>1, RollbackStep
  <2> HIDE DEF s
  <2>4. Len(s) \in Nat
    BY <1>1, <2>3, PathTail
  <2> QED BY <1>1, <1>2, <2>2, <2>3, <2>4
<1>3. CASE ~ (current > CheckDistance)
  <2> DEFINE s == SyncTestRequests(current, NullFrame, NoInputs)
  <2>1. requests' = s
    BY <1>3 DEF RunConsistent
  <2>2. Path(s, current) /\ Len(s) = 2 /\ Head(s) = SaveGameState(current)
    BY <1>1, PlainStep
  <2> HIDE DEF s
  <2> QED BY <1>1, <2>1, <2>2
<1> QED BY <1>2, <1>3

LEMMA RunConsistentKeeps ==
    ASSUME SyncInv, RunConsistent
    PROVE  SyncInv'
<1>1. /\ requests = <<>> /\ Mismatched = {} /\ current' = current + 1 /\ history' = NextHistory
      /\ UNCHANGED <<bevyVars, mismatch, cells, gameVars>>
  BY DEF RunConsistent
<1>2. /\ frame' = frame /\ confirmed' = confirmed /\ store' = store /\ state' = state
      /\ nextEntity' = nextEntity /\ parts' = parts /\ mismatch' = mismatch /\ cells' = cells
      /\ first' = first /\ diverged' = diverged
  BY <1>1 DEF bevyVars, gameVars
<1>3. /\ Path(requests', current) /\ Len(requests') >= 2 /\ current < MaxFrame
      /\ \/ Len(requests') = 2 /\ Head(requests') = SaveGameState(current)
         \/ /\ current > CheckDistance
            /\ Head(requests') = LoadGameState(current - CheckDistance)
  BY StepRequests
<1>4. /\ current \in Nat /\ frame = current /\ CheckDistance \in Nat \ {0} /\ MaxFrame \in Nat
      /\ Saved = 0 .. (current - 1)
  BY <1>1, SyncTestAssumption, IdleFacts DEF SyncInv, TypeInv, StepInv
<1>5. requests' # <<>> /\ Len(requests') \in Nat
  BY <1>3, <1>4, PathTail DEF Path
<1>6. Saved' = Saved
  <2>1. Saved' = 0 .. ((current' - 1) - 1)
    BY <1>3, <1>5 DEF Saved
  <2> QED BY <1>1, <1>4, <2>1
<1>7. TypeInv'
  BY <1>1, <1>2, <1>3, <1>4, <1>6 DEF SyncInv, TypeInv
<1>8. StepInv'
  <2>1. current' - 1 = current
    BY <1>1, <1>4
  <2>2. CASE Len(requests') = 2 /\ Head(requests') = SaveGameState(current)
    <3>1. Head(requests').type = "Save" /\ Head(requests').frame = current
      BY <2>2 DEF SaveGameState
    <3> QED BY <1>2, <1>3, <1>4, <1>5, <2>1, <2>2, <3>1 DEF StepInv
  <2>3. CASE /\ current > CheckDistance
             /\ Head(requests') = LoadGameState(current - CheckDistance)
    <3>1. Head(requests').type = "Load" /\ Head(requests').frame = current - CheckDistance
      BY <2>3 DEF LoadGameState
    <3> QED BY <1>2, <1>3, <1>4, <1>5, <2>1, <2>3, <3>1 DEF StepInv
  <2> QED BY <1>3, <2>2, <2>3
<1>9. ChecksumInv'
  <2>1. /\ DOMAIN history' \subseteq Saved
        /\ \A f \in DOMAIN history' : history'[f] = ChecksumOf(first[f])
    BY <1>1, NextHistoryFacts
  <2>2. /\ \A f \in Saved \ diverged : cells[f] = ChecksumOf(first[f])
        /\ OneResource => \A f \in diverged : cells[f] # ChecksumOf(first[f])
    BY DEF SyncInv, ChecksumInv
  <2> QED BY <1>2, <1>6, <2>1, <2>2 DEF ChecksumInv
<1>10. WindowInv'
  <2>1. /\ \A f \in DOMAIN history : f >= current - CheckDistance => f \in DOMAIN history'
        /\ Checked \subseteq DOMAIN history'
    BY <1>1, NextHistoryFacts
  <2>2. current > CheckDistance => (current - CheckDistance) .. (current - 1) \subseteq Checked
    BY <1>1, IdleFacts
  <2>3. ASSUME current' - 1 > CheckDistance
        PROVE  (current' - 1 - CheckDistance) .. (current' - 2) \subseteq DOMAIN history'
    <3>1. current' - 1 = current /\ current' - 2 = current - 1
      BY <1>1, <1>4
    <3> QED BY <2>1, <2>2, <2>3, <3>1
  <2>4. ASSUME NEW f \in diverged, f >= current' - CheckDistance PROVE f \in DOMAIN history'
    <3>1. f \in Nat /\ f >= current - CheckDistance
      BY <1>1, <1>4, <2>4 DEF SyncInv, TypeInv
    <3>2. f \in DOMAIN history
      BY <3>1 DEF SyncInv, WindowInv
    <3> QED BY <2>1, <3>1, <3>2
  <2>5. OneResource => diverged = {}
    BY <1>1, IdleFacts
  <2> QED BY <1>2, <2>3, <2>4, <2>5 DEF WindowInv
<1>11. ReportInv'
  <2>1. mismatch = NoMismatch
    BY <1>1 DEF SyncInv, ReportInv
  <2> QED BY <1>2, <2>1 DEF ReportInv, NoMismatch, NullFrame
<1> QED BY <1>7, <1>8, <1>9, <1>10, <1>11 DEF SyncInv

(***************************************************************************)
(* A mismatch is reported: nothing else happens, and the session would     *)
(* report the same again.                                                  *)
(***************************************************************************)
LEMMA RunMismatchedKeeps ==
    ASSUME SyncInv, RunMismatched
    PROVE  SyncInv'
<1>1. /\ requests = <<>> /\ Mismatched # {} /\ history' = NextHistory
      /\ mismatch' = [current |-> current, frames |-> Mismatched]
      /\ UNCHANGED <<bevyVars, requests, current, cells, gameVars>>
  BY DEF RunMismatched
<1>2. /\ frame' = frame /\ confirmed' = confirmed /\ store' = store /\ state' = state
      /\ nextEntity' = nextEntity /\ parts' = parts /\ cells' = cells
      /\ first' = first /\ diverged' = diverged /\ current' = current /\ requests' = requests
  BY <1>1 DEF bevyVars, gameVars
<1>3. Saved' = Saved
  BY <1>2 DEF Saved
<1>4. TypeInv'
  BY <1>2, <1>3 DEF SyncInv, TypeInv
<1>5. StepInv'
  BY <1>2 DEF SyncInv, StepInv, Path
<1>6. /\ DOMAIN history' \subseteq Saved
      /\ \A f \in DOMAIN history' : history'[f] = ChecksumOf(first[f])
      /\ \A f \in DOMAIN history : f >= current - CheckDistance => f \in DOMAIN history'
      /\ Mismatched = {f \in Checked \intersect DOMAIN history' : cells[f] # history'[f]}
  BY <1>1, NextHistoryFacts
<1>7. ChecksumInv'
  <2>1. /\ \A f \in Saved \ diverged : cells[f] = ChecksumOf(first[f])
        /\ OneResource => \A f \in diverged : cells[f] # ChecksumOf(first[f])
    BY DEF SyncInv, ChecksumInv
  <2> QED BY <1>2, <1>3, <1>6, <2>1 DEF ChecksumInv
<1>8. WindowInv'
  <2>1. /\ \A f \in diverged : f >= current - CheckDistance => f \in DOMAIN history
        /\ OneResource => \A f \in diverged : f >= current - CheckDistance /\ current > CheckDistance
    BY DEF SyncInv, WindowInv
  <2> QED BY <1>1, <1>2, <1>6, <2>1 DEF WindowInv
<1>9. ReportInv'
  <2>1. Checked' = Checked
    BY <1>2 DEF Checked
  <2>2. Mismatched' = Mismatched
    BY <1>2, <1>6, <2>1 DEF Mismatched
  <2>3. mismatch'.frames = Mismatched
    BY <1>1
  <2> QED BY <1>1, <1>2, <2>2, <2>3 DEF ReportInv
<1> QED BY <1>4, <1>5, <1>7, <1>8, <1>9 DEF SyncInv

----------------------------------------------------------------------------
(* In a step *)

(***************************************************************************)
(* While requests are handled, nothing has been reported, and the session  *)
(* is one frame ahead of where the step began.                             *)
(***************************************************************************)
LEMMA HandlingFacts ==
    ASSUME SyncInv, NEW type, NextRequest(type)
    PROVE  LET c == current - 1
           IN  /\ c \in Nat /\ Path(requests, c) /\ Len(requests) \in Nat \ {0}
               /\ Head(requests).type = type
               /\ requests' = Tail(requests) /\ Len(requests') = Len(requests) - 1
               /\ current' = current /\ history' = history
               /\ mismatch = NoMismatch /\ mismatch' = NoMismatch
               /\ confirmed' \in Int
               /\ Saved = IF Len(requests) = 1 THEN 0 .. c ELSE 0 .. (c - 1)
               /\ Saved' = IF Len(requests) <= 2 THEN 0 .. c ELSE 0 .. (c - 1)
<1> DEFINE c == current - 1
<1>1. /\ requests # <<>> /\ Head(requests).type = type /\ requests' = Tail(requests)
      /\ confirmed' = IF frame >= CheckDistance THEN frame - CheckDistance ELSE confirmed
      /\ mismatch' = mismatch /\ current' = current /\ history' = history
  BY DEF NextRequest
<1>2. /\ c \in Nat /\ Path(requests, c)
  BY <1>1 DEF SyncInv, StepInv
<1>3. Len(requests) \in Nat \ {0} /\ Len(Tail(requests)) = Len(requests) - 1
  <2> HIDE DEF c
  <2> QED BY <1>2, PathTail
<1>4. mismatch = NoMismatch
  BY <1>1 DEF SyncInv, ReportInv
<1>5. confirmed' \in Int
  <2>1. frame \in Int /\ confirmed \in Int /\ CheckDistance \in Int
    BY SyncTestAssumption DEF SyncInv, TypeInv
  <2> QED BY <1>1, <2>1
<1>6. Saved = IF Len(requests) = 1 THEN 0 .. c ELSE 0 .. (c - 1)
  BY <1>2, <1>3 DEF Saved
<1>7. Saved' = IF Len(requests) <= 2 THEN 0 .. c ELSE 0 .. (c - 1)
  <2>1. Saved' = 0 .. ((IF Len(requests) - 1 <= 1 THEN current ELSE current - 1) - 1)
    BY <1>1, <1>3 DEF Saved
  <2> QED BY <1>2, <1>3, <2>1
<1> QED BY <1>1, <1>2, <1>3, <1>4, <1>5, <1>6, <1>7

(***************************************************************************)
(* A request to save: the session is in a step that saves frame c last.    *)
(***************************************************************************)
LEMMA SaveFacts ==
    ASSUME SyncInv, HandleSave
    PROVE  LET c == current - 1
           IN  /\ Head(requests).frame = frame /\ frame \in 0 .. c /\ frame > c - CheckDistance
               /\ Saved = 0 .. (c - 1) /\ Saved' = Saved \union {frame}
               /\ frame \in Saved => c > CheckDistance /\ frame < c
               /\ requests' # <<>> /\ Path(requests', c)
               /\ Head(requests').type = "Advance" /\ Head(requests').frame = frame
               /\ Len(requests') > 2 => c > CheckDistance
<1> DEFINE c == current - 1
<1>1. NextRequest("Save")
  BY DEF HandleSave
<1>2. /\ c \in Nat /\ Path(requests, c) /\ Len(requests) \in Nat \ {0}
      /\ Head(requests).type = "Save"
      /\ requests' = Tail(requests) /\ Len(requests') = Len(requests) - 1
      /\ Saved = IF Len(requests) = 1 THEN 0 .. c ELSE 0 .. (c - 1)
      /\ Saved' = IF Len(requests) <= 2 THEN 0 .. c ELSE 0 .. (c - 1)
  BY <1>1, HandlingFacts
<1>3. requests # <<>>
  BY <1>1 DEF NextRequest
<1>4. /\ Len(requests) > 2 => c > CheckDistance
      /\ Head(requests).frame = frame /\ frame > c - CheckDistance
  BY <1>2, <1>3 DEF SyncInv, StepInv
<1> HIDE DEF c
<1>5. /\ Tail(requests) = <<>> <=> Len(requests) = 1
      /\ Head(requests).frame \in 0 .. c
      /\ Len(requests) # 1
      /\ Len(requests) = 2 => Head(requests).frame = c
      /\ Len(requests) > 1 => /\ Path(Tail(requests), c)
                              /\ Follows(Head(requests), Head(Tail(requests)))
      /\ Len(requests) > 2 => Head(requests).frame < c
  BY <1>2, PathTail
<1>6. /\ requests' # <<>> /\ Path(requests', c)
      /\ Head(requests').type = "Advance" /\ Head(requests').frame = frame
  BY <1>2, <1>4, <1>5 DEF Follows
<1>7. Len(requests') > 2 => c > CheckDistance
  BY <1>2, <1>4
<1>8. /\ Saved = 0 .. (c - 1) /\ Saved' = Saved \union {frame}
      /\ frame \in Saved => Len(requests) > 2
  BY <1>2, <1>4, <1>5
<1> QED BY <1>4, <1>5, <1>6, <1>7, <1>8 DEF c

(***************************************************************************)
(* What saving a frame records: the checksum of the view, and whether the  *)
(* view is the first one of that frame.                                    *)
(***************************************************************************)
LEMMA SaveRecords ==
    ASSUME SyncInv, HandleSave
    PROVE  /\ DOMAIN first' = Saved' /\ DOMAIN cells' = Saved'
           /\ \A f \in Saved : first'[f] = first[f]
           /\ frame \notin Saved => first'[frame] = View(state)
           /\ cells'[frame] = ChecksumOf(View(state))
           /\ \A f \in Saved : f # frame => cells'[f] = cells[f]
           /\ \A f : f # frame => (f \in diverged' <=> f \in diverged)
           /\ frame \in diverged' <=> View(state) # first'[frame]
           /\ DOMAIN parts' = Flags
<1>1. /\ parts' = UpdateParts(parts, state) /\ checksum' = Total(parts')
      /\ cells' = With(cells, Head(requests).frame, checksum')
      /\ first' = IF frame \in DOMAIN first THEN first ELSE With(first, frame, View(state))
      /\ diverged' = IF View(state) = first'[frame] THEN diverged \ {frame}
                                                    ELSE diverged \union {frame}
  BY DEF HandleSave
<1>2. Head(requests).frame = frame /\ Saved' = Saved \union {frame}
  BY SaveFacts
<1>3. /\ nextEntity \in Nat \ {0} /\ state \in States(nextEntity) /\ DOMAIN parts \subseteq Flags
      /\ DOMAIN first = Saved /\ DOMAIN cells = Saved
  BY DEF SyncInv, TypeInv
<1>4. DOMAIN parts' = Flags /\ checksum' = ChecksumOf(View(state))
  BY <1>1, <1>3, ChecksumOfView
<1>5. /\ DOMAIN cells' = Saved' /\ cells'[frame] = ChecksumOf(View(state))
      /\ \A f \in Saved : f # frame => cells'[f] = cells[f]
  <2> DEFINE x == ChecksumOf(View(state))
  <2>1. cells' = With(cells, frame, x)
    BY <1>1, <1>2, <1>4
  <2> HIDE DEF x
  <2>2. /\ DOMAIN cells' = DOMAIN cells \union {frame} /\ cells'[frame] = x
        /\ \A f \in DOMAIN cells : f # frame => cells'[f] = cells[f]
    BY <2>1 DEF With
  <2> QED BY <1>2, <1>3, <2>2 DEF x
<1>6. /\ DOMAIN first' = Saved' /\ \A f \in Saved : first'[f] = first[f]
      /\ frame \notin Saved => first'[frame] = View(state)
  <2>1. CASE frame \in Saved
    BY <1>1, <1>2, <1>3, <2>1
  <2>2. CASE frame \notin Saved
    <3> DEFINE v == View(state)
    <3>1. first' = With(first, frame, v)
      BY <1>1, <1>3, <2>2
    <3> HIDE DEF v
    <3>2. /\ DOMAIN first' = DOMAIN first \union {frame} /\ first'[frame] = v
          /\ \A f \in DOMAIN first : f # frame => first'[f] = first[f]
      BY <3>1 DEF With
    <3> QED BY <1>2, <1>3, <2>2, <3>2 DEF v
  <2> QED BY <2>1, <2>2
<1>7. /\ \A f : f # frame => (f \in diverged' <=> f \in diverged)
      /\ frame \in diverged' <=> View(state) # first'[frame]
  BY <1>1
<1> QED BY <1>4, <1>5, <1>6, <1>7

LEMMA HandleSaveKeeps ==
    ASSUME SyncInv, HandleSave
    PROVE  SyncInv'
<1> DEFINE c == current - 1
<1>1. /\ NextRequest("Save")
      /\ store' = SaveChain(store, MaxPrediction, confirmed', frame, state)
      /\ frame' = frame /\ state' = state /\ nextEntity' = nextEntity
  BY DEF HandleSave
<1>2. /\ c \in Nat /\ current' = current /\ history' = history
      /\ mismatch' = NoMismatch /\ confirmed' \in Int
  BY <1>1, HandlingFacts
<1>3. /\ frame \in 0 .. c /\ frame > c - CheckDistance
      /\ Saved' = Saved \union {frame}
      /\ frame \in Saved => c > CheckDistance /\ frame < c
      /\ requests' # <<>> /\ Path(requests', c)
      /\ Head(requests').type = "Advance" /\ Head(requests').frame = frame
      /\ Len(requests') > 2 => c > CheckDistance
  BY SaveFacts
<1>4. /\ DOMAIN first' = Saved' /\ DOMAIN cells' = Saved'
      /\ \A f \in Saved : first'[f] = first[f]
      /\ frame \notin Saved => first'[frame] = View(state)
      /\ cells'[frame] = ChecksumOf(View(state))
      /\ \A f \in Saved : f # frame => cells'[f] = cells[f]
      /\ \A f : f # frame => (f \in diverged' <=> f \in diverged)
      /\ frame \in diverged' <=> View(state) # first'[frame]
      /\ DOMAIN parts' = Flags
  BY SaveRecords
<1>5. /\ nextEntity \in Nat \ {0} /\ state \in States(nextEntity)
      /\ store \in Storage(MaxFrame, States(nextEntity)) /\ Descending(store.entries)
      /\ frame \in 0 .. MaxFrame /\ current \in 0 .. MaxFrame
      /\ \A f \in Saved : first[f] \in Views
      /\ diverged \subseteq Saved
  BY DEF SyncInv, TypeInv
<1>6. View(state) \in Views
  BY <1>5, ViewFacts
<1>7. \A f \in Saved' : first'[f] \in Views
  BY <1>3, <1>4, <1>5, <1>6
<1>8. TypeInv'
  <2>1. store' \in Storage(MaxFrame, States(nextEntity)) /\ Descending(store'.entries)
    <3> DEFINE D == States(nextEntity)
    <3> HIDE DEF D
    <3>1. MaxFrame \in Nat /\ MaxFrame < Half /\ MaxPrediction \in Nat
      BY SyncTestAssumption
    <3>2. state \in D /\ store \in Storage(MaxFrame, D)
      BY <1>5 DEF D
    <3>3. store' \in Storage(MaxFrame, D) /\ Descending(store'.entries)
      BY <1>1, <1>2, <1>5, <3>1, <3>2, SaveChainFacts
    <3> QED BY <3>3 DEF D
  <2>2. diverged' \subseteq Saved'
    BY <1>3, <1>4, <1>5
  <2>3. States(nextEntity)' = States(nextEntity)
    BY <1>1 DEF States
  <2> QED BY <1>1, <1>2, <1>4, <1>5, <1>7, <2>1, <2>2, <2>3 DEF TypeInv
<1>9. StepInv'
  BY <1>1, <1>2, <1>3, SyncTestAssumption DEF StepInv
<1>10. ChecksumInv'
  <2>1. /\ DOMAIN history \subseteq Saved
        /\ \A f \in DOMAIN history : history[f] = ChecksumOf(first[f])
        /\ \A f \in Saved \ diverged : cells[f] = ChecksumOf(first[f])
        /\ OneResource => \A f \in diverged : cells[f] # ChecksumOf(first[f])
    BY DEF SyncInv, ChecksumInv
  <2>2. /\ DOMAIN history' \subseteq Saved'
        /\ \A f \in DOMAIN history' : history'[f] = ChecksumOf(first'[f])
    BY <1>2, <1>3, <1>4, <2>1
  <2>3. ASSUME NEW f \in Saved' \ diverged' PROVE cells'[f] = ChecksumOf(first'[f])
    BY <1>3, <1>4, <2>1
  <2>4. ASSUME OneResource, NEW f \in diverged' PROVE cells'[f] # ChecksumOf(first'[f])
    <3>1. CASE f = frame
      <4>1. View(state) # first'[frame] /\ first'[frame] \in Views
        BY <1>3, <1>4, <1>7, <3>1
      <4>2. ChecksumOf(View(state)) # ChecksumOf(first'[frame])
        BY <1>6, <2>4, <4>1, ChecksumTellsApart
      <4> QED BY <1>4, <3>1, <4>2
    <3>2. CASE f # frame
      BY <1>4, <1>5, <2>1, <2>4, <3>2
    <3> QED BY <3>1, <3>2
  <2> QED BY <2>2, <2>3, <2>4 DEF ChecksumInv
<1>11. WindowInv'
  <2>1. requests # <<>>
    BY <1>1 DEF NextRequest
  <2>2. /\ c > CheckDistance => (c - CheckDistance) .. (current - 2) \subseteq DOMAIN history
        /\ \A f \in diverged : f >= current - CheckDistance => f \in DOMAIN history
        /\ OneResource => \A f \in diverged : f >= current - CheckDistance /\ current > CheckDistance
    BY <2>1 DEF SyncInv, WindowInv
  <2>3. CheckDistance \in Nat \ {0}
    BY SyncTestAssumption
  <2>4. ASSUME frame \in diverged'
        PROVE  /\ frame \in DOMAIN history
               /\ frame >= current - CheckDistance /\ current > CheckDistance
    <3>1. frame \in Saved
      BY <1>4, <2>4
    <3>2. c > CheckDistance /\ frame < c
      BY <1>3, <3>1
    <3>3. /\ frame \in (c - CheckDistance) .. (current - 2)
          /\ frame >= current - CheckDistance /\ current > CheckDistance
      <4>1. c \in Nat /\ current = c + 1 /\ current \in Nat
        BY <1>2, <1>5
      <4> HIDE DEF c
      <4> QED BY <1>3, <2>3, <3>2, <4>1
    <3> QED BY <2>2, <3>2, <3>3
  <2>5. \A f \in diverged' : f >= current - CheckDistance => f \in DOMAIN history
    BY <1>4, <2>2, <2>4
  <2>6. OneResource => \A f \in diverged' : f >= current - CheckDistance /\ current > CheckDistance
    BY <1>4, <2>2, <2>4
  <2> QED BY <1>2, <2>2, <2>5, <2>6 DEF WindowInv
<1>12. ReportInv'
  BY <1>2 DEF ReportInv, NoMismatch
<1> QED BY <1>8, <1>9, <1>10, <1>11, <1>12 DEF SyncInv

(***************************************************************************)
(* A request to load: it starts a rollback of CheckDistance frames.        *)
(***************************************************************************)
LEMMA LoadFacts ==
    ASSUME SyncInv, HandleLoad
    PROVE  LET c == current - 1
           IN  /\ c > CheckDistance /\ frame' = c - CheckDistance
               /\ Saved' = Saved /\ frame' \in Saved
               /\ requests' # <<>> /\ Path(requests', c)
               /\ Head(requests').type = "Advance" /\ Head(requests').frame = frame'
<1> DEFINE c == current - 1
<1>1. NextRequest("Load") /\ frame' = Head(requests).frame
  BY DEF HandleLoad
<1>2. /\ c \in Nat /\ Path(requests, c) /\ Len(requests) \in Nat \ {0}
      /\ Head(requests).type = "Load"
      /\ requests' = Tail(requests)
      /\ Saved = IF Len(requests) = 1 THEN 0 .. c ELSE 0 .. (c - 1)
      /\ Saved' = IF Len(requests) <= 2 THEN 0 .. c ELSE 0 .. (c - 1)
  BY <1>1, HandlingFacts
<1>3. requests # <<>>
  BY <1>1 DEF NextRequest
<1>4. c > CheckDistance /\ Head(requests).frame = c - CheckDistance
  BY <1>2, <1>3 DEF SyncInv, StepInv
<1> HIDE DEF c
<1>5. CheckDistance \in Nat \ {0}
  BY SyncTestAssumption
<1>6. /\ Tail(requests) = <<>> <=> Len(requests) = 1
      /\ Len(requests) # 1
      /\ Len(requests) = 2 => Head(requests).frame = c
      /\ Len(requests) > 1 => /\ Path(Tail(requests), c)
                              /\ Follows(Head(requests), Head(Tail(requests)))
  BY <1>2, PathTail
<1>7. Len(requests) > 2
  <2>1. Head(requests).frame # c
    BY <1>2, <1>4, <1>5
  <2> DEFINE n == Len(requests)
  <2>2. n \in Nat \ {0} /\ n # 1 /\ n # 2
    BY <1>2, <1>6, <2>1
  <2> HIDE DEF n
  <2>3. n > 2
    BY <2>2
  <2> QED BY <2>3 DEF n
<1>8. /\ requests' # <<>> /\ Path(requests', c)
      /\ Head(requests').type = "Advance" /\ Head(requests').frame = frame'
  BY <1>1, <1>2, <1>6, <1>7 DEF Follows
<1>9. Saved' = Saved /\ frame' \in Saved
  BY <1>1, <1>2, <1>4, <1>5, <1>7
<1> QED BY <1>1, <1>4, <1>8, <1>9 DEF c

LEMMA HandleLoadKeeps ==
    ASSUME SyncInv, HandleLoad
    PROVE  SyncInv'
<1> DEFINE c == current - 1
           D == States(nextEntity)
<1>1. /\ NextRequest("Load") /\ CanRollback(store, frame') /\ store' = Rollback(store, frame')
      /\ state' = Get(store')
      /\ nextEntity' = nextEntity /\ parts' = parts /\ cells' = cells
      /\ first' = first /\ diverged' = diverged
  BY DEF HandleLoad, gameVars
<1>2. /\ c \in Nat /\ current' = current /\ history' = history
      /\ mismatch' = NoMismatch /\ confirmed' \in Int
  BY <1>1, HandlingFacts
<1>3. /\ c > CheckDistance /\ frame' = c - CheckDistance
      /\ Saved' = Saved /\ frame' \in Saved
      /\ requests' # <<>> /\ Path(requests', c)
      /\ Head(requests').type = "Advance" /\ Head(requests').frame = frame'
  BY LoadFacts
<1>4. /\ nextEntity \in Nat \ {0} /\ store \in Storage(MaxFrame, D) /\ Descending(store.entries)
      /\ current \in 0 .. MaxFrame /\ MaxFrame \in Nat /\ CheckDistance \in Nat \ {0}
      /\ DOMAIN parts \subseteq Flags
      /\ DOMAIN first = Saved /\ DOMAIN cells = Saved
      /\ \A f \in Saved : first[f] \in Views
      /\ diverged \subseteq Saved
  BY SyncTestAssumption DEF SyncInv, TypeInv
<1>5. TypeInv'
  <2>1. States(nextEntity') = D
    BY <1>1
  <2> HIDE DEF D
  <2>2. /\ store' \in Storage(MaxFrame, D) /\ Descending(store'.entries)
        /\ Len(store'.entries) >= 1
    BY <1>1, <1>4, RollbackFacts
  <2>3. state' \in D
    <3> DEFINE q == store'.entries
    <3>1. q \in Seq([frame : 0 .. MaxFrame, data : D]) /\ Len(q) >= 1
      BY <2>2 DEF Storage
    <3>2. state' = q[1].data
      BY <1>1 DEF Get, Front
    <3> HIDE DEF q
    <3>3. 1 \in 1 .. Len(q)
      BY <3>1, LenProperties
    <3>4. q[1] \in [frame : 0 .. MaxFrame, data : D]
      BY <3>1, <3>3, ElementOfSeq
    <3> QED BY <3>2, <3>4
  <2>4. frame' \in 0 .. MaxFrame
    BY <1>2, <1>3, <1>4
  <2> QED BY <1>1, <1>2, <1>3, <1>4, <2>1, <2>2, <2>3, <2>4 DEF TypeInv
<1>6. StepInv'
  BY <1>2, <1>3, <1>4 DEF StepInv
<1>7. ChecksumInv'
  BY <1>1, <1>2, <1>3 DEF SyncInv, ChecksumInv
<1>8. WindowInv'
  <2>1. requests # <<>>
    BY <1>1 DEF NextRequest
  <2> QED BY <1>1, <1>2, <2>1 DEF SyncInv, WindowInv
<1>9. ReportInv'
  BY <1>2 DEF ReportInv, NoMismatch
<1> QED BY <1>5, <1>6, <1>7, <1>8, <1>9 DEF SyncInv

(***************************************************************************)
(* A request to advance: the last one ends the step, after any other the   *)
(* new frame is saved.                                                     *)
(***************************************************************************)
LEMMA AdvanceFacts ==
    ASSUME SyncInv, NEW op, HandleAdvance(op)
    PROVE  LET c == current - 1
           IN  /\ frame \in 0 .. c /\ frame' = frame + 1
               /\ Saved' = Saved /\ frame \in Saved
               /\ \/ requests' = <<>> /\ frame = c
                  \/ /\ requests' # <<>> /\ Path(requests', c)
                     /\ frame < c /\ c > CheckDistance /\ frame' > c - CheckDistance
                     /\ Head(requests').type = "Save" /\ Head(requests').frame = frame'
<1> DEFINE c == current - 1
<1>1. NextRequest("Advance") /\ frame' = frame + 1
  BY DEF HandleAdvance
<1>2. /\ c \in Nat /\ Path(requests, c) /\ Len(requests) \in Nat \ {0}
      /\ Head(requests).type = "Advance"
      /\ requests' = Tail(requests)
      /\ Saved = IF Len(requests) = 1 THEN 0 .. c ELSE 0 .. (c - 1)
      /\ Saved' = IF Len(requests) <= 2 THEN 0 .. c ELSE 0 .. (c - 1)
  BY <1>1, HandlingFacts
<1>3. requests # <<>>
  BY <1>1 DEF NextRequest
<1>4. /\ Len(requests) > 2 => c > CheckDistance
      /\ Head(requests).frame = frame /\ frame >= c - CheckDistance
  BY <1>2, <1>3 DEF SyncInv, StepInv
<1> HIDE DEF c
<1>5. CheckDistance \in Nat \ {0}
  BY SyncTestAssumption
<1>6. /\ Tail(requests) = <<>> <=> Len(requests) = 1
      /\ Head(requests).frame \in 0 .. c
      /\ Len(requests) = 1 => Head(requests).frame = c
      /\ Len(requests) # 2
      /\ Len(requests) > 1 => /\ Path(Tail(requests), c)
                              /\ Follows(Head(requests), Head(Tail(requests)))
      /\ Len(requests) > 2 => Head(requests).frame < c
  BY <1>2, PathTail
<1>7. CASE Len(requests) = 1
  <2>1. requests' = <<>> /\ frame = c
    BY <1>2, <1>4, <1>6, <1>7
  <2>2. Saved' = Saved /\ frame \in Saved
    BY <1>2, <1>7, <2>1
  <2> QED BY <1>1, <1>4, <1>6, <2>1, <2>2 DEF c
<1>8. CASE Len(requests) # 1
  <2>1. Len(requests) > 2
    <3> DEFINE n == Len(requests)
    <3>1. n \in Nat \ {0} /\ n # 1 /\ n # 2
      BY <1>2, <1>6, <1>8
    <3> HIDE DEF n
    <3>2. n > 2
      BY <3>1
    <3> QED BY <3>2 DEF n
  <2>2. requests' # <<>> /\ Path(requests', c)
    BY <1>2, <1>6, <2>1
  <2>3. Head(requests').type = "Save" /\ Head(requests').frame = frame'
    BY <1>1, <1>2, <1>4, <1>6, <2>1 DEF Follows
  <2>4. frame \in 0 .. c /\ frame < c /\ c > CheckDistance /\ frame' > c - CheckDistance
    BY <1>1, <1>2, <1>4, <1>5, <1>6, <2>1
  <2>5. Saved' = Saved /\ frame \in Saved
    BY <1>2, <2>1, <2>4
  <2> QED BY <1>1, <2>2, <2>3, <2>4, <2>5 DEF c
<1> QED BY <1>7, <1>8

LEMMA HandleAdvanceKeeps ==
    ASSUME SyncInv, NEW op \in Ops, HandleAdvance(op)
    PROVE  SyncInv'
<1> DEFINE c == current - 1
<1>1. /\ NextRequest("Advance")
      /\ state' = Play(state, op)
      /\ nextEntity' = nextEntity + Len(state'.ordered) - Len(state.ordered)
      /\ store' = store /\ parts' = parts /\ cells' = cells
      /\ first' = first /\ diverged' = diverged
  BY DEF HandleAdvance
<1>2. /\ c \in Nat /\ current' = current /\ history' = history
      /\ mismatch' = NoMismatch /\ confirmed' \in Int
  BY <1>1, HandlingFacts
<1>3. /\ frame \in 0 .. c /\ frame' = frame + 1
      /\ Saved' = Saved
      /\ \/ requests' = <<>> /\ frame = c
         \/ /\ requests' # <<>> /\ Path(requests', c)
            /\ frame < c /\ c > CheckDistance /\ frame' > c - CheckDistance
            /\ Head(requests').type = "Save" /\ Head(requests').frame = frame'
  BY AdvanceFacts
<1>4. /\ nextEntity \in Nat \ {0} /\ state \in States(nextEntity)
      /\ store \in Storage(MaxFrame, States(nextEntity)) /\ Descending(store.entries)
      /\ current \in 0 .. MaxFrame /\ MaxFrame \in Nat /\ CheckDistance \in Nat \ {0}
      /\ DOMAIN parts \subseteq Flags
      /\ DOMAIN first = Saved /\ DOMAIN cells = Saved
      /\ \A f \in Saved : first[f] \in Views
      /\ diverged \subseteq Saved
  BY SyncTestAssumption DEF SyncInv, TypeInv
<1>5. TypeInv'
  <2>1. /\ nextEntity' \in Nat \ {0} /\ nextEntity <= nextEntity'
        /\ state' \in States(nextEntity')
    BY <1>1, <1>4, PlayFacts
  <2> DEFINE D == States(nextEntity)
             E == States(nextEntity')
  <2>2. D \subseteq E
    BY <1>4, <2>1, StatesGrow
  <2>3. store' \in Storage(MaxFrame, E)
    <3>1. store \in Storage(MaxFrame, D)
      BY <1>4
    <3> HIDE DEF D, E
    <3> QED BY <1>1, <2>2, <3>1, StorageGrows
  <2>4. frame' \in 0 .. MaxFrame
    BY <1>2, <1>3, <1>4
  <2> QED BY <1>1, <1>2, <1>3, <1>4, <2>1, <2>3, <2>4 DEF TypeInv
<1>6. StepInv'
  <2>1. CASE requests' = <<>> /\ frame = c
    BY <1>2, <1>3, <1>4, <2>1 DEF StepInv
  <2>2. CASE /\ requests' # <<>> /\ Path(requests', c)
             /\ frame < c /\ c > CheckDistance /\ frame' > c - CheckDistance
             /\ Head(requests').type = "Save" /\ Head(requests').frame = frame'
    <3>1. frame' >= c - CheckDistance
      BY <1>2, <1>3, <1>4, <2>2
    <3> QED BY <1>2, <2>2, <3>1 DEF StepInv
  <2> QED BY <1>3, <2>1, <2>2
<1>7. ChecksumInv'
  BY <1>1, <1>2, <1>3 DEF SyncInv, ChecksumInv
<1>8. WindowInv'
  <2>1. requests # <<>>
    BY <1>1 DEF NextRequest
  <2> QED BY <1>1, <1>2, <2>1 DEF SyncInv, WindowInv
<1>9. ReportInv'
  BY <1>2 DEF ReportInv, NoMismatch
<1> QED BY <1>5, <1>6, <1>7, <1>8, <1>9 DEF SyncInv

----------------------------------------------------------------------------
(* The invariant *)

LEMMA InitSyncInv ==
    ASSUME Init
    PROVE  SyncInv
<1>1. /\ frame = 0 /\ confirmed = -1 /\ store = EmptySnapshots
      /\ nextEntity = InitialEntities + 1 /\ parts = <<>> /\ requests = <<>>
      /\ mismatch = NoMismatch /\ current = 0 /\ cells = <<>> /\ history = <<>>
      /\ first = <<>> /\ diverged = {}
      /\ InitialEntities \in Nat /\ MaxFrame \in Nat /\ CheckDistance \in Nat \ {0}
  BY SyncTestAssumption DEF Init
<1>2. Saved = {}
  <2>1. Len(requests) = 0
    BY <1>1
  <2> QED BY <1>1, <2>1 DEF Saved
<1>3. nextEntity \in Nat \ {0} /\ nextEntity - 1 = InitialEntities
  BY <1>1
<1>4. state \in States(nextEntity)
  <2> DEFINE o == [i \in 1 .. InitialEntities |-> i]
             k == [i \in 1 .. InitialEntities |-> InitialValue]
             r == [q \in Resources |-> InitialValue]
  <2>1. state = [ordered |-> o, components |-> k, resources |-> r]
    BY DEF Init
  <2>2. o \in Seq(1 .. InitialEntities) /\ Len(o) = InitialEntities
    BY <1>1
  <2>3. \A i \in 1 .. InitialEntities : o[i] = i
    OBVIOUS
  <2>4. /\ DOMAIN k = 1 .. InitialEntities /\ k \in [1 .. InitialEntities -> AllValues]
        /\ r \in [Resources -> AllValues]
    BY DEF AllValues
  <2> HIDE DEF o, k, r
  <2>5. \A i, j \in 1 .. Len(o) : o[i] = o[j] => i = j
    BY <2>2, <2>3
  <2>6. \A id \in DOMAIN k : \E i \in 1 .. Len(o) : o[i] = id
    BY <2>2, <2>3, <2>4
  <2>7. /\ o \in Seq(1 .. (nextEntity - 1)) /\ k \in [DOMAIN k -> AllValues]
        /\ DOMAIN k \subseteq 1 .. (nextEntity - 1)
    BY <1>3, <2>2, <2>4
  <2> QED BY <1>3, <2>1, <2>4, <2>5, <2>6, <2>7, StateIntro
<1>5. store \in Storage(MaxFrame, States(nextEntity)) /\ Descending(store.entries)
  <2> DEFINE S == [frame : 0 .. MaxFrame, data : States(nextEntity)]
  <2>1. store.entries = <<>> /\ store = [entries |-> <<>>, depth |-> 60]
    BY <1>1 DEF EmptySnapshots, DefaultFps
  <2>2. store \in [entries : Seq(S), depth : Nat]
    <3> HIDE DEF S
    <3> QED BY <2>1
  <2> QED BY <2>1, <2>2 DEF Storage, Descending
<1>6. TypeInv
  <2>1. DOMAIN parts = {} /\ DOMAIN first = {} /\ DOMAIN cells = {}
    BY <1>1
  <2> QED BY <1>1, <1>2, <1>3, <1>4, <1>5, <2>1 DEF TypeInv
<1>7. StepInv
  BY <1>1 DEF StepInv
<1>8. ChecksumInv
  BY <1>1, <1>2 DEF ChecksumInv
<1>9. WindowInv
  BY <1>1 DEF WindowInv
<1>10. ReportInv
  BY <1>1 DEF ReportInv
<1> QED BY <1>6, <1>7, <1>8, <1>9, <1>10 DEF SyncInv

LEMMA NextSyncInv ==
    ASSUME SyncInv, [Next]_vars
    PROVE  SyncInv'
<1>1. CASE RunConsistent
  BY <1>1, RunConsistentKeeps
<1>2. CASE RunMismatched
  BY <1>2, RunMismatchedKeeps
<1>3. CASE HandleSave
  BY <1>3, HandleSaveKeeps
<1>4. CASE HandleLoad
  BY <1>4, HandleLoadKeeps
<1>5. CASE \E op \in Ops : HandleAdvance(op)
  BY <1>5, HandleAdvanceKeeps
<1>6. CASE UNCHANGED vars
  BY <1>6 DEF vars, bevyVars, gameVars, SyncInv, TypeInv, StepInv, ChecksumInv, WindowInv,
              ReportInv, Saved, Checked, Mismatched
<1> QED BY <1>1, <1>2, <1>3, <1>4, <1>5, <1>6 DEF Next, RunSyncTest, HandleRequest

LEMMA SyncInvAlways == Spec => []SyncInv
<1>1. Init => SyncInv
  BY InitSyncInv
<1>2. SyncInv /\ [Next]_vars => SyncInv'
  BY NextSyncInv
<1> QED BY <1>1, <1>2, PTL DEF Spec

----------------------------------------------------------------------------
(* What is reported *)

(***************************************************************************)
(* A SyncTestMismatch names exactly the frames whose resimulated state     *)
(* differs from the first one: run_synctest raises no false alarm and      *)
(* leaves no diverged frame out, for any check distance and any number of  *)
(* frames, entities and values.  The hypothesis is one the code needs:     *)
(* with two resources of the same type of value the parts of equal ones    *)
(* cancel out in the XOR, and a divergence of both can go unnoticed.       *)
(***************************************************************************)
THEOREM MismatchIsExactAlways ==
    ASSUME OneResource
    PROVE  Spec => []MismatchIsExact
<1>1. SyncInv => MismatchIsExact
  <2> SUFFICES ASSUME SyncInv, mismatch # NoMismatch PROVE mismatch.frames = diverged
    BY DEF MismatchIsExact
  <2>1. requests = <<>> /\ mismatch.frames = Mismatched
    BY DEF SyncInv, ReportInv
  <2>2. diverged = Mismatched
    BY <2>1, IdleFacts
  <2> QED BY <2>1, <2>2
<1> QED BY <1>1, SyncInvAlways, PTL

\* Every reported frame has diverged.
NoFalseAlarm == mismatch # NoMismatch => mismatch.frames # {} /\ mismatch.frames \subseteq diverged

(***************************************************************************)
(* Whatever resources are registered for the checksum, the frames that a   *)
(* SyncTestMismatch names have diverged, and there is one.                 *)
(***************************************************************************)
THEOREM NoFalseAlarmAlways == Spec => []NoFalseAlarm
<1>1. SyncInv => NoFalseAlarm
  <2> SUFFICES ASSUME SyncInv, mismatch # NoMismatch
               PROVE  mismatch.frames # {} /\ mismatch.frames \subseteq diverged
    BY DEF NoFalseAlarm
  <2>1. requests = <<>> /\ mismatch.frames = Mismatched /\ Mismatched # {}
    BY DEF SyncInv, ReportInv
  <2>2. Mismatched \subseteq diverged
    BY <2>1, IdleFacts
  <2> QED BY <2>1, <2>2
<1> QED BY <1>1, SyncInvAlways, PTL

\* Between two steps the session would find exactly the frames that have diverged.
NextStepReports == requests = <<>> => Mismatched = diverged

(***************************************************************************)
(* The safety half of DivergenceReported: whenever the requests of a step  *)
(* are executed, the frames whose states differ are still in the window    *)
(* the session compares, with their first checksums, so that the next call *)
(* of run_synctest reports them all and advances only when there is none.  *)
(* The hypothesis is that of MismatchIsExactAlways.                        *)
(***************************************************************************)
THEOREM NextStepReportsAlways ==
    ASSUME OneResource
    PROVE  Spec => []NextStepReports
<1>1. SyncInv => NextStepReports
  BY IdleFacts DEF NextStepReports
<1> QED BY <1>1, SyncInvAlways, PTL

----------------------------------------------------------------------------
(* A game that does the same whenever it simulates a frame *)

LEMMA InitGameInv ==
    ASSUME Init
    PROVE  GameInv
<1>1. /\ frame = 0 /\ store = EmptySnapshots /\ requests = <<>> /\ current = 0
      /\ script = <<>> /\ diverged = {}
  BY DEF Init
<1>2. Saved = {}
  <2>1. Len(requests) = 0
    BY <1>1
  <2> QED BY <1>1, <2>1 DEF Saved
<1>3. ScriptInv
  BY <1>1 DEF ScriptInv
<1>4. ReplayInv
  <2>1. store.entries = <<>>
    BY <1>1 DEF EmptySnapshots
  <2> QED BY <1>1, <1>2, <2>1 DEF ReplayInv
<1> QED BY <1>3, <1>4 DEF GameInv

LEMMA RunConsistentReplays ==
    ASSUME SyncInv, GameInv, RunConsistent
    PROVE  GameInv'
<1>1. /\ requests = <<>> /\ current' = current + 1
      /\ UNCHANGED <<bevyVars, mismatch, cells, gameVars>>
  BY DEF RunConsistent
<1>2. /\ frame' = frame /\ store' = store /\ state' = state /\ script' = script
      /\ leaked' = leaked /\ first' = first /\ diverged' = diverged
  BY <1>1 DEF bevyVars, gameVars
<1>3. /\ current \in Nat /\ Saved = 0 .. (current - 1)
  BY <1>1, IdleFacts
<1>4. requests' # <<>> /\ Saved' = Saved
  <2>1. Path(requests', current) /\ Len(requests') >= 2
    BY StepRequests
  <2>2. Len(requests') \in Nat /\ requests' # <<>>
    BY <1>3, <2>1, PathTail DEF Path
  <2>3. Saved' = 0 .. ((current' - 1) - 1)
    BY <2>1, <2>2 DEF Saved
  <2> QED BY <1>1, <1>3, <2>2, <2>3
<1>5. ScriptInv'
  BY <1>1, <1>2, <1>3, <1>4 DEF GameInv, ScriptInv
<1>6. ASSUME ~ leaked' PROVE ReplayInv'
  BY <1>2, <1>4, <1>6 DEF GameInv, ReplayInv
<1> QED BY <1>5, <1>6 DEF GameInv

LEMMA RunMismatchedReplays ==
    ASSUME GameInv, RunMismatched
    PROVE  GameInv'
<1>1. UNCHANGED <<bevyVars, requests, current, gameVars>>
  BY DEF RunMismatched
<1>2. Saved' = Saved
  BY <1>1 DEF Saved
<1> QED BY <1>1, <1>2 DEF bevyVars, gameVars, GameInv, ScriptInv, ReplayInv

LEMMA HandleSaveReplays ==
    ASSUME SyncInv, GameInv, HandleSave
    PROVE  GameInv'
<1> DEFINE c == current - 1
<1>1. /\ NextRequest("Save")
      /\ store' = SaveChain(store, MaxPrediction, confirmed', frame, state)
      /\ frame' = frame /\ state' = state /\ script' = script /\ leaked' = leaked
  BY DEF HandleSave
<1>2. c \in Nat /\ current' = current /\ confirmed' \in Int /\ requests # <<>>
  BY <1>1, HandlingFacts DEF NextRequest
<1>3. /\ frame \in 0 .. c /\ Saved = 0 .. (c - 1) /\ Saved' = Saved \union {frame}
      /\ requests' # <<>>
  BY SaveFacts
<1>4. /\ \A f \in Saved : first'[f] = first[f]
      /\ frame \notin Saved => first'[frame] = View(state)
      /\ \A f : f # frame => (f \in diverged' <=> f \in diverged)
      /\ frame \in diverged' <=> View(state) # first'[frame]
  BY SaveRecords
<1>5. ScriptInv'
  BY <1>1, <1>2, <1>3 DEF GameInv, ScriptInv
<1>6. ASSUME ~ leaked' PROVE ReplayInv'
  <2>1. /\ diverged = {}
        /\ \A f \in Saved : f > 0 => first[f] = PlayView(first[f - 1], script[f])
        /\ frame \in Saved => View(state) = first[frame]
        /\ (frame \notin Saved /\ frame > 0) =>
              View(state) = PlayView(first[frame - 1], script[frame])
        /\ \A i \in 1 .. Len(store.entries) :
              /\ store.entries[i].frame \in Saved
              /\ View(store.entries[i].data) = first[store.entries[i].frame]
    BY <1>1, <1>6 DEF GameInv, ReplayInv
  <2>2. View(state) = first'[frame]
    BY <1>4, <2>1
  <2>3. diverged' = {}
    BY <1>4, <2>1, <2>2
  <2>4. ASSUME NEW f \in Saved', f > 0 PROVE first'[f] = PlayView(first'[f - 1], script[f])
    <3>1. f - 1 \in Saved
      <4> HIDE DEF c
      <4> QED BY <1>2, <1>3, <2>4 DEF c
    <3>2. CASE f \in Saved
      BY <1>4, <2>1, <2>4, <3>1, <3>2
    <3>3. CASE f \notin Saved
      <4>1. f = frame
        BY <1>3, <3>3
      <4> QED BY <1>4, <2>1, <2>2, <2>4, <3>1, <3>3, <4>1
    <3> QED BY <3>2, <3>3
  <2>5. NewOrOlder(store'.entries, store.entries, frame, state)
    <3> DEFINE D == States(nextEntity)
    <3>1. /\ MaxFrame \in Nat /\ MaxFrame < Half /\ MaxPrediction \in Nat
          /\ state \in D /\ store \in Storage(MaxFrame, D) /\ Descending(store.entries)
          /\ frame \in 0 .. MaxFrame
      BY SyncTestAssumption DEF SyncInv, TypeInv
    <3> HIDE DEF D
    <3> QED BY <1>1, <1>2, <3>1, SaveChainFacts
  <2>6. ASSUME NEW i \in 1 .. Len(store'.entries)
        PROVE  /\ store'.entries[i].frame \in Saved'
               /\ View(store'.entries[i].data) = first'[store'.entries[i].frame]
    <3>1. CASE store'.entries[i] = Entry(frame, state)
      <4>1. store'.entries[i].frame = frame /\ store'.entries[i].data = state
        BY <3>1 DEF Entry
      <4> QED BY <1>3, <2>2, <4>1
    <3>2. CASE \E j \in 1 .. Len(store.entries) : store'.entries[i] = store.entries[j]
      BY <1>3, <1>4, <2>1, <3>2
    <3> QED BY <2>5, <3>1, <3>2 DEF NewOrOlder
  <2>7. frame \in Saved'
    BY <1>3
  <2> QED BY <1>1, <2>2, <2>3, <2>4, <2>6, <2>7 DEF ReplayInv
<1> QED BY <1>5, <1>6 DEF GameInv

LEMMA HandleLoadReplays ==
    ASSUME SyncInv, GameInv, HandleLoad
    PROVE  GameInv'
<1>1. /\ NextRequest("Load") /\ CanRollback(store, frame') /\ store' = Rollback(store, frame')
      /\ state' = Get(store') /\ script' = script /\ leaked' = leaked
      /\ first' = first /\ diverged' = diverged
  BY DEF HandleLoad, gameVars
<1>2. current' = current /\ requests # <<>>
  BY <1>1 DEF NextRequest
<1>3. Saved' = Saved /\ frame' \in Saved /\ requests' # <<>>
  BY LoadFacts
<1>4. ScriptInv'
  BY <1>1, <1>2, <1>3 DEF GameInv, ScriptInv
<1>5. ASSUME ~ leaked' PROVE ReplayInv'
  <2>1. /\ diverged = {}
        /\ \A f \in Saved : f > 0 => first[f] = PlayView(first[f - 1], script[f])
        /\ \A i \in 1 .. Len(store.entries) :
              /\ store.entries[i].frame \in Saved
              /\ View(store.entries[i].data) = first[store.entries[i].frame]
    BY <1>1, <1>5 DEF GameInv, ReplayInv
  <2>2. /\ Within(store'.entries, store.entries) /\ Len(store'.entries) \in Nat
        /\ Len(store'.entries) >= 1 /\ Front(store').frame = frame'
    <3> DEFINE D == States(nextEntity)
    <3>1. MaxFrame \in Nat /\ store \in Storage(MaxFrame, D) /\ Descending(store.entries)
      BY SyncTestAssumption DEF SyncInv, TypeInv
    <3> HIDE DEF D
    <3>2. /\ Within(store'.entries, store.entries) /\ store' \in Storage(MaxFrame, D)
          /\ Len(store'.entries) >= 1 /\ Front(store').frame = frame'
      BY <1>1, <3>1, RollbackFacts
    <3>3. Len(store'.entries) \in Nat
      BY <3>2, LenProperties DEF Storage
    <3> QED BY <3>2, <3>3
  <2>3. \A i \in 1 .. Len(store'.entries) :
           /\ store'.entries[i].frame \in Saved
           /\ View(store'.entries[i].data) = first[store'.entries[i].frame]
    BY <2>1, <2>2 DEF Within
  <2>4. View(state') = first[frame']
    <3>1. 1 \in 1 .. Len(store'.entries)
      BY <2>2
    <3>2. state' = store'.entries[1].data /\ store'.entries[1].frame = frame'
      BY <1>1, <2>2 DEF Get, Front
    <3> QED BY <2>3, <3>1, <3>2
  <2> QED BY <1>1, <1>3, <2>1, <2>3, <2>4 DEF ReplayInv
<1> QED BY <1>4, <1>5 DEF GameInv

LEMMA HandleAdvanceReplays ==
    ASSUME SyncInv, GameInv, NEW op \in Ops, HandleAdvance(op)
    PROVE  GameInv'
<1> DEFINE c == current - 1
<1>1. /\ NextRequest("Advance") /\ state' = Play(state, op)
      /\ script' = IF frame = Len(script) THEN Append(script, op) ELSE script
      /\ leaked' = (leaked \/ op # script'[frame + 1])
      /\ store' = store /\ first' = first /\ diverged' = diverged
  BY DEF HandleAdvance
<1>2. /\ c \in Nat /\ Saved \subseteq 0 .. c
  BY <1>1, HandlingFacts
<1>3. current' = current /\ requests # <<>>
  BY <1>1 DEF NextRequest
<1>4. /\ frame \in 0 .. c /\ frame' = frame + 1 /\ Saved' = Saved /\ frame \in Saved
      /\ (requests' = <<>> /\ frame = c) \/ (requests' # <<>> /\ frame < c)
  BY AdvanceFacts
<1>5. script \in Seq(Ops) /\ Len(script) = c
  BY <1>3 DEF GameInv, ScriptInv
<1>6. /\ script' \in Seq(Ops) /\ \A i \in 1 .. c : script'[i] = script[i]
      /\ Len(script') = IF frame = c THEN c + 1 ELSE c
  <2> HIDE DEF c
  <2>1. CASE frame = c
    <3>1. script' = Append(script, op)
      BY <1>1, <1>5, <2>1
    <3> QED BY <1>2, <1>5, <2>1, <3>1, AppendProperties
  <2>2. CASE frame # c
    BY <1>1, <1>5, <2>2
  <2> QED BY <2>1, <2>2
<1>7. ScriptInv'
  <2>1. Len(script') = IF requests' = <<>> THEN current ELSE current - 1
    <3>1. c + 1 = current
      BY DEF SyncInv, TypeInv
    <3> QED BY <1>2, <1>4, <1>6, <3>1
  <2> QED BY <1>3, <1>6, <2>1 DEF ScriptInv
<1>8. ASSUME ~ leaked' PROVE ReplayInv'
  <2>1. ~ leaked /\ op = script'[frame + 1]
    BY <1>1, <1>8
  <2>2. /\ diverged = {}
        /\ \A f \in Saved : f > 0 => first[f] = PlayView(first[f - 1], script[f])
        /\ View(state) = first[frame]
        /\ \A i \in 1 .. Len(store.entries) :
              /\ store.entries[i].frame \in Saved
              /\ View(store.entries[i].data) = first[store.entries[i].frame]
    BY <1>4, <2>1 DEF GameInv, ReplayInv
  <2>3. \A f \in Saved : f > 0 => script'[f] = script[f]
    <3> SUFFICES ASSUME NEW f \in Saved, f > 0 PROVE script'[f] = script[f]
      OBVIOUS
    <3>1. f \in 1 .. c
      <4> HIDE DEF c
      <4> QED BY <1>2
    <3> HIDE DEF c
    <3> QED BY <1>6, <3>1
  <2>4. View(state') = PlayView(first[frame], op)
    <3>1. nextEntity \in Nat \ {0} /\ state \in States(nextEntity)
      BY DEF SyncInv, TypeInv
    <3>2. View(Play(state, op)) = PlayView(View(state), op)
      BY <3>1, PlayFacts
    <3> QED BY <1>1, <2>2, <3>2
  <2>5. View(state') = PlayView(first[frame' - 1], script'[frame']) /\ frame' > 0
    <3>1. frame' - 1 = frame /\ frame' > 0
      BY <1>2, <1>4
    <3> QED BY <1>4, <2>1, <2>4, <3>1
  <2>6. frame' \in Saved => View(state') = first[frame']
    BY <2>2, <2>3, <2>5
  <2>7. \A f \in Saved : f > 0 => first[f] = PlayView(first[f - 1], script'[f])
    BY <2>2, <2>3
  <2> QED BY <1>1, <1>4, <2>2, <2>5, <2>6, <2>7 DEF ReplayInv
<1> QED BY <1>7, <1>8 DEF GameInv

LEMMA NextGameInv ==
    ASSUME SyncInv, GameInv, [Next]_vars
    PROVE  GameInv'
<1>1. CASE RunConsistent
  BY <1>1, RunConsistentReplays
<1>2. CASE RunMismatched
  BY <1>2, RunMismatchedReplays
<1>3. CASE HandleSave
  BY <1>3, HandleSaveReplays
<1>4. CASE HandleLoad
  BY <1>4, HandleLoadReplays
<1>5. CASE \E op \in Ops : HandleAdvance(op)
  BY <1>5, HandleAdvanceReplays
<1>6. CASE UNCHANGED vars
  BY <1>6 DEF vars, bevyVars, gameVars, GameInv, ScriptInv, ReplayInv, Saved
<1> QED BY <1>1, <1>2, <1>3, <1>4, <1>5, <1>6 DEF Next, RunSyncTest, HandleRequest

LEMMA GameInvAlways == Spec => []GameInv
<1>1. Init => GameInv
  BY InitGameInv
<1>2. SyncInv /\ GameInv /\ [Next]_vars => GameInv'
  BY NextGameInv
<1> QED BY <1>1, <1>2, SyncInvAlways, PTL DEF Spec

(***************************************************************************)
(* A game that does the same whenever it simulates a frame is never        *)
(* accused: loading a snapshot and simulating again, with whatever         *)
(* Entities Bevy hands out the second time, leads to the same views and so *)
(* to the same checksums, for every list of requests and every resource.   *)
(***************************************************************************)
THEOREM DeterminismAcceptedAlways == Spec => []DeterminismAccepted
<1>1. SyncInv /\ GameInv => DeterminismAccepted
  <2> SUFFICES ASSUME SyncInv, GameInv, ~ leaked
               PROVE  diverged = {} /\ mismatch = NoMismatch
    BY DEF DeterminismAccepted
  <2>1. diverged = {}
    BY DEF GameInv, ReplayInv
  <2>2. ASSUME mismatch # NoMismatch PROVE FALSE
    <3>1. requests = <<>> /\ Mismatched # {}
      BY <2>2 DEF SyncInv, ReportInv
    <3> QED BY <2>1, <3>1, IdleFacts
  <2> QED BY <2>1, <2>2
<1> QED BY <1>1, SyncInvAlways, GameInvAlways, PTL
=============================================================================
