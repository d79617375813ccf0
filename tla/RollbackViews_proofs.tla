------------------------ MODULE RollbackViews_proofs ------------------------
(***************************************************************************)
(* LoadWorld brings back the world that was saved, for any number of       *)
(* entities and frames and any window, as long as the systems of the game  *)
(* do not do what the runs WorldReparent, WorldRespawn and WorldChildOf    *)
(* show to break it.                                                       *)
(***************************************************************************)
EXTENDS RollbackWorld_proofs

(***************************************************************************)
(* The families: a parent is there and was registered before its child,    *)
(* and a marked parent has children that were marked no later.             *)
(***************************************************************************)
Kinship(E) ==
    \A c \in DOMAIN E : E[c].parent # Nobody =>
        LET p == E[c].parent
        IN  /\ p \in DOMAIN E
            /\ E[p].id < E[c].id
            /\ E[p].mark # NotMarked => E[c].mark # NotMarked /\ E[c].mark <= E[p].mark

\* No mark is of a later frame, and no entity was there before its RollbackId.
Dated(E, f) == \A e \in DOMAIN E : E[e].mark <= f /\ E[e].id <= e

(***************************************************************************)
(* The snapshot d and the world: what is seen now and was registered then  *)
(* was there then, and so was the parent of what was there; an Entity      *)
(* number belongs to one RollbackId, a later one to a later respawn.       *)
(***************************************************************************)
Seen(E, d) ==
    \A e \in Visible(E) : Registered(E[e].id, d.ordered) => E[e].id \in DOMAIN d.entities

Parented(E, d) ==
    \A c \in DOMAIN E : E[c].parent # Nobody /\ E[c].id \in DOMAIN d.entities =>
        LET r == E[E[c].parent].id
        IN  Registered(r, d.ordered) => r \in DOMAIN d.entities

Numbered(E, d) ==
    \A e \in DOMAIN E, r \in DOMAIN d.entities :
        /\ d.entities[r] = e => E[e].id = r
        /\ E[e].id = r => d.entities[r] <= e

\* What is registered in o and not after something registered in p is registered in p.
Down(o, p) ==
    \A i \in DOMAIN o, j \in DOMAIN p : o[i] <= p[j] => Registered(o[i], p)

\* The value of a component in a snapshot, the RollbackId of an Entity number in it.
Stored(values, r, missing) == IF r \in DOMAIN values THEN values[r] ELSE missing

IdIn(d, e) ==
    IF e = Nobody THEN Nobody
    ELSE IF \E r \in DOMAIN d.entities : d.entities[r] = e
         THEN CHOOSE r \in DOMAIN d.entities : d.entities[r] = e
         ELSE Dangling

\* One snapshot: each entity once, children after their parents, and the view
\* is what the plugins stored.
SnapshotTrue(d, n) ==
    /\ \A r \in DOMAIN d.entities : d.entities[r] \in r .. (n - 1)
    /\ \A r, q \in DOMAIN d.entities : d.entities[r] = d.entities[q] => r = q
    /\ \A r \in DOMAIN d.parents :
          \E q \in DOMAIN d.entities : d.entities[q] = d.parents[r] /\ q < r
    /\ d.target < n
    /\ d.view = [r \in DOMAIN d.entities |->
                    [component |-> Stored(d.components, r, Absent),
                     ref       |-> IdIn(d, Stored(d.refs, r, Nobody)),
                     parent    |-> IdIn(d, Stored(d.parents, r, Nobody))]]
    /\ d.aim = IdIn(d, d.target)

\* Two snapshots of one timeline, c the later one.
OneTimeline(c, d) ==
    /\ Down(c.ordered, d.ordered)
    /\ \A r \in DOMAIN d.entities : Registered(r, c.ordered)
    /\ \A r \in DOMAIN c.entities : Registered(r, d.ordered) => r \in DOMAIN d.entities

\* An entry of the storage, when the entities are E, o is registered and n is next.
EntryTrue(x, E, o, n) ==
    /\ SnapshotTrue(x.data, n)
    /\ Seen(E, x.data)
    /\ Parented(E, x.data)
    /\ Numbered(E, x.data)
    /\ Down(o, x.data.ordered)
    /\ \A r \in DOMAIN x.data.entities : Registered(r, o)

StoreTrue(s, E, o, n) ==
    /\ \A i \in 1 .. Len(s.entries) : EntryTrue(s.entries[i], E, o, n)
    /\ \A i, j \in 1 .. Len(s.entries) :
          i < j => OneTimeline(s.entries[i].data, s.entries[j].data)

\* The inductive invariant.
KinInv ==
    /\ Kinship(entities)
    /\ Dated(entities, frame)
    /\ target < nextEntity
    /\ StoreTrue(store, entities, ordered, nextEntity)
    /\ LoadRestoresComponents

\* What was registered in frame f and is not marked up to f was there in frame f.
Lasting(E, f, d) ==
    \A e \in DOMAIN E :
        Registered(E[e].id, d.ordered) /\ (E[e].mark = NotMarked \/ E[e].mark > f)
            => E[e].id \in DOMAIN d.entities

\* The inductive invariant when no entity has to be spawned again.
DeferInv ==
    /\ \A e \in DOMAIN entities : entities[e].id = e
    /\ \A i \in 1 .. Len(store.entries) :
          LET d == store.entries[i].data
          IN  /\ Lasting(entities, store.entries[i].frame, d)
              /\ \A r \in DOMAIN d.entities : d.entities[r] = r
              /\ store.entries[i].frame > confirmed => DOMAIN d.entities \subseteq DOMAIN entities
    /\ LoadRestoresView
    /\ DespawnIsDeferred

----------------------------------------------------------------------------
(* Families *)

(***************************************************************************)
(* The children of a member of a family belong to it, and a set that has   *)
(* the children of its members has their families.                         *)
(***************************************************************************)
LEMMA FamilyHasKids ==
    ASSUME NEW E, NEW x, NEW c \in DOMAIN E, E[c].parent \in Family(E, x)
    PROVE  c \in Family(E, x)
<1> DEFINE all == DOMAIN E \union {x}
           p == E[c].parent
<1> SUFFICES ASSUME NEW S \in SUBSET all,
                    x \in S /\ \A y \in DOMAIN E : E[y].parent \in S => y \in S
             PROVE  c \in S
  BY DEF Family
<1>1. p \in S
  BY DEF Family
<1> QED BY <1>1

LEMMA FamilyWithin ==
    ASSUME NEW E, NEW S \in SUBSET DOMAIN E, NEW x \in S,
           \A c \in DOMAIN E : E[c].parent \in S => c \in S
    PROVE  Family(E, x) \subseteq S
<1> SUFFICES ASSUME NEW y \in Family(E, x) PROVE y \in S
  OBVIOUS
<1>1. S \in SUBSET (DOMAIN E \union {x})
  OBVIOUS
<1>2. \A T \in SUBSET (DOMAIN E \union {x}) :
         (x \in T /\ \A c \in DOMAIN E : E[c].parent \in T => c \in T) => y \in T
  BY DEF Family
<1> QED BY <1>1, <1>2

(***************************************************************************)
(* A despawn takes whole families, so who is left has its parent left.     *)
(***************************************************************************)
LEMMA DespawnKin ==
    ASSUME NEW E, NEW doomed, Kinship(E)
    PROVE  Kinship(Despawn(E, doomed))
<1> DEFINE dead == UNION {Family(E, e) : e \in doomed}
           R == Despawn(E, doomed)
<1>1. R = [e \in DOMAIN E \ dead |-> E[e]]
  BY DEF Despawn
<1>2. ASSUME NEW c \in DOMAIN E, E[c].parent \in dead
      PROVE  c \in dead
  <2>1. PICK e \in doomed : E[c].parent \in Family(E, e)
    BY <1>2
  <2>2. c \in Family(E, e)
    BY <2>1, FamilyHasKids
  <2> QED BY <2>2
<1> HIDE DEF dead, R
<1>3. DOMAIN R = DOMAIN E \ dead /\ \A e \in DOMAIN R : R[e] = E[e]
  BY <1>1
<1>4. Kinship(R)
  <2> SUFFICES ASSUME NEW c \in DOMAIN R, R[c].parent # Nobody
               PROVE  LET p == R[c].parent
                      IN  /\ p \in DOMAIN R
                          /\ R[p].id < R[c].id
                          /\ R[p].mark # NotMarked => R[c].mark # NotMarked /\ R[c].mark <= R[p].mark
    BY DEF Kinship
  <2> DEFINE p == E[c].parent
  <2>1. c \in DOMAIN E /\ c \notin dead /\ R[c] = E[c]
    BY <1>3
  <2>2. /\ p \in DOMAIN E
        /\ E[p].id < E[c].id
        /\ E[p].mark # NotMarked => E[c].mark # NotMarked /\ E[c].mark <= E[p].mark
    BY <2>1 DEF Kinship
  <2>3. p \in DOMAIN R /\ R[p] = E[p]
    BY <1>2, <1>3, <2>1, <2>2
  <2> QED BY <2>1, <2>2, <2>3
<1> QED BY <1>4 DEF R

(***************************************************************************)
(* What has become of the entities E in one frame: marks are only set, and *)
(* a new parent is one that is seen.                                       *)
(***************************************************************************)
Aged(R, E, m) ==
    /\ DOMAIN R \subseteq DOMAIN E
    /\ \A e \in DOMAIN R :
          /\ R[e].id = E[e].id
          /\ R[e].mark \in {E[e].mark, m}
          /\ R[e].parent = E[e].parent \/ R[e].parent \in Visible(E)

LEMMA AgedTrue ==
    ASSUME NEW E, NEW R, NEW m \in Nat \ {0}, NEW d, Aged(R, E, m), Kinship(R),
           Seen(E, d), Parented(E, d), Numbered(E, d)
    PROVE  Seen(R, d) /\ Parented(R, d) /\ Numbered(R, d)
<1>1. Seen(R, d)
  BY DEF Seen, Aged, Visible, NotMarked
<1>2. Parented(R, d)
  <2> SUFFICES ASSUME NEW c \in DOMAIN R, R[c].parent # Nobody, R[c].id \in DOMAIN d.entities,
                      Registered(R[R[c].parent].id, d.ordered)
               PROVE  R[R[c].parent].id \in DOMAIN d.entities
    BY DEF Parented
  <2> DEFINE p == R[c].parent
  <2>1. p \in DOMAIN R
    BY DEF Kinship
  <2>2. c \in DOMAIN E /\ R[c].id = E[c].id /\ R[p].id = E[p].id
    BY <2>1 DEF Aged
  <2>3. CASE p = E[c].parent
    BY <2>2, <2>3 DEF Parented
  <2>4. CASE p \in Visible(E)
    BY <2>2, <2>4 DEF Seen
  <2> QED BY <2>3, <2>4 DEF Aged
<1>3. Numbered(R, d)
  BY DEF Numbered, Aged
<1> QED BY <1>1, <1>2, <1>3

LEMMA AgedDated ==
    ASSUME NEW E, NEW R, NEW f \in Nat, E \in [DOMAIN E -> EntityState], Aged(R, E, f + 1),
           Dated(E, f)
    PROVE  Dated(R, f + 1)
<1> SUFFICES ASSUME NEW e \in DOMAIN R
             PROVE  R[e].mark <= f + 1 /\ R[e].id <= e
  BY DEF Dated
<1>1. /\ e \in DOMAIN E /\ R[e].id = E[e].id
      /\ R[e].mark = E[e].mark \/ R[e].mark = f + 1
  BY DEF Aged
<1>2. E[e].mark <= f /\ E[e].id <= e
  BY <1>1 DEF Dated
<1>3. E[e].mark \in Nat
  BY <1>1 DEF EntityState
<1> QED BY <1>1, <1>2, <1>3

----------------------------------------------------------------------------
(* AdvanceWorld *)

LEMMA DespawnConfirmedTrue ==
    ASSUME WorldInv, Kinship(entities), NEW m
    PROVE  /\ Kinship(DespawnConfirmed) /\ Aged(DespawnConfirmed, entities, m)
           /\ \A e \in DOMAIN DespawnConfirmed : DespawnConfirmed[e] = entities[e]
<1> DEFINE doomed == {e \in DOMAIN entities :
                         entities[e].mark # NotMarked /\ entities[e].mark <= confirmed}
<1>1. CASE confirmed = lastSeen
  BY <1>1 DEF DespawnConfirmed, Aged
<1>2. CASE confirmed # lastSeen
  <2> DEFINE R == Despawn(entities, doomed)
  <2>1. DespawnConfirmed = R
    BY <1>2 DEF DespawnConfirmed
  <2> HIDE DEF doomed
  <2>2. /\ DOMAIN R \subseteq DOMAIN entities
        /\ \A e \in DOMAIN R : R[e] = entities[e]
        /\ Kinship(R)
    BY DespawnFacts, DespawnKin
  <2> HIDE DEF R
  <2> QED BY <2>1, <2>2 DEF Aged
<1> QED BY <1>1, <1>2

(***************************************************************************)
(* A frame in which no entity is spawned.                                  *)
(***************************************************************************)
LEMMA AdvanceTrue ==
    ASSUME WorldInv, KinInv, NEW E, AdvanceWorld(E), Aged(E, DespawnConfirmed, frame + 1),
           Kinship(E), UNCHANGED <<nextEntity, ordered>>, target' < nextEntity
    PROVE  KinInv'
<1>1. /\ frame \in 0 .. MaxFrame /\ MaxFrame \in Nat /\ frame + 1 \in Nat
      /\ store \in Storage(MaxFrame, DataOf(store))
      /\ entities \in [DOMAIN entities -> EntityState]
  BY RollbackWorldAssumption DEF WorldInv, StoreOK, WorldOK
<1>2. Aged(E, entities, frame + 1)
  <2>1. /\ DOMAIN DespawnConfirmed \subseteq DOMAIN entities
        /\ \A e \in DOMAIN DespawnConfirmed : DespawnConfirmed[e] = entities[e]
    BY DespawnConfirmedTrue DEF Aged, KinInv
  <2> QED BY <2>1 DEF Aged, Visible
<1>3. /\ frame' = frame + 1 /\ entities' = E /\ ~ loaded' /\ store' = store
      /\ nextEntity' = nextEntity /\ ordered' = ordered
  BY DEF AdvanceWorld
<1>4. Dated(E, frame + 1)
  BY <1>1, <1>2, AgedDated DEF KinInv
<1>5. ASSUME NEW i \in 1 .. Len(store.entries)
      PROVE  EntryTrue(store.entries[i], E, ordered, nextEntity)
  <2> DEFINE x == store.entries[i]
             d == x.data
  <2>2. EntryTrue(x, entities, ordered, nextEntity)
    BY DEF KinInv, StoreTrue
  <2> HIDE DEF x
  <2>3. Seen(E, d) /\ Parented(E, d) /\ Numbered(E, d)
    <3>1. Seen(entities, d) /\ Parented(entities, d) /\ Numbered(entities, d)
      BY <2>2 DEF EntryTrue
    <3>2. frame + 1 \in Nat \ {0}
      BY <1>1
    <3> HIDE DEF d
    <3> QED BY <1>2, <3>1, <3>2, AgedTrue
  <2>4. EntryTrue(x, E, ordered, nextEntity)
    BY <2>2, <2>3 DEF EntryTrue
  <2> QED BY <2>4 DEF x
<1>6. StoreTrue(store, E, ordered, nextEntity)
  BY <1>5 DEF KinInv, StoreTrue
<1>7. LoadRestoresComponents'
  BY <1>3 DEF LoadRestoresComponents
<1>8. StoreTrue(store', entities', ordered', nextEntity')
  BY <1>3, <1>6
<1> QED BY <1>3, <1>4, <1>7, <1>8 DEF KinInv

(***************************************************************************)
(* Systems that change the components of one entity.                       *)
(***************************************************************************)
LEMMA SameKin ==
    ASSUME NEW E, NEW R, Kinship(E), Refitted(R, E),
           \A e \in DOMAIN E : R[e].parent = E[e].parent
    PROVE  Kinship(R)
<1> SUFFICES ASSUME NEW c \in DOMAIN R, R[c].parent # Nobody
             PROVE  LET p == R[c].parent
                    IN  /\ p \in DOMAIN R
                        /\ R[p].id < R[c].id
                        /\ R[p].mark # NotMarked => R[c].mark # NotMarked /\ R[c].mark <= R[p].mark
  BY DEF Kinship
<1> DEFINE p == E[c].parent
<1>1. DOMAIN R = DOMAIN E /\ R[c].parent = p /\ R[c].id = E[c].id /\ R[c].mark = E[c].mark
  BY DEF Refitted
<1>2. /\ p \in DOMAIN E
      /\ E[p].id < E[c].id
      /\ E[p].mark # NotMarked => E[c].mark # NotMarked /\ E[c].mark <= E[p].mark
  BY <1>1 DEF Kinship
<1>3. R[p].id = E[p].id /\ R[p].mark = E[p].mark
  BY <1>1, <1>2 DEF Refitted
<1> QED BY <1>1, <1>2, <1>3

LEMMA ParentKept ==
    ASSUME NEW E, E \in [DOMAIN E -> EntityState], NEW e \in DOMAIN E, NEW v
    PROVE  /\ \A x \in DOMAIN E : [E EXCEPT ![e].component = v][x].parent = E[x].parent
           /\ \A x \in DOMAIN E : [E EXCEPT ![e].ref = v][x].parent = E[x].parent
           /\ [E EXCEPT ![e].parent = v][e].parent = v
           /\ \A x \in DOMAIN E \ {e} : [E EXCEPT ![e].parent = v][x].parent = E[x].parent
BY DEF EntityState

LEMMA AdoptKin ==
    ASSUME NEW E, E \in [DOMAIN E -> EntityState], Kinship(E), NEW e \in Visible(E),
           NEW p \in Visible(E), E[p].id < E[e].id, p \in Nat
    PROVE  Kinship([E EXCEPT ![e].parent = p])
<1> DEFINE R == [E EXCEPT ![e].parent = p]
<1>1. e \in DOMAIN E /\ p \in DOMAIN E /\ E[p].mark = NotMarked
  BY DEF Visible
<1>2. /\ R[e].parent = p
      /\ \A x \in DOMAIN E \ {e} : R[x].parent = E[x].parent
      /\ Refitted(R, E)
  <2>1. R[e].parent = p /\ \A x \in DOMAIN E \ {e} : R[x].parent = E[x].parent
    BY <1>1, ParentKept
  <2>2. Refitted(R, E)
    BY <1>1, FieldSet
  <2> QED BY <2>1, <2>2
<1> HIDE DEF R
<1>3. /\ DOMAIN R = DOMAIN E
      /\ \A x \in DOMAIN E : R[x].id = E[x].id /\ R[x].mark = E[x].mark
  BY <1>2 DEF Refitted
<1>4. Kinship(R)
  <2> SUFFICES ASSUME NEW c \in DOMAIN E, R[c].parent # Nobody
               PROVE  LET q == R[c].parent
                      IN  /\ q \in DOMAIN E
                          /\ R[q].id < R[c].id
                          /\ R[q].mark # NotMarked => R[c].mark # NotMarked /\ R[c].mark <= R[q].mark
    BY <1>3 DEF Kinship
  <2>1. CASE c = e
    BY <1>1, <1>2, <1>3, <2>1
  <2>2. CASE c # e
    <3> DEFINE q == E[c].parent
    <3>1. R[c].parent = q
      BY <1>2, <2>2
    <3>2. /\ q \in DOMAIN E
          /\ E[q].id < E[c].id
          /\ E[q].mark # NotMarked => E[c].mark # NotMarked /\ E[c].mark <= E[q].mark
      BY <3>1 DEF Kinship
    <3> QED BY <1>3, <3>1, <3>2
  <2> QED BY <2>1, <2>2
<1> QED BY <1>4 DEF R

(***************************************************************************)
(* The parent of a member of a family, other than the first, belongs to it.*)
(***************************************************************************)
LEMMA FamilyParent ==
    ASSUME NEW E, NEW e, NEW c \in Family(E, e), c # e
    PROVE  E[c].parent \in Family(E, e)
<1> SUFFICES ASSUME E[c].parent \notin Family(E, e)
             PROVE  FALSE
  OBVIOUS
<1> DEFINE F == Family(E, e)
           S == F \ {c}
<1>1. e \in S
  BY OwnFamily
<1>2. S \in SUBSET (DOMAIN E \union {e})
  BY DEF Family
<1>3. \A x \in DOMAIN E : E[x].parent \in S => x \in S
  BY FamilyHasKids
<1>4. \A T \in SUBSET (DOMAIN E \union {e}) :
         (e \in T /\ \A x \in DOMAIN E : E[x].parent \in T => x \in T) => c \in T
  BY DEF Family
<1> HIDE DEF F
<1>5. c \in S
  BY <1>1, <1>2, <1>3, <1>4
<1> QED BY <1>5

(***************************************************************************)
(* despawn_rollback marks a family, its members that are marked already    *)
(* included.                                                               *)
(***************************************************************************)
LEMMA DespawnRollbackTrue ==
    ASSUME NEW E, E \in [DOMAIN E -> EntityState], Kinship(E), NEW e \in Visible(E),
           NEW f \in Nat \ {0}
    PROVE  LET R == DespawnRollback(E, e, f)
           IN  Aged(R, E, f) /\ Kinship(R)
<1> DEFINE R == DespawnRollback(E, e, f)
           F == Family(E, e)
<1>1. CASE confirmed < f
  <2>1. R = [x \in DOMAIN E |-> IF x \in F THEN [E[x] EXCEPT !.mark = f] ELSE E[x]]
    BY <1>1 DEF DespawnRollback
  <2>2. \A x \in F : x = e \/ E[x].parent \in F
    BY FamilyParent
  <2>3. \A c \in DOMAIN E : E[c].parent \in F => c \in F
    BY FamilyHasKids
  <2> HIDE DEF R, F
  <2>4. DOMAIN R = DOMAIN E
    BY <2>1
  <2>5. ASSUME NEW x \in DOMAIN E
        PROVE  /\ R[x].id = E[x].id /\ R[x].parent = E[x].parent
               /\ x \in F => R[x].mark = f
               /\ x \notin F => R[x].mark = E[x].mark
    <3>1. CASE x \in F
      <4>1. R[x] = [E[x] EXCEPT !.mark = f]
        BY <2>1, <3>1
      <4>2. E[x] \in EntityState
        OBVIOUS
      <4> QED BY <3>1, <4>1, <4>2 DEF EntityState
    <3>2. CASE x \notin F
      BY <2>1, <3>2
    <3> QED BY <3>1, <3>2
  <2>6. Aged(R, E, f)
    BY <2>4, <2>5 DEF Aged
  <2>7. Kinship(R)
    <3> SUFFICES ASSUME NEW c \in DOMAIN E, R[c].parent # Nobody
                 PROVE  LET q == R[c].parent
                        IN  /\ q \in DOMAIN E
                            /\ R[q].id < R[c].id
                            /\ R[q].mark # NotMarked =>
                                  R[c].mark # NotMarked /\ R[c].mark <= R[q].mark
      BY <2>4 DEF Kinship
    <3> DEFINE q == E[c].parent
    <3>1. R[c].parent = q
      BY <2>5
    <3>2. /\ q \in DOMAIN E
          /\ E[q].id < E[c].id
          /\ E[q].mark # NotMarked => E[c].mark # NotMarked /\ E[c].mark <= E[q].mark
      BY <3>1 DEF Kinship
    <3>3. R[q].id < R[c].id
      BY <2>5, <3>2
    <3>4. R[q].mark # NotMarked => R[c].mark # NotMarked /\ R[c].mark <= R[q].mark
      <4>1. CASE q \in F
        <5>1. R[q].mark = f /\ R[c].mark = f
          BY <2>3, <2>5, <3>2, <4>1
        <5> QED BY <5>1 DEF NotMarked
      <4>2. CASE q \notin F /\ c \in F
        <5>1. E[q].mark = NotMarked
          BY <2>2, <3>2, <4>2 DEF Visible
        <5> QED BY <2>5, <3>2, <4>2, <5>1
      <4>3. CASE q \notin F /\ c \notin F
        BY <2>5, <3>2, <4>3
      <4> QED BY <4>1, <4>2, <4>3
    <3> QED BY <3>1, <3>2, <3>3, <3>4
  <2> QED BY <2>6, <2>7 DEF R
<1>2. CASE ~ (confirmed < f)
  <2>1. R = Despawn(E, {e})
    BY <1>2 DEF DespawnRollback
  <2>2. /\ DOMAIN Despawn(E, {e}) \subseteq DOMAIN E
        /\ \A x \in DOMAIN Despawn(E, {e}) : Despawn(E, {e})[x] = E[x]
        /\ Kinship(Despawn(E, {e}))
    BY DespawnFacts, DespawnKin
  <2> HIDE DEF R
  <2>3. Aged(R, E, f) /\ Kinship(R)
    BY <2>1, <2>2 DEF Aged
  <2> QED BY <2>3 DEF R
<1> QED BY <1>1, <1>2

(***************************************************************************)
(* The systems of the game, one by one, when children are adopted only by  *)
(* older entities.                                                         *)
(***************************************************************************)
Orderly == "reparent" \notin GameOps

LEMMA GameTrue ==
    ASSUME Orderly, WorldInv, KinInv,
           \/ AdvanceQuiet
           \/ \E e \in Ents, c \in Components \union {Absent} : AdvanceChange(e, c)
           \/ \E e, other \in Ents : AdvanceRefer(e, other)
           \/ \E e \in Ents : AdvanceAim(e)
           \/ \E e, parent \in Ents : AdvanceReparent(e, parent)
           \/ \E e \in Ents : AdvanceDespawn(e)
           \/ \E e \in Ents : AdvanceDespawnRollback(e)
    PROVE  KinInv'
<1> DEFINE E == DespawnConfirmed
           m == frame + 1
<1>1. /\ m \in Nat \ {0} /\ target \in Nat /\ target < nextEntity /\ Ents \subseteq Nat
      /\ nextEntity \in Nat
  BY RollbackWorldAssumption DEF WorldInv, KinInv, Ents
<1>2. /\ E \in [DOMAIN E -> EntityState] /\ WorldOK(E, nextEntity)
      /\ Kinship(E)
  <2>1. Evolved(E, entities, NotMarked)
    BY DespawnConfirmedFacts
  <2>2. WorldOK(E, nextEntity)
    BY <1>1, <2>1, EvolvedKeeps DEF WorldInv
  <2>3. Kinship(E)
    BY DespawnConfirmedTrue DEF KinInv
  <2> QED BY <2>1, <2>2, <2>3 DEF Evolved
<1>3. Visible(E) \subseteq DOMAIN E /\ \A e \in DOMAIN E : e < nextEntity
  BY <1>1, <1>2 DEF Visible, WorldOK
<1>4. Aged(E, E, m)
  BY DEF Aged
<1>5. ASSUME NEW R, Refitted(R, E),
             \A e \in DOMAIN E : R[e].parent = E[e].parent \/ R[e].parent \in Visible(E)
      PROVE  Aged(R, E, m)
  BY <1>5 DEF Refitted, Aged
<1>6. CASE AdvanceQuiet
  <2>1. AdvanceWorld(E) /\ UNCHANGED <<nextEntity, ordered>> /\ target' = target
    BY <1>6 DEF AdvanceQuiet
  <2> QED BY <1>1, <1>2, <1>4, <2>1, AdvanceTrue
<1>7. ASSUME NEW e \in Ents, NEW c \in Components \union {Absent}, AdvanceChange(e, c)
      PROVE  KinInv'
  <2> DEFINE R == [E EXCEPT ![e].component = c]
  <2>1. /\ AdvanceWorld(R) /\ UNCHANGED <<nextEntity, ordered>> /\ target' = target
        /\ e \in DOMAIN E
    BY <1>3, <1>7 DEF AdvanceChange
  <2>2. Refitted(R, E) /\ \A x \in DOMAIN E : R[x].parent = E[x].parent
    <3> HIDE DEF E
    <3> QED BY <1>2, <2>1, FieldSet, ParentKept
  <2> HIDE DEF R
  <2>3. Aged(R, E, m) /\ Kinship(R)
    BY <1>2, <1>5, <2>2, SameKin
  <2> QED BY <1>1, <2>1, <2>3, AdvanceTrue
<1>8. ASSUME NEW e \in Ents, NEW other \in Ents, AdvanceRefer(e, other)
      PROVE  KinInv'
  <2> DEFINE R == [E EXCEPT ![e].ref = other]
  <2>1. /\ AdvanceWorld(R) /\ UNCHANGED <<nextEntity, ordered>> /\ target' = target
        /\ e \in DOMAIN E /\ other \in Nat
    BY <1>1, <1>3, <1>8 DEF AdvanceRefer
  <2>2. Refitted(R, E) /\ \A x \in DOMAIN E : R[x].parent = E[x].parent
    <3> HIDE DEF E
    <3> QED BY <1>2, <2>1, FieldSet, ParentKept
  <2> HIDE DEF R
  <2>3. Aged(R, E, m) /\ Kinship(R)
    BY <1>2, <1>5, <2>2, SameKin
  <2> QED BY <1>1, <2>1, <2>3, AdvanceTrue
<1>9. ASSUME NEW e \in Ents, AdvanceAim(e)
      PROVE  KinInv'
  <2>1. AdvanceWorld(E) /\ UNCHANGED <<nextEntity, ordered>> /\ target' < nextEntity
    BY <1>3, <1>9 DEF AdvanceAim
  <2> QED BY <1>2, <1>4, <2>1, AdvanceTrue
<1>10. ASSUME NEW e \in Ents, NEW parent \in Ents, AdvanceReparent(e, parent)
       PROVE  KinInv'
  <2> DEFINE R == [E EXCEPT ![e].parent = parent]
  <2>1. /\ AdvanceWorld(R) /\ UNCHANGED <<nextEntity, ordered>> /\ target' = target
        /\ e \in Visible(E) /\ parent \in Visible(E) /\ parent \in Nat
        /\ E[parent].id < E[e].id
    BY <1>1, <1>10 DEF AdvanceReparent, Orderly
  <2>2. /\ Refitted(R, E) /\ Kinship(R)
        /\ \A x \in DOMAIN E : R[x].parent = E[x].parent \/ R[x].parent \in Visible(E)
    <3> HIDE DEF E
    <3>1. Refitted(R, E)
      BY <1>2, <1>3, <2>1, FieldSet
    <3>2. Kinship(R)
      BY <1>2, <2>1, AdoptKin
    <3>3. R[e].parent = parent /\ \A x \in DOMAIN E \ {e} : R[x].parent = E[x].parent
      BY <1>2, <1>3, <2>1, ParentKept
    <3> QED BY <2>1, <3>1, <3>2, <3>3
  <2> HIDE DEF R
  <2>3. Aged(R, E, m)
    BY <1>5, <2>2
  <2> QED BY <1>1, <2>1, <2>2, <2>3, AdvanceTrue
<1>11. ASSUME NEW e \in Ents, AdvanceDespawn(e)
       PROVE  KinInv'
  <2> DEFINE R == Despawn(E, {e})
  <2>1. AdvanceWorld(R) /\ UNCHANGED <<nextEntity, ordered>> /\ target' = target
    BY <1>11 DEF AdvanceDespawn
  <2>2. /\ DOMAIN R \subseteq DOMAIN E
        /\ \A x \in DOMAIN R : R[x] = E[x]
        /\ Kinship(R)
    BY <1>2, DespawnFacts, DespawnKin
  <2> HIDE DEF R
  <2>3. Aged(R, E, m)
    BY <2>2 DEF Aged
  <2> QED BY <1>1, <2>1, <2>2, <2>3, AdvanceTrue
<1>12. ASSUME NEW e \in Ents, AdvanceDespawnRollback(e)
       PROVE  KinInv'
  <2> DEFINE R == DespawnRollback(E, e, m)
  <2>1. /\ AdvanceWorld(R) /\ UNCHANGED <<nextEntity, ordered>> /\ target' = target
        /\ e \in Visible(E)
    BY <1>12 DEF AdvanceDespawnRollback
  <2>2. Aged(R, E, m) /\ Kinship(R)
    BY <1>1, <1>2, <2>1, DespawnRollbackTrue
  <2> HIDE DEF R
  <2> QED BY <1>1, <2>1, <2>2, AdvanceTrue
<1> QED BY <1>6, <1>7, <1>8, <1>9, <1>10, <1>11, <1>12

(***************************************************************************)
(* More entities leave the snapshots true.                                 *)
(***************************************************************************)
LEMMA LaterTrue ==
    ASSUME NEW n \in Nat, NEW m \in Nat, n <= m, NEW d, SnapshotOK(d, n), SnapshotTrue(d, n)
    PROVE  SnapshotTrue(d, m)
<1>1. d.target \in Nat /\ \A r \in DOMAIN d.entities : r \in 1 .. (n - 1)
  BY DEF SnapshotOK
<1>2. d.target < n /\ \A r \in DOMAIN d.entities : d.entities[r] \in r .. (n - 1)
  BY DEF SnapshotTrue
<1>3. d.target < m
  BY <1>1, <1>2
<1>4. \A r \in DOMAIN d.entities : d.entities[r] \in r .. (m - 1)
  BY <1>1, <1>2
<1> QED BY <1>3, <1>4, Zenon DEF SnapshotTrue

(***************************************************************************)
(* A frame in which an entity is spawned: its number and its RollbackId    *)
(* are in no snapshot.                                                     *)
(***************************************************************************)
LEMMA SpawnTrue ==
    ASSUME WorldInv, KinInv, NEW c \in Components, NEW parent \in Ents \union {Nobody},
           AdvanceSpawn(c, parent)
    PROVE  KinInv'
<1> DEFINE E == DespawnConfirmed
           n == nextEntity
           s == NewEntity(n, c, parent)
           R == [e \in DOMAIN E \union {n} |-> IF e = n THEN NewEntity(e, c, parent) ELSE E[e]]
<1>1. /\ frame \in 0 .. MaxFrame /\ MaxFrame \in Nat /\ n \in Nat \ {0}
      /\ target \in Nat /\ target < n
      /\ store \in Storage(MaxFrame, DataOf(store))
      /\ entities \in [DOMAIN entities -> EntityState]
      /\ OrderOK(ordered, n)
  BY RollbackWorldAssumption DEF WorldInv, StoreOK, WorldOK, KinInv
<1>2. /\ frame' = frame + 1 /\ entities' = R /\ store' = store /\ ~ loaded'
      /\ nextEntity' = n + 1 /\ ordered' = Append(ordered, n) /\ target' = target
      /\ parent # Nobody => parent \in Visible(E)
  BY DEF AdvanceSpawn, AdvanceWorld
<1>3. Kinship(E) /\ Aged(E, entities, frame + 1) /\ Evolved(E, entities, NotMarked)
  BY DespawnConfirmedTrue, DespawnConfirmedFacts DEF KinInv
<1>4. WorldOK(E, n) /\ E \in [DOMAIN E -> EntityState]
  BY <1>1, <1>3, EvolvedKeeps DEF WorldInv, Evolved
<1>5. s.id = n /\ s.mark = NotMarked /\ s.parent = parent
  BY DEF NewEntity
<1>6. \A e \in DOMAIN E : e \in 1 .. (n - 1) /\ E[e].id \in 1 .. (n - 1) /\ E[e].mark \in Nat
  BY <1>4 DEF WorldOK, EntityState
<1>7. /\ DOMAIN R = DOMAIN E \union {n} /\ R[n] = s
      /\ \A e \in DOMAIN E : R[e] = E[e]
  BY <1>1, <1>6
<1>8. \A e \in Visible(E) : e \in DOMAIN E /\ E[e].mark = NotMarked
  BY DEF Visible
<1> HIDE DEF E, R, s
<1>9. Kinship(R)
  <2> SUFFICES ASSUME NEW x \in DOMAIN R, R[x].parent # Nobody
               PROVE  LET q == R[x].parent
                      IN  /\ q \in DOMAIN R
                          /\ R[q].id < R[x].id
                          /\ R[q].mark # NotMarked =>
                                R[x].mark # NotMarked /\ R[x].mark <= R[q].mark
    BY DEF Kinship
  <2>1. CASE x = n
    <3>1. R[x].parent = parent /\ parent \in DOMAIN E /\ E[parent].mark = NotMarked
      BY <1>2, <1>5, <1>7, <1>8, <2>1
    <3>2. R[parent] = E[parent] /\ R[x].id = n
      BY <1>5, <1>7, <2>1, <3>1
    <3>3. E[parent].id < n
      BY <1>1, <1>6, <3>1
    <3> QED BY <1>7, <3>1, <3>2, <3>3
  <2>2. CASE x \in DOMAIN E
    <3> DEFINE q == E[x].parent
    <3>1. R[x] = E[x]
      BY <1>7, <2>2
    <3>2. /\ q \in DOMAIN E
          /\ E[q].id < E[x].id
          /\ E[q].mark # NotMarked => E[x].mark # NotMarked /\ E[x].mark <= E[q].mark
      BY <1>3, <2>2, <3>1 DEF Kinship
    <3> QED BY <1>7, <3>1, <3>2
  <2> QED BY <1>7, <2>1, <2>2
<1>10. Dated(R, frame + 1)
  <2>1. Dated(E, frame + 1)
    <3>1. frame \in Nat
      BY <1>1
    <3> QED BY <1>1, <1>3, <3>1, AgedDated DEF KinInv
  <2>2. s.mark <= frame + 1 /\ s.id <= n
    BY <1>1, <1>5 DEF NotMarked
  <2> QED BY <1>7, <2>1, <2>2 DEF Dated
<1>11. ASSUME NEW i \in 1 .. Len(store.entries)
       PROVE  EntryTrue(store.entries[i], R, Append(ordered, n), n + 1)
  <2> DEFINE x == store.entries[i]
             d == x.data
  <2>1. SnapshotOK(d, n)
    BY DEF WorldInv, StoreOK
  <2>2. EntryTrue(x, entities, ordered, n)
    BY DEF KinInv, StoreTrue
  <2> HIDE DEF x
  <2>3. /\ SnapshotTrue(d, n) /\ Seen(entities, d) /\ Parented(entities, d)
        /\ Numbered(entities, d) /\ Down(ordered, d.ordered)
    BY <2>2 DEF EntryTrue
  <2> HIDE DEF d
  <2>4. Seen(E, d) /\ Parented(E, d) /\ Numbered(E, d)
    <3>1. frame + 1 \in Nat \ {0}
      BY <1>1
    <3> QED BY <1>3, <2>3, <3>1, AgedTrue
  <2>5. /\ Len(d.ordered) \in Nat /\ DOMAIN d.ordered = 1 .. Len(d.ordered)
        /\ \A j \in DOMAIN d.ordered : d.ordered[j] \in 1 .. (n - 1)
    BY <2>1, LenProperties, ElementOfSeq DEF SnapshotOK, OrderOK
  <2>6. /\ \A r \in DOMAIN d.entities : r \in 1 .. (n - 1)
        /\ \A r \in DOMAIN d.entities : d.entities[r] \in r .. (n - 1)
    BY <2>1, <2>3 DEF SnapshotOK, SnapshotTrue
  <2>7. ~ Registered(n, d.ordered)
    BY <1>1, <2>5 DEF Registered
  <2>8. Seen(R, d)
    BY <1>5, <1>7, <2>4, <2>7 DEF Seen, Visible
  <2>9. \A r \in DOMAIN d.entities : r # n /\ d.entities[r] # n
    BY <1>1, <2>6
  <2>10. Numbered(R, d)
    <3> SUFFICES ASSUME NEW e \in DOMAIN R, NEW r \in DOMAIN d.entities
                 PROVE  /\ d.entities[r] = e => R[e].id = r
                        /\ R[e].id = r => d.entities[r] <= e
      BY DEF Numbered
    <3>1. CASE e = n
      BY <1>5, <1>7, <2>9, <3>1
    <3>2. CASE e \in DOMAIN E
      BY <1>7, <2>4, <3>2 DEF Numbered
    <3> QED BY <1>7, <3>1, <3>2
  <2>11. Down(Append(ordered, n), d.ordered)
    <3> SUFFICES ASSUME NEW a \in DOMAIN Append(ordered, n), NEW b \in DOMAIN d.ordered,
                        Append(ordered, n)[a] <= d.ordered[b]
                 PROVE  Registered(Append(ordered, n)[a], d.ordered)
      BY DEF Down
    <3> DEFINE L == Len(ordered)
               p == Append(ordered, n)
    <3>1. /\ L \in Nat /\ DOMAIN p = 1 .. (L + 1) /\ DOMAIN ordered = 1 .. L
          /\ \A k \in 1 .. L : p[k] = ordered[k]
          /\ p[L + 1] = n
      <4>1. ordered \in Seq(1 .. n) /\ n \in 1 .. n
        <5>1. OrderOK(ordered, n + 1) /\ n + 1 - 1 = n
          <6>1. n \in Nat /\ n + 1 \in Nat /\ n <= n + 1
            BY <1>1
          <6> QED BY <1>1, <6>1, LaterOrder
        <5> QED BY <1>1, <5>1 DEF OrderOK
      <4> QED BY <4>1, AppendProperties, LenProperties
    <3> HIDE DEF p, L
    <3>2. p[a] <= d.ordered[b]
      BY DEF p
    <3>3. a \in 1 .. L \/ a = L + 1
      BY <3>1 DEF p
    <3>4. a # L + 1
      BY <1>1, <2>5, <3>1, <3>2
    <3>5. a \in DOMAIN ordered /\ p[a] = ordered[a]
      BY <3>1, <3>3, <3>4
    <3>6. Registered(ordered[a], d.ordered)
      BY <2>3, <3>2, <3>5 DEF Down
    <3> QED BY <3>5, <3>6 DEF p
  <2>12. SnapshotTrue(d, n + 1)
    <3>1. n \in Nat /\ n + 1 \in Nat /\ n <= n + 1
      BY <1>1
    <3> QED BY <2>1, <2>3, <3>1, LaterTrue
  <2>13. \A r \in DOMAIN d.entities : Registered(r, Append(ordered, n))
    <3>1. \A r : Registered(r, ordered) => Registered(r, Append(ordered, n))
      BY <1>1, Appended
    <3>2. \A r \in DOMAIN d.entities : Registered(r, ordered)
      BY <2>2 DEF EntryTrue, d
    <3> QED BY <3>1, <3>2
  <2>14. Parented(R, d)
    <3> SUFFICES ASSUME NEW y \in DOMAIN R, R[y].parent # Nobody, R[y].id \in DOMAIN d.entities,
                        Registered(R[R[y].parent].id, d.ordered)
                 PROVE  R[R[y].parent].id \in DOMAIN d.entities
      BY DEF Parented
    <3>1. y \in DOMAIN E /\ R[y] = E[y]
      BY <1>5, <1>7, <2>9
    <3>2. E[y].parent \in DOMAIN E /\ R[E[y].parent] = E[E[y].parent]
      BY <1>3, <1>7, <3>1 DEF Kinship
    <3> QED BY <2>4, <3>1, <3>2 DEF Parented
  <2>15. EntryTrue(x, R, Append(ordered, n), n + 1)
    BY <2>8, <2>10, <2>11, <2>12, <2>13, <2>14 DEF EntryTrue, d
  <2> QED BY <2>15 DEF x
<1>12. StoreTrue(store, R, Append(ordered, n), n + 1)
  BY <1>11 DEF KinInv, StoreTrue
<1>13. StoreTrue(store', entities', ordered', nextEntity')
  BY <1>2, <1>12
<1>14. LoadRestoresComponents'
  BY <1>2 DEF LoadRestoresComponents
<1>15. target' < nextEntity'
  BY <1>1, <1>2
<1> QED BY <1>2, <1>9, <1>10, <1>13, <1>14, <1>15 DEF KinInv

----------------------------------------------------------------------------
(* SaveWorld *)

(***************************************************************************)
(* The new snapshot: its view is what its maps say, and it goes on where   *)
(* the stored snapshots end.                                               *)
(***************************************************************************)
LEMMA SnapshotIsTrue ==
    ASSUME WorldInv, KinInv
    PROVE  /\ EntryTrue(Entry(frame, Snapshot), entities, ordered, nextEntity)
           /\ \A j \in 1 .. Len(store.entries) : OneTimeline(Snapshot, store.entries[j].data)
<1> DEFINE E == entities
           n == nextEntity
           W(r) == WithId(E, r)
           ids == IdsOf(E)
           d == Snapshot
<1>1. /\ E \in [DOMAIN E -> EntityState]
      /\ \A e \in DOMAIN E : e \in 1 .. (n - 1) /\ E[e].id \in 1 .. (n - 1)
      /\ \A e, x \in DOMAIN E : E[e].id = E[x].id => e = x
      /\ n \in Nat \ {0} /\ target \in Nat /\ target < n
      /\ frame \in Nat /\ Kinship(E) /\ Dated(E, frame)
  BY DEF WorldInv, WorldOK, KinInv
<1>2. \A r \in ids : W(r) \in DOMAIN E /\ E[W(r)].mark = NotMarked /\ E[W(r)].id = r
  BY DEF IdsOf, WithId, Visible
<1>3. \A e \in DOMAIN E : E[e].mark = NotMarked => E[e].id \in ids /\ W(E[e].id) = e
  <2> SUFFICES ASSUME NEW e \in DOMAIN E, E[e].mark = NotMarked
               PROVE  E[e].id \in ids /\ W(E[e].id) = e
    OBVIOUS
  <2>1. E[e].id \in ids
    BY DEF IdsOf, Visible
  <2> QED BY <1>1, <1>2, <2>1
<1>4. /\ d.entities = [r \in ids |-> W(r)]
      /\ d.ordered = ordered /\ d.target = target
      /\ d.view = View(E) /\ d.aim = IdOf(E, target)
      /\ d.components = SavedComponents /\ d.refs = SavedRefs /\ d.parents = SavedParents
  BY DEF Snapshot, SavedEntities
<1> HIDE DEF W, ids, d
<1>5. DOMAIN d.entities = ids /\ \A r \in ids : d.entities[r] = W(r)
  BY <1>4
<1>6. ASSUME NEW x
      PROVE  IdIn(d, x) = IdOf(E, x)
  <2>1. CASE x = Nobody
    BY <2>1 DEF IdIn, IdOf
  <2>2. CASE x # Nobody /\ x \in Visible(E)
    <3>1. x \in DOMAIN E /\ E[x].mark = NotMarked
      BY <2>2 DEF Visible
    <3>2. E[x].id \in ids /\ d.entities[E[x].id] = x
      BY <1>3, <1>5, <3>1
    <3>3. \A r \in DOMAIN d.entities : d.entities[r] = x => r = E[x].id
      BY <1>2, <1>5
    <3>4. IdIn(d, x) = E[x].id
      BY <1>5, <2>2, <3>2, <3>3 DEF IdIn
    <3> QED BY <2>2, <3>4 DEF IdOf
  <2>3. CASE x # Nobody /\ x \notin Visible(E)
    <3>1. \A r \in DOMAIN d.entities : d.entities[r] # x
      BY <1>2, <1>5, <2>3 DEF Visible
    <3> QED BY <2>3, <3>1 DEF IdIn, IdOf
  <2> QED BY <2>1, <2>2, <2>3
<1>7. ASSUME NEW r \in ids
      PROVE  /\ Stored(d.components, r, Absent) = E[W(r)].component
             /\ Stored(d.refs, r, Nobody) = E[W(r)].ref
             /\ Stored(d.parents, r, Nobody) = E[W(r)].parent
  <2>1. Stored(SavedComponents, r, Absent) = E[W(r)].component
    BY DEF Stored, SavedComponents, SavedField, W, ids
  <2>2. Stored(SavedRefs, r, Nobody) = E[W(r)].ref
    BY DEF Stored, SavedRefs, SavedField, W, ids
  <2>3. Stored(SavedParents, r, Nobody) = E[W(r)].parent
    BY DEF Stored, SavedParents, SavedField, W, ids
  <2> QED BY <1>4, <2>1, <2>2, <2>3
<1>8. SnapshotTrue(d, n)
  <2>1. \A r \in DOMAIN d.entities : d.entities[r] \in r .. (n - 1)
    <3> SUFFICES ASSUME NEW r \in ids PROVE W(r) \in r .. (n - 1)
      BY <1>5
    <3>1. r <= W(r)
      BY <1>1, <1>2 DEF Dated
    <3>2. W(r) \in 1 .. (n - 1) /\ r \in 1 .. (n - 1)
      BY <1>1, <1>2
    <3> QED BY <1>1, <3>1, <3>2
  <2>2. \A r, q \in DOMAIN d.entities : d.entities[r] = d.entities[q] => r = q
    BY <1>2, <1>5
  <2>3. ASSUME NEW r \in DOMAIN d.parents
        PROVE  \E q \in DOMAIN d.entities : d.entities[q] = d.parents[r] /\ q < r
    <3>1. r \in ids /\ d.parents[r] = E[W(r)].parent /\ E[W(r)].parent # Nobody
      BY <1>4 DEF SavedParents, SavedField, W, ids
    <3> DEFINE p == E[W(r)].parent
    <3>2. p \in DOMAIN E /\ E[p].id < r /\ E[p].mark = NotMarked
      BY <1>1, <1>2, <3>1 DEF Kinship
    <3>3. E[p].id \in ids /\ W(E[p].id) = p
      BY <1>3, <3>2
    <3> HIDE DEF p
    <3>4. E[p].id \in DOMAIN d.entities /\ d.entities[E[p].id] = p
      BY <1>5, <3>3
    <3> QED BY <3>1, <3>2, <3>4 DEF p
  <2>4. d.target < n
    BY <1>1, <1>4
  <2>5. View(E) = [r \in ids |->
                      [component |-> E[W(r)].component, ref |-> IdOf(E, E[W(r)].ref),
                       parent    |-> IdOf(E, E[W(r)].parent)]]
    BY DEF View, W, ids
  <2>6. d.view = [r \in DOMAIN d.entities |->
                    [component |-> Stored(d.components, r, Absent),
                     ref       |-> IdIn(d, Stored(d.refs, r, Nobody)),
                     parent    |-> IdIn(d, Stored(d.parents, r, Nobody))]]
    <3>1. \A r \in ids : IdIn(d, Stored(d.refs, r, Nobody)) = IdOf(E, E[W(r)].ref)
      BY <1>6, <1>7
    <3>2. \A r \in ids : IdIn(d, Stored(d.parents, r, Nobody)) = IdOf(E, E[W(r)].parent)
      BY <1>6, <1>7
    <3>3. \A r \in ids : Stored(d.components, r, Absent) = E[W(r)].component
      BY <1>7
    <3> QED BY <1>4, <1>5, <2>5, <3>1, <3>2, <3>3
  <2>7. d.aim = IdIn(d, d.target)
    BY <1>4, <1>6
  <2> QED BY <2>1, <2>2, <2>3, <2>4, <2>6, <2>7 DEF SnapshotTrue
<1>9. Seen(E, d) /\ Parented(E, d)
  <2>1. Seen(E, d)
    BY <1>3, <1>5 DEF Seen, Visible
  <2>2. Parented(E, d)
    <3> SUFFICES ASSUME NEW c \in DOMAIN E, E[c].parent # Nobody, E[c].id \in ids
                 PROVE  E[E[c].parent].id \in ids
      BY <1>5 DEF Parented
    <3> DEFINE p == E[c].parent
    <3>1. E[c].mark = NotMarked
      BY <1>1, <1>2
    <3>2. p \in DOMAIN E /\ E[p].mark = NotMarked
      BY <1>1, <3>1 DEF Kinship
    <3> HIDE DEF p
    <3>3. E[p].id \in ids
      BY <1>3, <3>2
    <3> QED BY <3>3 DEF p
  <2> QED BY <2>1, <2>2
<1>10. Numbered(E, d)
  <2> SUFFICES ASSUME NEW e \in DOMAIN E, NEW r \in ids
               PROVE  /\ W(r) = e => E[e].id = r
                      /\ E[e].id = r => W(r) <= e
    BY <1>5 DEF Numbered
  <2>1. W(r) = e => E[e].id = r
    BY <1>2
  <2>2. E[e].id = r => W(r) = e
    BY <1>1, <1>2
  <2>3. e \in Int
    BY <1>1
  <2> QED BY <2>1, <2>2, <2>3
<1>11. Down(ordered, d.ordered)
  BY <1>4 DEF Down, Registered
<1>12. ASSUME NEW j \in 1 .. Len(store.entries)
       PROVE  OneTimeline(d, store.entries[j].data)
  <2> DEFINE x == store.entries[j]
  <2>1. EntryTrue(x, E, ordered, n)
    BY DEF KinInv, StoreTrue
  <2> HIDE DEF x
  <2>2. /\ Seen(E, x.data) /\ Down(ordered, x.data.ordered)
        /\ \A r \in DOMAIN x.data.entities : Registered(r, ordered)
    BY <2>1 DEF EntryTrue
  <2>3. \A r \in ids : Registered(r, x.data.ordered) => r \in DOMAIN x.data.entities
    BY <1>2, <2>2 DEF Seen, Visible
  <2>4. OneTimeline(d, x.data)
    BY <1>4, <1>5, <2>2, <2>3 DEF OneTimeline
  <2> QED BY <2>4 DEF x
<1>13. EntryTrue(Entry(frame, d), E, ordered, n)
  <2>1. Entry(frame, d).frame = frame /\ Entry(frame, d).data = d
    BY DEF Entry
  <2>2. \A r \in DOMAIN d.entities : Registered(r, ordered)
    BY <1>2, <1>5 DEF WorldInv
  <2> QED BY <1>8, <1>9, <1>10, <1>11, <2>1, <2>2 DEF EntryTrue
<1> QED BY <1>12, <1>13 DEF d

LEMMA SaveTrue ==
    ASSUME WorldInv, KinInv, NEW k \in Int, SaveWorld(k)
    PROVE  KinInv'
<1> DEFINE D == DataOf(store) \union {Snapshot}
           d == Snapshot
           q == store.entries
           t == SaveChain(store, MaxPrediction, k, frame, d)
           p == t.entries
<1>1. /\ frame \in 0 .. MaxFrame /\ MaxFrame \in Nat /\ MaxFrame < Half /\ MaxPrediction \in Nat
      /\ store \in Storage(MaxFrame, DataOf(store)) /\ Descending(q)
  BY RollbackWorldAssumption DEF WorldInv, StoreOK
<1>2. /\ EntryTrue(Entry(frame, d), entities, ordered, nextEntity)
      /\ \A j \in 1 .. Len(q) : OneTimeline(d, q[j].data)
  BY SnapshotIsTrue
<1>3. /\ \A i \in 1 .. Len(q) : EntryTrue(q[i], entities, ordered, nextEntity)
      /\ \A i, j \in 1 .. Len(q) : i < j => OneTimeline(q[i].data, q[j].data)
  BY DEF KinInv, StoreTrue
<1> HIDE DEF d
<1>4. store \in Storage(MaxFrame, D) /\ d \in D
  BY <1>1, StorageGrows DEF d
<1> HIDE DEF D
<1>5. t \in Storage(MaxFrame, D) /\ Descending(p) /\ NewOrOlder(p, q, frame, d)
  BY <1>1, <1>4, SaveChainFacts
<1>6. \A i \in 1 .. Len(q) : q[i].frame \in 0 .. MaxFrame
  BY <1>1, StoredEntry
<1>7. \A i \in 1 .. Len(p) : p[i].frame \in 0 .. MaxFrame
  BY <1>5, StoredEntry
<1>8. Len(q) \in Nat /\ Len(p) \in Nat
  BY <1>1, <1>5, LenProperties DEF Storage
<1>9. Entry(frame, d).frame = frame /\ Entry(frame, d).data = d
  BY DEF Entry
<1>10. store' = t
  BY DEF SaveWorld, t, d
<1> HIDE DEF t, p, q
<1>11. \A i \in 1 .. Len(p) : EntryTrue(p[i], entities, ordered, nextEntity)
  BY <1>2, <1>3, <1>5 DEF NewOrOlder
<1>12. ASSUME NEW i \in 1 .. Len(p), NEW j \in 1 .. Len(p), i < j
       PROVE  OneTimeline(p[i].data, p[j].data)
  <2>1. p[i].frame > p[j].frame
    BY <1>5, <1>12 DEF Descending
  <2>2. CASE p[i] = Entry(frame, d)
    <3>1. p[j] # Entry(frame, d)
      BY <1>1, <1>9, <2>1, <2>2
    <3>2. PICK b \in 1 .. Len(q) : p[j] = q[b]
      BY <1>5, <3>1 DEF NewOrOlder
    <3> QED BY <1>2, <1>9, <2>2, <3>2
  <2>3. CASE p[i] # Entry(frame, d)
    <3>1. PICK a \in 1 .. Len(q) : p[i].frame < frame /\ p[i] = q[a]
      BY <1>5, <2>3 DEF NewOrOlder
    <3>2. p[j] # Entry(frame, d)
      BY <1>1, <1>7, <1>9, <2>1, <3>1
    <3>3. PICK b \in 1 .. Len(q) : p[j] = q[b]
      BY <1>5, <3>2 DEF NewOrOlder
    <3>4. q[a].frame > q[b].frame
      BY <2>1, <3>1, <3>3
    <3>5. a < b
      <4>1. CASE a = b
        BY <1>6, <3>4, <4>1
      <4>2. CASE b < a
        <5>1. q[b].frame > q[a].frame
          BY <1>1, <4>2 DEF Descending
        <5> QED BY <1>6, <3>4, <5>1
      <4> QED BY <4>1, <4>2
    <3> QED BY <1>3, <3>1, <3>3, <3>5
  <2> QED BY <2>2, <2>3
<1>13. StoreTrue(t, entities, ordered, nextEntity)
  BY <1>11, <1>12 DEF StoreTrue, p
<1>14. /\ frame' = frame /\ entities' = entities /\ nextEntity' = nextEntity
       /\ ordered' = ordered /\ target' = target /\ ~ loaded'
  BY DEF SaveWorld
<1>15. StoreTrue(store', entities', ordered', nextEntity')
  BY <1>10, <1>13, <1>14
<1>16. LoadRestoresComponents'
  BY <1>14 DEF LoadRestoresComponents
<1> QED BY <1>14, <1>15, <1>16 DEF KinInv

----------------------------------------------------------------------------
(* LoadWorld *)

(***************************************************************************)
(* Entities that are spawned again get different numbers.                  *)
(***************************************************************************)
LEMMA RespawnedDiffer ==
    ASSUME NEW E, NEW snap, nextEntity \in Nat \ {0},
           \A r \in DOMAIN snap : r \in 1 .. (nextEntity - 1),
           NEW r \in Missing(E, snap), NEW q \in Missing(E, snap), r < q
    PROVE  Respawned(E, snap, r) < Respawned(E, snap, q)
<1> DEFINE T == Missing(E, snap)
           A == {x \in T : x < r}
           B == {x \in T : x < q}
<1>1. T \subseteq 1 .. (nextEntity - 1)
  BY DEF Missing
<1> HIDE DEF T
<1>2. r \in T /\ q \in T /\ r \in Int /\ q \in Int
  BY <1>1 DEF T
<1>3. A \in SUBSET B /\ A # B /\ B \in SUBSET T
  <2>1. \A x \in T : x \in Int /\ (x < r => x < q)
    BY <1>1, <1>2
  <2>2. r \in B /\ r \notin A
    BY <1>2
  <2> QED BY <2>1, <2>2
<1>4. IsFiniteSet(1 .. (nextEntity - 1))
  <2>1. 1 \in Int /\ nextEntity - 1 \in Int
    OBVIOUS
  <2> QED BY <2>1, FS_Interval
<1>5. IsFiniteSet(T)
  BY <1>1, <1>4, FS_Subset
<1>6. Respawned(E, snap, r) = nextEntity + Cardinality(A) /\ Respawned(E, snap, q) = nextEntity + Cardinality(B)
  BY DEF Respawned, T
<1> HIDE DEF A, B
<1>7. IsFiniteSet(B)
  BY <1>3, <1>5, FS_Subset
<1>8. IsFiniteSet(A) /\ Cardinality(A) <= Cardinality(B) /\ Cardinality(A) # Cardinality(B)
  BY <1>3, <1>7, FS_Subset
<1>9. Cardinality(A) \in Nat /\ Cardinality(B) \in Nat
  BY <1>7, <1>8, FS_CardinalityType
<1> QED BY <1>6, <1>8, <1>9

(***************************************************************************)
(* EntitySnapshotPlugin::load, exactly: what is left of the entities, and  *)
(* a new one for every RollbackId that is missing.                         *)
(***************************************************************************)
LEMMA LoadEntitiesShape ==
    ASSUME NEW E, NEW snap, nextEntity \in Nat \ {0},
           \A r \in DOMAIN snap : r \in 1 .. (nextEntity - 1),
           \A e \in DOMAIN E : e < nextEntity
    PROVE  LET R == LoadEntities(E, snap)
               kept == Despawn(E, {e \in Visible(E) : E[e].id \notin DOMAIN snap})
           IN  /\ DOMAIN kept \subseteq DOMAIN E
               /\ \A e \in DOMAIN kept : e \in DOMAIN R /\ R[e] = E[e]
               /\ \A r \in Missing(E, snap) :
                     /\ Respawned(E, snap, r) \in DOMAIN R
                     /\ R[Respawned(E, snap, r)] = NewEntity(r, Absent, Nobody)
               /\ \A e \in DOMAIN R :
                     e \in DOMAIN kept \/ \E r \in Missing(E, snap) : e = Respawned(E, snap, r)
<1> DEFINE doomed == {e \in Visible(E) : E[e].id \notin DOMAIN snap}
           kept == Despawn(E, doomed)
           T == Missing(E, snap)
           At(r) == Respawned(E, snap, r)
           Back(e) == CHOOSE r \in T : At(r) = e
           new == {At(r) : r \in T}
           fresh == [e \in new |-> NewEntity(Back(e), Absent, Nobody)]
           R == LoadEntities(E, snap)
<1>1. R = [e \in DOMAIN kept \union DOMAIN fresh |->
              IF e \in DOMAIN kept THEN kept[e] ELSE fresh[e]]
  BY DEF LoadEntities
<1>2. DOMAIN kept \subseteq DOMAIN E /\ \A e \in DOMAIN kept : kept[e] = E[e]
  <2> HIDE DEF doomed
  <2> QED BY DespawnFacts
<1>3. /\ \A r \in T : r \in Int /\ At(r) >= nextEntity /\ At(r) \in Int
      /\ \A r, q \in T : r < q => At(r) < At(q)
  <2>1. \A r \in T : At(r) \in nextEntity .. (nextEntity + Cardinality(T) - 1) /\ Cardinality(T) \in Nat
    BY RespawnedFacts
  <2>2. \A r \in T : r \in Int
    BY DEF Missing
  <2>3. \A r, q \in T : r < q => At(r) < At(q)
    BY RespawnedDiffer
  <2> QED BY <2>1, <2>2, <2>3
<1> HIDE DEF T, At, kept, R
<1>4. ASSUME NEW r \in T
      PROVE  Back(At(r)) = r
  <2>1. \A q \in T : At(q) = At(r) => q = r
    BY <1>3
  <2> QED BY <2>1
<1>5. \A e \in DOMAIN kept : e \in DOMAIN R /\ R[e] = E[e]
  BY <1>1, <1>2
<1>6. ASSUME NEW r \in T
      PROVE  At(r) \in DOMAIN R /\ R[At(r)] = NewEntity(r, Absent, Nobody)
  <2>1. At(r) \in new /\ At(r) \notin DOMAIN kept
    BY <1>2, <1>3
  <2>2. At(r) \in DOMAIN R /\ R[At(r)] = fresh[At(r)]
    BY <1>1, <2>1
  <2>3. fresh[At(r)] = NewEntity(Back(At(r)), Absent, Nobody)
    BY <2>1
  <2> HIDE DEF fresh, Back
  <2> QED BY <1>4, <2>2, <2>3
<1>7. \A e \in DOMAIN R : e \in DOMAIN kept \/ \E r \in T : e = At(r)
  BY <1>1
<1> QED BY <1>2, <1>5, <1>6, <1>7 DEF T, At, kept, R

(***************************************************************************)
(* What is known when the snapshot d of frame f is loaded into the         *)
(* entities E, while o is registered.                                      *)
(***************************************************************************)
Loadable(E, f, d, o) ==
    /\ nextEntity \in Nat \ {0} /\ f \in Nat
    /\ WorldOK(E, nextEntity) /\ SnapshotOK(d, nextEntity) /\ Agree(E, f, d)
    /\ \A e \in DOMAIN E : Registered(E[e].id, o)
    /\ Kinship(E) /\ \A e \in DOMAIN E : E[e].id <= e
    /\ SnapshotTrue(d, nextEntity)
    /\ Parented(E, d) /\ Numbered(E, d) /\ Down(o, d.ordered)

(***************************************************************************)
(* resurrect_entities leaves the families as they are.                     *)
(***************************************************************************)
LEMMA ResurrectKin ==
    ASSUME NEW E, E \in [DOMAIN E -> EntityState], NEW f \in Nat, Kinship(E)
    PROVE  LET C == Resurrect(E, f)
           IN  /\ Kinship(C)
               /\ \A e \in DOMAIN E : C[e].parent = E[e].parent
<1> DEFINE C == Resurrect(E, f)
<1>1. /\ DOMAIN C = DOMAIN E
      /\ \A e \in DOMAIN E : C[e].id = E[e].id
      /\ \A e \in DOMAIN E : C[e].mark = IF E[e].mark > f THEN NotMarked ELSE E[e].mark
  BY ResurrectFacts DEF Evolved
<1>2. ASSUME NEW e \in DOMAIN E
      PROVE  C[e].parent = E[e].parent
  <2>1. C[e] = IF E[e].mark > f THEN [E[e] EXCEPT !.mark = NotMarked] ELSE E[e]
    BY DEF Resurrect
  <2>2. E[e] \in EntityState
    OBVIOUS
  <2> HIDE DEF C
  <2> QED BY <2>1, <2>2 DEF EntityState
<1>3. \A e \in DOMAIN E : E[e].mark \in Nat
  BY DEF EntityState
<1> HIDE DEF C
<1>4. Kinship(C)
  <2> SUFFICES ASSUME NEW c \in DOMAIN C, C[c].parent # Nobody
               PROVE  LET p == C[c].parent
                      IN  /\ p \in DOMAIN C
                          /\ C[p].id < C[c].id
                          /\ C[p].mark # NotMarked => C[c].mark # NotMarked /\ C[c].mark <= C[p].mark
    BY DEF Kinship
  <2> DEFINE p == E[c].parent
  <2>1. C[c].parent = p /\ c \in DOMAIN E
    BY <1>1, <1>2
  <2>2. /\ p \in DOMAIN E
        /\ E[p].id < E[c].id
        /\ E[p].mark # NotMarked => E[c].mark # NotMarked /\ E[c].mark <= E[p].mark
    BY <2>1 DEF Kinship
  <2> HIDE DEF p
  <2>3. C[p].id < C[c].id
    BY <1>1, <2>1, <2>2
  <2>4. C[p].mark # NotMarked => C[c].mark # NotMarked /\ C[c].mark <= C[p].mark
    BY <1>1, <1>3, <2>1, <2>2
  <2> QED BY <1>1, <2>1, <2>2, <2>3, <2>4
<1> QED BY <1>2, <1>4 DEF C

(***************************************************************************)
(* Entity::load despawns with the families of the entities that are not in *)
(* the snapshot no entity that is in it.                                   *)
(***************************************************************************)
LEMMA Survivors ==
    ASSUME NEW E, NEW f, NEW d, NEW o, Loadable(E, f, d, o)
    PROVE  LET C == Resurrect(E, f)
               kept == Despawn(C, {e \in Visible(C) : C[e].id \notin DOMAIN d.entities})
           IN  /\ Kinship(kept)
               /\ \A e \in DOMAIN C :
                     C[e].id \in DOMAIN d.entities => e \in DOMAIN kept /\ C[e].mark = NotMarked
<1> DEFINE C == Resurrect(E, f)
           doomed == {e \in Visible(C) : C[e].id \notin DOMAIN d.entities}
           dead == UNION {Family(C, e) : e \in doomed}
           kept == Despawn(C, doomed)
           S == {e \in DOMAIN C : C[e].id \notin DOMAIN d.entities}
<1>1. /\ E \in [DOMAIN E -> EntityState] /\ f \in Nat /\ Kinship(E)
      /\ \A e \in DOMAIN E : e \in 1 .. (nextEntity - 1) /\ E[e].id \in 1 .. (nextEntity - 1)
      /\ \A e \in DOMAIN E : Registered(E[e].id, o)
      /\ nextEntity \in Nat
      /\ \A r \in DOMAIN d.entities : Registered(r, d.ordered)
  BY DEF Loadable, WorldOK, SnapshotOK
<1>2. /\ DOMAIN C = DOMAIN E
      /\ \A e \in DOMAIN E : C[e].id = E[e].id
      /\ \A e \in DOMAIN E : C[e].mark = IF E[e].mark > f THEN NotMarked ELSE E[e].mark
  BY <1>1, ResurrectFacts DEF Evolved
<1>3. Kinship(C) /\ \A e \in DOMAIN E : C[e].parent = E[e].parent
  BY <1>1, ResurrectKin
<1>4. \A e \in DOMAIN E : E[e].mark \in Nat
  BY <1>1 DEF EntityState
<1>5. kept = [e \in DOMAIN C \ dead |-> C[e]]
  BY DEF Despawn
<1>6. Kinship(kept)
  <2> HIDE DEF C, doomed
  <2> QED BY <1>3, DespawnKin
<1> HIDE DEF C, kept
<1>7. ASSUME NEW c \in DOMAIN C, C[c].parent \in S
      PROVE  c \in S
  <2> SUFFICES ASSUME C[c].id \in DOMAIN d.entities
               PROVE  FALSE
    OBVIOUS
  <2> DEFINE p == C[c].parent
  <2>1. p \in DOMAIN C /\ C[p].id \notin DOMAIN d.entities
    BY <1>7
  <2>2. p # Nobody
    BY <1>1, <1>2, <2>1 DEF Nobody
  <2>3. C[p].id < C[c].id
    BY <1>3, <2>2 DEF Kinship
  <2>4. p = E[c].parent /\ C[p].id = E[p].id /\ C[c].id = E[c].id
    BY <1>2, <1>3, <2>1
  <2> HIDE DEF p
  <2>5. Registered(C[p].id, d.ordered)
    <3>1. PICK i \in DOMAIN o : o[i] = C[p].id
      BY <1>1, <1>2, <2>1 DEF Registered
    <3>2. PICK j \in DOMAIN d.ordered : d.ordered[j] = C[c].id
      BY <1>1 DEF Registered
    <3>3. C[p].id \in Int /\ C[c].id \in Int
      BY <1>1, <1>2, <2>1
    <3>4. o[i] <= d.ordered[j]
      BY <2>3, <3>1, <3>2, <3>3
    <3>5. Registered(o[i], d.ordered)
      BY <3>4 DEF Loadable, Down
    <3> QED BY <3>1, <3>5
  <2>6. Parented(E, d)
    BY DEF Loadable
  <2> QED BY <1>2, <2>1, <2>2, <2>4, <2>5, <2>6 DEF Parented
<1>8. ASSUME NEW e \in dead PROVE e \in S
  <2>1. PICK x \in doomed : e \in Family(C, x)
    BY <1>8
  <2>2. S \in SUBSET DOMAIN C /\ x \in S
    BY DEF Visible
  <2> HIDE DEF S
  <2>3. Family(C, x) \subseteq S
    BY <1>7, <2>2, FamilyWithin
  <2> QED BY <2>1, <2>3
<1> HIDE DEF dead
<1>9. \A e \in DOMAIN C : C[e].id \in DOMAIN d.entities => e \in DOMAIN kept
  BY <1>5, <1>8
<1>10. ASSUME NEW e \in DOMAIN C, C[e].id \in DOMAIN d.entities
       PROVE  C[e].mark = NotMarked
  <2>1. E[e].mark = NotMarked \/ E[e].mark > f
    BY <1>2, <1>10 DEF Agree, Loadable
  <2> QED BY <1>2, <1>4, <2>1 DEF NotMarked
<1> QED BY <1>6, <1>9, <1>10 DEF kept, C

(***************************************************************************)
(* The entities after Entity::load: those of the snapshot, the missing     *)
(* ones without a parent, and marked ones.                                 *)
(***************************************************************************)
LEMMA RebuiltTrue ==
    ASSUME NEW E, NEW f, NEW d, NEW o, Loadable(E, f, d, o)
    PROVE  LET C == Resurrect(E, f)
               At(r) == Respawned(C, d.entities, r)
               R == LoadEntities(C, d.entities)
           IN  /\ Kinship(R)
               /\ \A e \in DOMAIN R :
                     \/ e \in DOMAIN C /\ R[e] = C[e]
                     \/ /\ R[e].id \in Missing(C, d.entities) /\ e = At(R[e].id)
                        /\ R[e].mark = NotMarked
               /\ \A e \in DOMAIN R : R[e].mark = NotMarked => R[e].id \in DOMAIN d.entities
               /\ \A e \in DOMAIN C :
                     C[e].id \in DOMAIN d.entities => e \in DOMAIN R /\ R[e] = C[e]
               /\ \A r \in Missing(C, d.entities) :
                     At(r) \in DOMAIN R /\ R[At(r)].id = r /\ R[At(r)].mark = NotMarked
<1> DEFINE C == Resurrect(E, f)
           T == Missing(C, d.entities)
           At(r) == Respawned(C, d.entities, r)
           R == LoadEntities(C, d.entities)
           kept == Despawn(C, {e \in Visible(C) : C[e].id \notin DOMAIN d.entities})
<1>1. /\ nextEntity \in Nat \ {0} /\ f \in Nat
      /\ E \in [DOMAIN E -> EntityState]
      /\ \A e \in DOMAIN E : e \in 1 .. (nextEntity - 1)
      /\ \A r \in DOMAIN d.entities : r \in 1 .. (nextEntity - 1)
  BY DEF Loadable, WorldOK, SnapshotOK
<1>2. DOMAIN C = DOMAIN E /\ C \in [DOMAIN C -> EntityState]
  BY <1>1, ResurrectFacts DEF Evolved
<1>3. /\ Kinship(kept)
      /\ \A e \in DOMAIN C : C[e].id \in DOMAIN d.entities => e \in DOMAIN kept
  BY Survivors
<1> HIDE DEF C
<1>4. /\ DOMAIN kept \subseteq DOMAIN C
      /\ \A e \in DOMAIN kept : e \in DOMAIN R /\ R[e] = C[e]
      /\ \A r \in T : At(r) \in DOMAIN R /\ R[At(r)] = NewEntity(r, Absent, Nobody)
      /\ \A e \in DOMAIN R : e \in DOMAIN kept \/ \E r \in T : e = At(r)
  <2>1. \A e \in DOMAIN C : e < nextEntity
    BY <1>1, <1>2
  <2> QED BY <1>1, <2>1, LoadEntitiesShape
<1>5. /\ R \in [DOMAIN R -> EntityState]
      /\ \A e \in DOMAIN R :
            \/ /\ e \in DOMAIN C /\ R[e] = C[e]
               /\ C[e].mark = NotMarked => C[e].id \in DOMAIN d.entities
            \/ /\ R[e].id \in T
               /\ e = At(R[e].id)
               /\ R[e].mark = NotMarked
  BY <1>1, <1>2, LoadEntitiesFacts
<1>6. \A e \in DOMAIN kept : kept[e] = C[e]
  BY DespawnFacts
<1>7. \A r \in T : r \in DOMAIN d.entities
  BY DEF Missing
<1> HIDE DEF R, kept, T, At
<1>8. \A r \in T : R[At(r)].id = r /\ R[At(r)].mark = NotMarked /\ R[At(r)].parent = Nobody
  <2>1. \A r : LET s == NewEntity(r, Absent, Nobody)
              IN  s.id = r /\ s.mark = NotMarked /\ s.parent = Nobody
    BY DEF NewEntity
  <2> QED BY <1>4, <2>1
<1>9. ASSUME NEW c \in DOMAIN R, R[c].parent # Nobody
      PROVE  LET p == R[c].parent
             IN  /\ p \in DOMAIN R
                 /\ R[p].id < R[c].id
                 /\ R[p].mark # NotMarked => R[c].mark # NotMarked /\ R[c].mark <= R[p].mark
  <2>1. c \in DOMAIN kept
    BY <1>4, <1>8, <1>9
  <2> DEFINE p == kept[c].parent
  <2>2. R[c] = kept[c] /\ R[c].parent = p
    BY <1>4, <1>6, <2>1
  <2>3. /\ p \in DOMAIN kept
        /\ kept[p].id < kept[c].id
        /\ kept[p].mark # NotMarked => kept[c].mark # NotMarked /\ kept[c].mark <= kept[p].mark
    BY <1>3, <1>9, <2>1, <2>2 DEF Kinship
  <2>4. p \in DOMAIN R /\ R[p] = kept[p]
    BY <1>4, <1>6, <2>3
  <2> QED BY <2>2, <2>3, <2>4
<1>10. Kinship(R)
  BY <1>9 DEF Kinship
<1>11. \A e \in DOMAIN R : R[e].mark = NotMarked => R[e].id \in DOMAIN d.entities
  BY <1>5, <1>7
<1>12. \A e \in DOMAIN C : C[e].id \in DOMAIN d.entities => e \in DOMAIN R /\ R[e] = C[e]
  BY <1>3, <1>4
<1> QED BY <1>4, <1>5, <1>8, <1>10, <1>11, <1>12 DEF R, T, At, C

(***************************************************************************)
(* RollbackEntityMap: an Entity number of the snapshot that it maps is     *)
(* mapped to the entity that now has the RollbackId of that number.        *)
(***************************************************************************)
LEMMA MapOfSaved ==
    ASSUME NEW E, NEW f, NEW d, NEW o, Loadable(E, f, d, o), NEW q \in DOMAIN d.entities
    PROVE  LET C == Resurrect(E, f)
               map == EntityMap(C, d.entities)
               R == LoadEntities(C, d.entities)
               v == d.entities[q]
           IN  /\ v \in DOMAIN map => /\ map[v] \in DOMAIN R
                                      /\ R[map[v]].id = q /\ R[map[v]].mark = NotMarked
               /\ q \in Missing(C, d.entities) => v \in DOMAIN map
               /\ (v \in DOMAIN C /\ C[v].id = q) => v \in DOMAIN map
<1> DEFINE C == Resurrect(E, f)
           T == Missing(C, d.entities)
           At(r) == Respawned(C, d.entities, r)
           Back(e) == CHOOSE r \in T : d.entities[r] = e
           present == {e \in Visible(C) : C[e].id \in DOMAIN d.entities}
           lost == {d.entities[r] : r \in T}
           map == EntityMap(C, d.entities)
           R == LoadEntities(C, d.entities)
           v == d.entities[q]
<1>1. /\ nextEntity \in Nat \ {0} /\ f \in Nat
      /\ E \in [DOMAIN E -> EntityState]
      /\ \A r, s \in DOMAIN d.entities : d.entities[r] = d.entities[s] => r = s
      /\ \A e \in DOMAIN E, r \in DOMAIN d.entities : d.entities[r] = e => E[e].id = r
  BY DEF Loadable, WorldOK, SnapshotOK, SnapshotTrue, Numbered
<1>2. /\ DOMAIN C = DOMAIN E
      /\ \A e \in DOMAIN E : C[e].id = E[e].id
  BY <1>1, ResurrectFacts DEF Evolved
<1>3. /\ \A e \in DOMAIN C :
            C[e].id \in DOMAIN d.entities => e \in DOMAIN R /\ R[e] = C[e]
      /\ \A r \in T : At(r) \in DOMAIN R /\ R[At(r)].id = r /\ R[At(r)].mark = NotMarked
  BY RebuiltTrue
<1>4. \A e \in DOMAIN C : C[e].id \in DOMAIN d.entities => C[e].mark = NotMarked
  BY Survivors
<1>5. map = [e \in present \union lost |->
                IF e \in present THEN d.entities[C[e].id] ELSE At(Back(e))]
  BY DEF EntityMap
<1>6. T \subseteq DOMAIN d.entities /\ \A e \in Visible(C) : C[e].id \notin T
  BY DEF Missing, IdsOf
<1> HIDE DEF C, map, R, T, At
<1>7. \A e : e \in present <=> e \in DOMAIN C /\ C[e].id \in DOMAIN d.entities
  BY <1>4 DEF Visible
<1>8. \A e \in present : e \in Visible(C)
  OBVIOUS
<1>9. ASSUME v \in present
      PROVE  map[v] = v /\ C[v].id = q /\ v \in DOMAIN C
  <2>1. v \in DOMAIN C /\ C[v].id = q
    BY <1>1, <1>2, <1>7, <1>9
  <2>2. map[v] = d.entities[C[v].id]
    BY <1>5, <1>9
  <2> QED BY <2>1, <2>2
<1>10. ASSUME v \in lost, v \notin present
       PROVE  q \in T /\ map[v] = At(q)
  <2>1. PICK r \in T : v = d.entities[r]
    BY <1>10
  <2>2. r = q
    BY <1>1, <1>6, <2>1
  <2>3. \A s \in T : d.entities[s] = v => s = q
    BY <1>1, <1>6
  <2>4. Back(v) = q
    BY <2>1, <2>2, <2>3
  <2>5. map[v] = At(Back(v))
    BY <1>5, <1>10
  <2> HIDE DEF Back
  <2> QED BY <2>1, <2>2, <2>4, <2>5
<1>11. DOMAIN map = present \union lost
  BY <1>5
<1>12. ASSUME v \in DOMAIN map
       PROVE  map[v] \in DOMAIN R /\ R[map[v]].id = q /\ R[map[v]].mark = NotMarked
  <2>1. CASE v \in present
    <3>1. v \in DOMAIN R /\ R[v] = C[v]
      BY <1>1, <1>3, <1>9, <2>1
    <3> QED BY <1>4, <1>9, <2>1, <3>1
  <2>2. CASE v \notin present
    BY <1>3, <1>10, <1>11, <1>12, <2>2
  <2> QED BY <2>1, <2>2
<1>13. q \in T => v \in DOMAIN map
  BY <1>11
<1>14. (v \in DOMAIN C /\ C[v].id = q) => v \in DOMAIN map
  BY <1>7, <1>11
<1> QED BY <1>12, <1>13, <1>14 DEF map, R, T, C

(***************************************************************************)
(* What the sets of LoadWorld do to the component, the reference and the   *)
(* parent of an entity.                                                    *)
(***************************************************************************)
LEMMA OtherFields ==
    ASSUME NEW r \in EntityState, NEW v
    PROVE  /\ LET s == [r EXCEPT !.component = v]
              IN  s.component = v /\ s.ref = r.ref /\ s.parent = r.parent
           /\ LET s == [r EXCEPT !.ref = v]
              IN  s.component = r.component /\ s.ref = v /\ s.parent = r.parent
           /\ LET s == [r EXCEPT !.parent = v]
              IN  s.component = r.component /\ s.ref = r.ref /\ s.parent = v
BY DEF EntityState

LEMMA LoadComponentsFields ==
    ASSUME NEW E, NEW snap, E \in [DOMAIN E -> EntityState], NEW e \in DOMAIN E
    PROVE  LET s == LoadComponents(E, snap)[e]
           IN  /\ s.ref = E[e].ref /\ s.parent = E[e].parent
               /\ E[e].mark = NotMarked => s.component = Stored(snap, E[e].id, Absent)
<1> DEFINE r == E[e]
           v == Stored(snap, r.id, Absent)
           s == LoadComponents(E, snap)[e]
           u == [r EXCEPT !.component = v]
<1>1. s = IF e \in Visible(E) THEN u ELSE r
  BY DEF LoadComponents, Stored
<1>2. r \in EntityState /\ (r.mark = NotMarked => e \in Visible(E))
  BY DEF Visible
<1> HIDE DEF r, v, s
<1>3. u.component = v /\ u.ref = r.ref /\ u.parent = r.parent
  BY <1>2, OtherFields
<1> HIDE DEF u
<1>4. s.ref = r.ref /\ s.parent = r.parent /\ (r.mark = NotMarked => s.component = v)
  BY <1>1, <1>2, <1>3
<1> QED BY <1>4 DEF r, v, s

LEMMA LoadRefsFields ==
    ASSUME NEW E, NEW snap, E \in [DOMAIN E -> EntityState], NEW e \in DOMAIN E
    PROVE  LET s == LoadRefs(E, snap)[e]
           IN  /\ s.component = E[e].component /\ s.parent = E[e].parent
               /\ E[e].mark = NotMarked => s.ref = Stored(snap, E[e].id, Nobody)
<1> DEFINE r == E[e]
           v == Stored(snap, r.id, Nobody)
           s == LoadRefs(E, snap)[e]
           u == [r EXCEPT !.ref = v]
<1>1. \/ s = u
      \/ s = r /\ (e \in Visible(E) => r.ref = v)
  BY DEF LoadRefs, Stored
<1>2. r \in EntityState /\ (r.mark = NotMarked => e \in Visible(E))
  BY DEF Visible
<1> HIDE DEF r, v, s
<1>3. u.component = r.component /\ u.ref = v /\ u.parent = r.parent
  BY <1>2, OtherFields
<1> HIDE DEF u
<1>4. s.component = r.component /\ s.parent = r.parent /\ (r.mark = NotMarked => s.ref = v)
  BY <1>1, <1>2, <1>3
<1> QED BY <1>4 DEF r, v, s

\* The parent of an entity with RollbackId r after ChildOfSnapshotPlugin::load.
LoadedParent(E, map, snap, r, parent) ==
    IF r \notin DOMAIN snap THEN Nobody
    ELSE IF snap[r] \notin DOMAIN map THEN parent
         ELSE IF map[snap[r]] \in DOMAIN E THEN map[snap[r]] ELSE Nobody

LEMMA LoadChildOfFields ==
    ASSUME NEW E, NEW map, NEW snap, E \in [DOMAIN E -> EntityState], NEW e \in DOMAIN E
    PROVE  LET s == LoadChildOf(E, map, snap)[e]
           IN  /\ s.component = E[e].component /\ s.ref = E[e].ref
               /\ s.parent = IF E[e].mark = NotMarked
                             THEN LoadedParent(E, map, snap, E[e].id, E[e].parent)
                             ELSE E[e].parent
<1> DEFINE r == E[e]
           v == LoadedParent(E, map, snap, r.id, r.parent)
           s == LoadChildOf(E, map, snap)[e]
           u == [r EXCEPT !.parent = v]
<1>1. s = IF e \in Visible(E) THEN u ELSE r
  BY DEF LoadChildOf, LoadedParent
<1>2. r \in EntityState /\ (r.mark = NotMarked <=> e \in Visible(E))
  BY DEF Visible
<1> HIDE DEF r, v, s
<1>3. u.component = r.component /\ u.ref = r.ref /\ u.parent = v
  BY <1>2, OtherFields
<1> HIDE DEF u
<1>4. /\ s.component = r.component /\ s.ref = r.ref
      /\ s.parent = IF r.mark = NotMarked THEN v ELSE r.parent
  BY <1>1, <1>2, <1>3
<1> QED BY <1>4 DEF r, v, s

\* A reference of the entity e after ComponentMapEntitiesPlugin::update.
MappedRef(map, e, ref) ==
    IF e \in DOMAIN map /\ ref \in DOMAIN map THEN map[ref] ELSE ref

LEMMA MapComponentsFields ==
    ASSUME NEW E, NEW map, E \in [DOMAIN E -> EntityState], NEW e \in DOMAIN E
    PROVE  LET s == MapComponents(E, map)[e]
           IN  /\ s.component = E[e].component /\ s.parent = E[e].parent
               /\ s.ref = MappedRef(map, e, E[e].ref)
<1> DEFINE r == E[e]
           v == MappedRef(map, e, r.ref)
           s == MapComponents(E, map)[e]
           u == [r EXCEPT !.ref = v]
<1>1. s = u \/ (s = r /\ r.ref = v)
  BY DEF MapComponents, MappedRef
<1>2. r \in EntityState
  OBVIOUS
<1> HIDE DEF r, v, s
<1>3. u.component = r.component /\ u.ref = v /\ u.parent = r.parent
  BY <1>2, OtherFields
<1> HIDE DEF u
<1>4. s.component = r.component /\ s.parent = r.parent /\ s.ref = v
  BY <1>1, <1>3
<1> QED BY <1>4 DEF r, v, s

(***************************************************************************)
(* All of them together.                                                   *)
(***************************************************************************)
LEMMA LoadedFields ==
    ASSUME NEW E, NEW f, NEW d, NEW o, Loadable(E, f, d, o)
    PROVE  LET C        == Resurrect(E, f)
               map      == EntityMap(C, d.entities)
               rebuilt  == LoadEntities(C, d.entities)
               restored == LoadRefs(LoadComponents(rebuilt, d.components), d.refs)
               related  == LoadChildOf(restored, map, d.parents)
               R        == MapComponents(related, map)
           IN  \A e \in DOMAIN rebuilt :
                  LET x == rebuilt[e]
                  IN  /\ x.mark = NotMarked =>
                            /\ R[e].component = Stored(d.components, x.id, Absent)
                            /\ R[e].ref = MappedRef(map, e, Stored(d.refs, x.id, Nobody))
                            /\ R[e].parent = LoadedParent(rebuilt, map, d.parents, x.id, x.parent)
                      /\ x.mark # NotMarked => R[e].parent = x.parent
<1> DEFINE C == Resurrect(E, f)
           map == EntityMap(C, d.entities)
           rebuilt == LoadEntities(C, d.entities)
           first == LoadComponents(rebuilt, d.components)
           restored == LoadRefs(first, d.refs)
           related == LoadChildOf(restored, map, d.parents)
           R == MapComponents(related, map)
           n == nextEntity + Cardinality(Missing(C, d.entities))
<1>1. /\ nextEntity \in Nat \ {0} /\ f \in Nat /\ WorldOK(E, nextEntity)
      /\ SnapshotOK(d, nextEntity) /\ Agree(E, f, d)
  BY DEF Loadable
<1>2. n \in Nat /\ WorldOK(rebuilt, n)
  BY <1>1, RebuiltFacts
<1> HIDE DEF rebuilt, map
<1>3. rebuilt \in [DOMAIN rebuilt -> EntityState] /\ DOMAIN rebuilt \subseteq Nat
  BY <1>2 DEF WorldOK
<1>4. Refitted(first, rebuilt)
  BY <1>1, <1>3, LoadComponentsFacts DEF SnapshotOK
<1>5. \A e \in DOMAIN rebuilt :
         /\ first[e].ref = rebuilt[e].ref /\ first[e].parent = rebuilt[e].parent
         /\ rebuilt[e].mark = NotMarked =>
               first[e].component = Stored(d.components, rebuilt[e].id, Absent)
  BY <1>3, LoadComponentsFields
<1> HIDE DEF first
<1>6. first \in [DOMAIN first -> EntityState]
  BY <1>4 DEF Refitted
<1>7. Refitted(restored, first)
  BY <1>1, <1>6, LoadRefsFacts DEF SnapshotOK
<1>8. \A e \in DOMAIN first :
         /\ restored[e].component = first[e].component /\ restored[e].parent = first[e].parent
         /\ first[e].mark = NotMarked => restored[e].ref = Stored(d.refs, first[e].id, Nobody)
  BY <1>6, LoadRefsFields
<1> HIDE DEF restored
<1>9. restored \in [DOMAIN restored -> EntityState] /\ DOMAIN restored \subseteq Nat
  BY <1>3, <1>4, <1>7 DEF Refitted
<1>10. Refitted(related, restored)
  BY <1>9, LoadChildOfFacts
<1>11. \A e \in DOMAIN restored :
          /\ related[e].component = restored[e].component /\ related[e].ref = restored[e].ref
          /\ related[e].parent =
                IF restored[e].mark = NotMarked
                THEN LoadedParent(restored, map, d.parents, restored[e].id, restored[e].parent)
                ELSE restored[e].parent
  BY <1>9, LoadChildOfFields
<1> HIDE DEF related
<1>12. related \in [DOMAIN related -> EntityState]
  BY <1>10 DEF Refitted
<1>13. \A e \in DOMAIN related :
          /\ R[e].component = related[e].component /\ R[e].parent = related[e].parent
          /\ R[e].ref = MappedRef(map, e, related[e].ref)
  BY <1>12, MapComponentsFields
<1> HIDE DEF R
<1>14. DOMAIN restored = DOMAIN rebuilt
  BY <1>4, <1>7 DEF Refitted
<1>15. ASSUME NEW e \in DOMAIN rebuilt
       PROVE  /\ first[e].id = rebuilt[e].id /\ first[e].mark = rebuilt[e].mark
              /\ restored[e].id = rebuilt[e].id /\ restored[e].mark = rebuilt[e].mark
              /\ e \in DOMAIN first /\ e \in DOMAIN restored /\ e \in DOMAIN related
  BY <1>4, <1>7, <1>10 DEF Refitted
<1>16. \A r, p : LoadedParent(restored, map, d.parents, r, p) = LoadedParent(rebuilt, map, d.parents, r, p)
  BY <1>14 DEF LoadedParent
<1>17. ASSUME NEW e \in DOMAIN rebuilt
       PROVE  LET x == rebuilt[e]
              IN  /\ x.mark = NotMarked =>
                        /\ R[e].component = Stored(d.components, x.id, Absent)
                        /\ R[e].ref = MappedRef(map, e, Stored(d.refs, x.id, Nobody))
                        /\ R[e].parent = LoadedParent(rebuilt, map, d.parents, x.id, x.parent)
                  /\ x.mark # NotMarked => R[e].parent = x.parent
  BY <1>5, <1>8, <1>11, <1>13, <1>15, <1>16
<1> QED BY <1>17 DEF R, related, restored, first, rebuilt, map

\* The entities after LoadWorld.
LoadedWorld(E, f, d) ==
    LET C        == Resurrect(E, f)
        map      == EntityMap(C, d.entities)
        rebuilt  == LoadEntities(C, d.entities)
        restored == LoadRefs(LoadComponents(rebuilt, d.components), d.refs)
        related  == LoadChildOf(restored, map, d.parents)
    IN  MapComponents(related, map)

(***************************************************************************)
(* The families after LoadWorld: a parent from the snapshot is there and   *)
(* is not marked; where it is not in the map, the current parent stays.    *)
(***************************************************************************)
LEMMA LoadedKin ==
    ASSUME NEW E, NEW f, NEW d, NEW o, Loadable(E, f, d, o)
    PROVE  LET R == LoadedWorld(E, f, d)
               rebuilt == LoadEntities(Resurrect(E, f), d.entities)
           IN  Kinship(R) /\ Refitted(R, rebuilt)
<1> DEFINE C == Resurrect(E, f)
           map == EntityMap(C, d.entities)
           rebuilt == LoadEntities(C, d.entities)
           R == LoadedWorld(E, f, d)
<1>1. Refitted(R, rebuilt)
  BY LoadedFacts DEF Loadable, LoadedWorld
<1>2. Kinship(rebuilt) /\ \A e \in DOMAIN rebuilt : rebuilt[e].mark = NotMarked => rebuilt[e].id \in DOMAIN d.entities
  BY RebuiltTrue
<1>3. \A q \in DOMAIN d.entities :
         d.entities[q] \in DOMAIN map =>
            LET p == map[d.entities[q]]
            IN  p \in DOMAIN rebuilt /\ rebuilt[p].id = q /\ rebuilt[p].mark = NotMarked
  BY MapOfSaved
<1>4. \A e \in DOMAIN rebuilt :
         LET x == rebuilt[e]
         IN  /\ x.mark = NotMarked =>
                   R[e].parent = LoadedParent(rebuilt, map, d.parents, x.id, x.parent)
             /\ x.mark # NotMarked => R[e].parent = x.parent
  BY LoadedFields DEF LoadedWorld
<1>5. \A r \in DOMAIN d.parents :
         \E q \in DOMAIN d.entities : d.entities[q] = d.parents[r] /\ q < r
  BY DEF Loadable, SnapshotTrue
<1> HIDE DEF map, rebuilt, R
<1>6. DOMAIN R = DOMAIN rebuilt /\ \A e \in DOMAIN R : R[e].id = rebuilt[e].id /\ R[e].mark = rebuilt[e].mark
  BY <1>1 DEF Refitted
<1>7. ASSUME NEW c \in DOMAIN R, R[c].parent # Nobody
      PROVE  LET p == R[c].parent
             IN  /\ p \in DOMAIN R
                 /\ R[p].id < R[c].id
                 /\ R[p].mark # NotMarked => R[c].mark # NotMarked /\ R[c].mark <= R[p].mark
  <2> DEFINE r == rebuilt[c].id
  <2>1. CASE R[c].parent = rebuilt[c].parent
    <3> DEFINE p == rebuilt[c].parent
    <3>1. /\ p \in DOMAIN rebuilt
          /\ rebuilt[p].id < rebuilt[c].id
          /\ rebuilt[p].mark # NotMarked =>
                rebuilt[c].mark # NotMarked /\ rebuilt[c].mark <= rebuilt[p].mark
      BY <1>2, <1>6, <1>7, <2>1 DEF Kinship
    <3>2. R[c].parent = p
      BY <2>1
    <3> HIDE DEF p
    <3> QED BY <1>6, <3>1, <3>2
  <2>2. CASE R[c].parent # rebuilt[c].parent
    <3>1. /\ rebuilt[c].mark = NotMarked
          /\ R[c].parent = LoadedParent(rebuilt, map, d.parents, r, rebuilt[c].parent)
      BY <1>4, <1>6, <2>2
    <3>2. r \in DOMAIN d.parents /\ d.parents[r] \in DOMAIN map /\ R[c].parent = map[d.parents[r]]
      BY <1>7, <2>2, <3>1 DEF LoadedParent
    <3>3. PICK q \in DOMAIN d.entities : d.entities[q] = d.parents[r] /\ q < r
      BY <1>5, <3>2
    <3> DEFINE p == map[d.entities[q]]
    <3>4. p \in DOMAIN rebuilt /\ rebuilt[p].id = q /\ rebuilt[p].mark = NotMarked
      BY <1>3, <3>2, <3>3
    <3>5. R[c].parent = p
      BY <3>2, <3>3
    <3> HIDE DEF p
    <3> QED BY <1>6, <3>3, <3>4, <3>5
  <2> QED BY <2>1, <2>2
<1>8. Kinship(R)
  BY <1>7 DEF Kinship
<1> QED BY <1>1, <1>8 DEF R, rebuilt

(***************************************************************************)
(* The snapshots that are older than the loaded one, or are it, hold for   *)
(* the loaded world: what is spawned again has a number that is in none.   *)
(***************************************************************************)
LEMMA LoadedEntry ==
    ASSUME NEW E, NEW f, NEW d, NEW o, Loadable(E, f, d, o),
           NEW b, b = d \/ OneTimeline(d, b),
           SnapshotTrue(b, nextEntity), Parented(E, b), Numbered(E, b),
           \A r \in DOMAIN b.entities : r \in 1 .. (nextEntity - 1)
    PROVE  LET R == LoadedWorld(E, f, d)
           IN  Seen(R, b) /\ Parented(R, b) /\ Numbered(R, b)
<1> DEFINE C == Resurrect(E, f)
           T == Missing(C, d.entities)
           map == EntityMap(C, d.entities)
           rebuilt == LoadEntities(C, d.entities)
           R == LoadedWorld(E, f, d)
<1>1. /\ nextEntity \in Nat \ {0} /\ f \in Nat /\ E \in [DOMAIN E -> EntityState] /\ Kinship(E)
      /\ \A r \in DOMAIN d.entities : r \in 1 .. (nextEntity - 1)
  BY DEF Loadable, WorldOK, SnapshotOK
<1>2. /\ DOMAIN C = DOMAIN E
      /\ \A e \in DOMAIN E : C[e].id = E[e].id
  BY <1>1, ResurrectFacts DEF Evolved
<1>3. \A e \in DOMAIN E : C[e].parent = E[e].parent
  BY <1>1, ResurrectKin
<1>4. /\ \A e \in DOMAIN rebuilt :
            \/ e \in DOMAIN C /\ rebuilt[e] = C[e]
            \/ /\ rebuilt[e].id \in T /\ e = Respawned(C, d.entities, rebuilt[e].id)
               /\ rebuilt[e].mark = NotMarked
      /\ \A e \in DOMAIN rebuilt : rebuilt[e].mark = NotMarked => rebuilt[e].id \in DOMAIN d.entities
  BY RebuiltTrue
<1>5. \A r \in T : Respawned(C, d.entities, r) \in Nat /\ Respawned(C, d.entities, r) >= nextEntity
  <2>1. /\ Cardinality(T) \in Nat
        /\ \A r \in T : Respawned(C, d.entities, r) \in nextEntity .. (nextEntity + Cardinality(T) - 1)
    BY <1>1, RespawnedFacts
  <2> HIDE DEF T, C
  <2> QED BY <1>1, <2>1
<1>6. Kinship(R) /\ Refitted(R, rebuilt)
  BY LoadedKin
<1>7. \A e \in DOMAIN rebuilt : rebuilt[e].mark # NotMarked => R[e].parent = rebuilt[e].parent
  BY LoadedFields DEF LoadedWorld
<1>8. \A r \in DOMAIN b.entities : b.entities[r] \in Int /\ b.entities[r] < nextEntity
  BY <1>1 DEF SnapshotTrue
<1> HIDE DEF R, rebuilt, T, C
<1>9. DOMAIN R = DOMAIN rebuilt /\ \A e \in DOMAIN R : R[e].id = rebuilt[e].id /\ R[e].mark = rebuilt[e].mark
  BY <1>6 DEF Refitted
<1>10. ASSUME NEW e \in DOMAIN R
       PROVE  \/ e \in DOMAIN E /\ R[e].id = E[e].id
              \/ e \in Nat /\ e >= nextEntity
  BY <1>2, <1>4, <1>5, <1>9
<1>11. ASSUME NEW e \in DOMAIN R, R[e].mark = NotMarked, Registered(R[e].id, b.ordered)
       PROVE  R[e].id \in DOMAIN b.entities
  <2>1. R[e].id \in DOMAIN d.entities
    BY <1>4, <1>9, <1>11
  <2> QED BY <1>11, <2>1 DEF OneTimeline
<1>12. ASSUME NEW e \in DOMAIN R, NEW r \in DOMAIN b.entities
       PROVE  /\ b.entities[r] = e => R[e].id = r
              /\ R[e].id = r => b.entities[r] <= e
  <2>1. CASE e \in DOMAIN E /\ R[e].id = E[e].id
    BY <2>1 DEF Numbered
  <2>2. CASE e \in Nat /\ e >= nextEntity
    BY <1>1, <1>8, <2>2
  <2> QED BY <1>10, <2>1, <2>2
<1>13. ASSUME NEW c \in DOMAIN R, R[c].parent # Nobody, R[c].id \in DOMAIN b.entities,
              Registered(R[R[c].parent].id, b.ordered)
       PROVE  R[R[c].parent].id \in DOMAIN b.entities
  <2> DEFINE p == R[c].parent
  <2>1. p \in DOMAIN R /\ (R[p].mark # NotMarked => R[c].mark # NotMarked)
    BY <1>6, <1>13 DEF Kinship
  <2>2. CASE R[p].mark = NotMarked
    BY <1>11, <1>13, <2>1, <2>2
  <2>3. CASE R[p].mark # NotMarked
    <3>1. rebuilt[c].mark # NotMarked /\ rebuilt[p].mark # NotMarked /\ c \in DOMAIN rebuilt /\ p \in DOMAIN rebuilt
      BY <1>9, <2>1, <2>3
    <3>2. c \in DOMAIN E /\ p \in DOMAIN E /\ rebuilt[c] = C[c] /\ rebuilt[p] = C[p]
      BY <1>2, <1>4, <3>1
    <3>3. p = E[c].parent
      BY <1>3, <1>7, <3>1, <3>2
    <3>4. R[c].id = E[c].id /\ R[p].id = E[p].id
      BY <1>2, <1>9, <3>1, <3>2
    <3> QED BY <1>13, <3>2, <3>3, <3>4 DEF Parented
  <2> QED BY <2>2, <2>3
<1>14. Seen(R, b)
  BY <1>11 DEF Seen, Visible
<1>15. Parented(R, b)
  BY <1>13 DEF Parented
<1>16. Numbered(R, b)
  BY <1>12 DEF Numbered
<1> QED BY <1>14, <1>15, <1>16 DEF R

(***************************************************************************)
(* The RollbackIds of the snapshot are in the loaded world, each once, and *)
(* no others; no mark is of a later frame.                                 *)
(***************************************************************************)
LEMMA LoadedIds ==
    ASSUME NEW E, NEW f, NEW d, NEW o, Loadable(E, f, d, o)
    PROVE  LET R == LoadedWorld(E, f, d)
           IN  /\ IdsOf(R) = DOMAIN d.entities
               /\ \A r \in DOMAIN d.entities :
                     LET e == WithId(R, r)
                     IN  e \in Visible(R) /\ R[e].id = r /\ \A x \in DOMAIN R : R[x].id = r => x = e
               /\ Dated(R, f)
<1> DEFINE C == Resurrect(E, f)
           T == Missing(C, d.entities)
           n == nextEntity + Cardinality(T)
           rebuilt == LoadEntities(C, d.entities)
           R == LoadedWorld(E, f, d)
           ids == DOMAIN d.entities
<1>1. /\ nextEntity \in Nat \ {0} /\ f \in Nat /\ E \in [DOMAIN E -> EntityState]
      /\ \A r \in ids : r \in 1 .. (nextEntity - 1)
      /\ WorldOK(E, nextEntity) /\ SnapshotOK(d, nextEntity) /\ Agree(E, f, d)
      /\ \A e \in DOMAIN E : E[e].id <= e
  BY DEF Loadable, WorldOK, SnapshotOK
<1>2. /\ DOMAIN C = DOMAIN E
      /\ \A e \in DOMAIN E : C[e].id = E[e].id
      /\ \A e \in DOMAIN E : C[e].mark = IF E[e].mark > f THEN NotMarked ELSE E[e].mark
  BY <1>1, ResurrectFacts DEF Evolved
<1>3. WorldOK(rebuilt, n)
  BY <1>1, RebuiltFacts
<1>4. /\ \A e \in DOMAIN rebuilt :
            \/ e \in DOMAIN C /\ rebuilt[e] = C[e]
            \/ /\ rebuilt[e].id \in T /\ e = Respawned(C, d.entities, rebuilt[e].id)
               /\ rebuilt[e].mark = NotMarked
      /\ \A e \in DOMAIN rebuilt : rebuilt[e].mark = NotMarked => rebuilt[e].id \in ids
      /\ \A e \in DOMAIN C :
            C[e].id \in ids => e \in DOMAIN rebuilt /\ rebuilt[e] = C[e]
      /\ \A r \in T :
            LET e == Respawned(C, d.entities, r)
            IN  e \in DOMAIN rebuilt /\ rebuilt[e].id = r /\ rebuilt[e].mark = NotMarked
  BY RebuiltTrue
<1>5. \A e \in DOMAIN C : C[e].id \in ids => C[e].mark = NotMarked
  BY Survivors
<1>6. /\ Cardinality(T) \in Nat
      /\ \A r \in T : Respawned(C, d.entities, r) \in nextEntity .. (nextEntity + Cardinality(T) - 1)
  BY <1>1, RespawnedFacts
<1>7. DOMAIN R = DOMAIN rebuilt /\ \A e \in DOMAIN R : R[e].id = rebuilt[e].id /\ R[e].mark = rebuilt[e].mark
  BY LoadedKin DEF Refitted
<1>8. T \subseteq ids /\ \A r \in ids \ T : \E e \in DOMAIN C : C[e].id = r
  BY DEF Missing, IdsOf, Visible
<1> HIDE DEF R, rebuilt, C, T
<1>9. \A e, x \in DOMAIN R : R[e].id = R[x].id => e = x
  BY <1>3, <1>7 DEF WorldOK
<1>10. ASSUME NEW r \in ids
       PROVE  \E e \in DOMAIN R : R[e].id = r /\ R[e].mark = NotMarked
  <2>1. CASE r \in T
    BY <1>4, <1>7, <2>1
  <2>2. CASE r \notin T
    <3>1. PICK e \in DOMAIN C : C[e].id = r
      BY <1>8, <2>2
    <3>2. e \in DOMAIN rebuilt /\ rebuilt[e] = C[e] /\ C[e].mark = NotMarked
      BY <1>1, <1>4, <1>5, <3>1
    <3> QED BY <1>7, <3>1, <3>2
  <2> QED BY <2>1, <2>2
<1>11. IdsOf(R) = ids
  BY <1>4, <1>7, <1>10 DEF IdsOf, Visible
<1>12. ASSUME NEW r \in ids
       PROVE  LET e == WithId(R, r)
              IN  e \in Visible(R) /\ R[e].id = r /\ \A x \in DOMAIN R : R[x].id = r => x = e
  <2> DEFINE e == WithId(R, r)
  <2>1. e \in Visible(R) /\ R[e].id = r
    BY <1>10 DEF WithId, Visible
  <2>2. e \in DOMAIN R
    BY <2>1 DEF Visible
  <2> HIDE DEF e
  <2>3. \A x \in DOMAIN R : R[x].id = r => x = e
    BY <1>9, <2>1, <2>2
  <2> QED BY <2>1, <2>3 DEF e
<1>13. ASSUME NEW e \in DOMAIN R
       PROVE  R[e].mark <= f /\ R[e].id <= e
  <2>1. CASE e \in DOMAIN C /\ rebuilt[e] = C[e]
    <3>1. R[e].id = E[e].id /\ R[e].mark = IF E[e].mark > f THEN NotMarked ELSE E[e].mark
      BY <1>2, <1>7, <2>1
    <3>2. E[e].mark \in Nat
      BY <1>1, <1>2, <2>1 DEF EntityState
    <3>3. R[e].mark <= f
      BY <1>1, <3>1, <3>2 DEF NotMarked
    <3> QED BY <1>1, <1>2, <2>1, <3>1, <3>3
  <2>2. CASE /\ rebuilt[e].id \in T /\ e = Respawned(C, d.entities, rebuilt[e].id)
             /\ rebuilt[e].mark = NotMarked
    <3>1. R[e].id \in 1 .. (nextEntity - 1) /\ R[e].mark = NotMarked
      BY <1>1, <1>7, <1>8, <2>2
    <3>2. e \in Int /\ e >= nextEntity
      BY <1>1, <1>6, <2>2
    <3> QED BY <1>1, <3>1, <3>2 DEF NotMarked
  <2> QED BY <1>4, <1>7, <2>1, <2>2
<1>14. Dated(R, f)
  BY <1>13 DEF Dated
<1> QED BY <1>11, <1>12, <1>14 DEF R

(***************************************************************************)
(* The resource refers to an Entity number that was handed out.            *)
(***************************************************************************)
LEMMA LoadedTarget ==
    ASSUME NEW E, NEW f, NEW d, NEW o, Loadable(E, f, d, o)
    PROVE  LET C == Resurrect(E, f)
               map == EntityMap(C, d.entities)
           IN  MapResource(d.target, map) < nextEntity + Cardinality(Missing(C, d.entities))
<1> DEFINE C == Resurrect(E, f)
           T == Missing(C, d.entities)
           n == nextEntity + Cardinality(T)
           map == EntityMap(C, d.entities)
           present == {e \in Visible(C) : C[e].id \in DOMAIN d.entities}
           lost == {d.entities[r] : r \in T}
           Back(e) == CHOOSE r \in T : d.entities[r] = e
           t == d.target
<1>1. /\ nextEntity \in Nat \ {0} /\ t \in Nat /\ t < nextEntity
      /\ \A r \in DOMAIN d.entities : r \in 1 .. (nextEntity - 1)
      /\ \A r \in DOMAIN d.entities : d.entities[r] \in r .. (nextEntity - 1)
  BY DEF Loadable, SnapshotOK, SnapshotTrue
<1>2. /\ Cardinality(T) \in Nat
      /\ \A r \in T : Respawned(C, d.entities, r) \in nextEntity .. (n - 1)
  BY <1>1, RespawnedFacts
<1>3. map = [e \in present \union lost |->
                IF e \in present THEN d.entities[C[e].id] ELSE Respawned(C, d.entities, Back(e))]
  BY DEF EntityMap
<1>4. \A e \in lost : Back(e) \in T
  OBVIOUS
<1>5. \A e \in present : C[e].id \in DOMAIN d.entities
  OBVIOUS
<1>6. MapResource(t, map) = IF t \in DOMAIN map THEN map[t] ELSE t
  BY DEF MapResource
<1> HIDE DEF C, T, map, present, lost, Back, t
<1>7. n \in Nat /\ nextEntity <= n
  BY <1>1, <1>2
<1> HIDE DEF n
<1>8. \A e \in present : d.entities[C[e].id] \in Int /\ d.entities[C[e].id] < n
  BY <1>1, <1>5, <1>7
<1>9. \A e \in lost : Respawned(C, d.entities, Back(e)) < n
  BY <1>1, <1>2, <1>4, <1>7
<1>10. t < n
  BY <1>1, <1>7
<1>11. t \in DOMAIN map => map[t] < n
  BY <1>3, <1>8, <1>9
<1>12. MapResource(t, map) < n
  BY <1>6, <1>10, <1>11
<1> QED BY <1>12 DEF t, n, T, map, C

(***************************************************************************)
(* A load: what is loaded, and what is left of the storage.                *)
(***************************************************************************)
LEMMA LoadSetting ==
    ASSUME WorldInv, KinInv, NEW f \in 0 .. frame, NEW k, LoadWorld(f, k)
    PROVE  LET t == Rollback(store, f)
               p == t.entries
               d == Get(t)
           IN  /\ Loadable(entities, f, d, ordered)
               /\ entities' = LoadedWorld(entities, f, d)
               /\ store' = t /\ Len(p) \in Nat /\ Len(p) >= 1 /\ p[1].frame = f
               /\ \A i \in 1 .. Len(p) :
                     /\ EntryTrue(p[i], entities, ordered, nextEntity)
                     /\ SnapshotOK(p[i].data, nextEntity)
                     /\ p[i].frame \in Nat /\ p[i].frame <= f
                     /\ p[i].data = d \/ OneTimeline(d, p[i].data)
                     /\ \E j \in 1 .. Len(store.entries) : p[i] = store.entries[j]
               /\ \A i, j \in 1 .. Len(p) : i < j => OneTimeline(p[i].data, p[j].data)
<1> DEFINE t == Rollback(store, f)
           p == t.entries
           q == store.entries
           d == Get(t)
<1>1. /\ frame \in 0 .. MaxFrame /\ MaxFrame \in Nat /\ nextEntity \in Nat \ {0}
      /\ store \in Storage(MaxFrame, DataOf(store)) /\ Descending(q)
      /\ f \in 0 .. MaxFrame /\ f \in Nat
  BY RollbackWorldAssumption DEF WorldInv, StoreOK
<1>2. CanRollback(store, f)
  BY DEF LoadWorld
<1>3. /\ t \in Storage(MaxFrame, DataOf(store)) /\ Descending(p)
      /\ Within(p, q)
      /\ Len(p) >= 1 /\ Front(t).frame = f
      /\ \A i \in 1 .. Len(p) : p[i].frame <= f
  BY <1>1, <1>2, RollbackFacts
<1>4. d = p[1].data /\ p[1].frame = f
  BY <1>3 DEF Get, Front
<1>5. entities' = LoadedWorld(entities, f, d) /\ store' = t
  BY DEF LoadWorld, LoadedWorld
<1> HIDE DEF t, d
<1>6. /\ Len(p) \in Nat /\ \A i \in 1 .. Len(p) : p[i].frame \in 0 .. MaxFrame
      /\ \A i \in 1 .. Len(q) : q[i].frame \in 0 .. MaxFrame
      /\ Len(q) \in Nat
  BY <1>1, <1>3, StoredEntry, LenProperties DEF Storage
<1>7. \A i \in 1 .. Len(p) : \E j \in 1 .. Len(q) : p[i] = q[j]
  BY <1>3 DEF Within
<1> HIDE DEF p
<1>8. \A i \in 1 .. Len(q) :
         /\ EntryTrue(q[i], entities, ordered, nextEntity)
         /\ SnapshotOK(q[i].data, nextEntity)
         /\ Agree(entities, q[i].frame, q[i].data)
  BY DEF KinInv, StoreTrue, WorldInv, StoreOK
<1>9. \A i, j \in 1 .. Len(q) : i < j => OneTimeline(q[i].data, q[j].data)
  BY DEF KinInv, StoreTrue
<1> HIDE DEF q
<1>10. \A i \in 1 .. Len(p) :
         /\ EntryTrue(p[i], entities, ordered, nextEntity)
         /\ SnapshotOK(p[i].data, nextEntity)
         /\ Agree(entities, p[i].frame, p[i].data)
  BY <1>7, <1>8
<1>11. ASSUME NEW i \in 1 .. Len(p), NEW j \in 1 .. Len(p), i < j
       PROVE  OneTimeline(p[i].data, p[j].data)
  <2>1. PICK a \in 1 .. Len(q) : p[i] = q[a]
    BY <1>7
  <2>2. PICK b \in 1 .. Len(q) : p[j] = q[b]
    BY <1>7
  <2>3. q[a].frame > q[b].frame
    BY <1>3, <1>11, <2>1, <2>2 DEF Descending
  <2>4. a < b
    <3>1. CASE a = b
      BY <1>6, <2>3, <3>1
    <3>2. CASE b < a
      <4>1. q[b].frame > q[a].frame
        BY <1>1, <3>2 DEF Descending
      <4> QED BY <1>6, <2>3, <4>1
    <3> QED BY <1>6, <3>1, <3>2
  <2> QED BY <1>9, <2>1, <2>2, <2>4
<1>12. ASSUME NEW i \in 1 .. Len(p)
       PROVE  p[i].data = d \/ OneTimeline(d, p[i].data)
  <2>1. CASE i = 1
    BY <1>4, <2>1
  <2>2. CASE i # 1
    <3>1. 1 \in 1 .. Len(p) /\ 1 < i
      BY <1>3, <1>6, <2>2
    <3> QED BY <1>4, <1>11, <3>1
  <2> QED BY <2>1, <2>2
<1>13. Loadable(entities, f, d, ordered)
  <2>1. 1 \in 1 .. Len(p)
    BY <1>3, <1>6
  <2>2. /\ EntryTrue(p[1], entities, ordered, nextEntity)
        /\ SnapshotOK(d, nextEntity) /\ Agree(entities, f, d)
    BY <1>4, <1>10, <2>1
  <2>3. /\ SnapshotTrue(d, nextEntity) /\ Parented(entities, d) /\ Numbered(entities, d)
        /\ Down(ordered, d.ordered)
    BY <1>4, <2>2 DEF EntryTrue
  <2>4. /\ WorldOK(entities, nextEntity) /\ Kinship(entities)
        /\ \A e \in DOMAIN entities : Registered(entities[e].id, ordered)
        /\ \A e \in DOMAIN entities : entities[e].id <= e
    BY DEF WorldInv, KinInv, Dated
  <2> QED BY <1>1, <2>2, <2>3, <2>4 DEF Loadable
<1>14. \A i \in 1 .. Len(p) : p[i].frame \in Nat /\ p[i].frame <= f
  BY <1>1, <1>3, <1>6
<1> QED BY <1>3, <1>4, <1>5, <1>6, <1>7, <1>10, <1>11, <1>12, <1>13, <1>14 DEF p, q, t, d

(***************************************************************************)
(* LoadWorld.                                                              *)
(***************************************************************************)
LEMMA LoadTrue ==
    ASSUME WorldInv, KinInv, NEW f \in 0 .. frame, NEW k, LoadWorld(f, k)
    PROVE  KinInv'
<1> DEFINE t == Rollback(store, f)
           p == t.entries
           d == Get(t)
           C == Resurrect(entities, f)
           n == nextEntity + Cardinality(Missing(C, d.entities))
           R == LoadedWorld(entities, f, d)
           ids == DOMAIN d.entities
<1>1. /\ Loadable(entities, f, d, ordered)
      /\ entities' = R
      /\ store' = t /\ Len(p) \in Nat /\ Len(p) >= 1
      /\ \A i \in 1 .. Len(p) :
            /\ EntryTrue(p[i], entities, ordered, nextEntity)
            /\ SnapshotOK(p[i].data, nextEntity)
            /\ p[i].frame \in Nat /\ p[i].frame <= f
            /\ p[i].data = d \/ OneTimeline(d, p[i].data)
      /\ \A i, j \in 1 .. Len(p) : i < j => OneTimeline(p[i].data, p[j].data)
  BY LoadSetting
<1>2. /\ frame' = f /\ nextEntity' = n /\ ordered' = d.ordered /\ loaded'
      /\ target' = MapResource(d.target, EntityMap(C, d.entities))
  BY DEF LoadWorld
<1> HIDE DEF t, d
<1>3. Kinship(R)
  BY <1>1, LoadedKin
<1>4. /\ IdsOf(R) = ids
      /\ \A r \in ids : WithId(R, r) \in Visible(R) /\ R[WithId(R, r)].id = r
      /\ Dated(R, f)
  BY <1>1, LoadedIds
<1>5. target' < n
  BY <1>1, <1>2, LoadedTarget
<1>6. n \in Nat /\ nextEntity \in Nat /\ nextEntity <= n
  BY <1>1, RebuiltFacts DEF Loadable
<1>7. ASSUME NEW i \in 1 .. Len(p)
      PROVE  EntryTrue(p[i], R, d.ordered, n)
  <2> DEFINE b == p[i].data
  <2>1. /\ SnapshotTrue(b, nextEntity) /\ Parented(entities, b) /\ Numbered(entities, b)
        /\ SnapshotOK(b, nextEntity)
        /\ b = d \/ OneTimeline(d, b)
    BY <1>1 DEF EntryTrue
  <2>2. \A r \in DOMAIN b.entities : r \in 1 .. (nextEntity - 1) /\ Registered(r, b.ordered)
    BY <2>1 DEF SnapshotOK
  <2> HIDE DEF b
  <2>3. Seen(R, b) /\ Parented(R, b) /\ Numbered(R, b)
    BY <1>1, <2>1, <2>2, LoadedEntry
  <2> HIDE DEF n, R
  <2>4. SnapshotTrue(b, n)
    BY <1>6, <2>1, LaterTrue
  <2>5. Down(d.ordered, b.ordered) /\ \A r \in DOMAIN b.entities : Registered(r, d.ordered)
    <3>1. CASE b = d
      BY <2>2, <3>1 DEF Down, Registered
    <3>2. CASE OneTimeline(d, b)
      BY <3>2 DEF OneTimeline
    <3> QED BY <2>1, <3>1, <3>2
  <2> QED BY <2>3, <2>4, <2>5 DEF EntryTrue, b
<1>8. StoreTrue(t, R, d.ordered, n)
  BY <1>1, <1>7 DEF StoreTrue
<1>9. ASSUME NEW r \in ids
      PROVE  R[WithId(R, r)].component = Stored(d.components, r, Absent)
  <2> DEFINE e == WithId(R, r)
             B == LoadEntities(C, d.entities)
  <2>1. e \in DOMAIN R /\ R[e].mark = NotMarked /\ R[e].id = r
    BY <1>4 DEF Visible
  <2>2. Refitted(R, B)
    BY <1>1, LoadedKin
  <2>3. \A x \in DOMAIN B : B[x].mark = NotMarked => R[x].component = Stored(d.components, B[x].id, Absent)
    BY <1>1, LoadedFields DEF LoadedWorld
  <2> HIDE DEF B, R, e
  <2>4. e \in DOMAIN B /\ B[e].mark = NotMarked /\ B[e].id = r
    BY <2>1, <2>2 DEF Refitted
  <2>5. R[e].component = Stored(d.components, r, Absent)
    BY <2>3, <2>4
  <2> QED BY <2>5 DEF e
<1>10. Get(t) = d
  BY DEF d
<1>11. /\ DOMAIN d.view = ids
       /\ \A r \in ids : d.view[r].component = Stored(d.components, r, Absent)
  BY <1>1 DEF Loadable, SnapshotTrue
<1>12. \A r \in IdsOf(R) : View(R)[r].component = R[WithId(R, r)].component
  BY DEF View
<1> HIDE DEF R, n, C
<1>13. LoadRestoresComponents'
  <2>1. /\ IdsOf(R) = DOMAIN d.view
        /\ \A r \in DOMAIN d.view : View(R)[r].component = d.view[r].component
    BY <1>4, <1>9, <1>11, <1>12
  <2>2. LoadRestoresComponents' = (loaded' =>
            LET view == Get(store').view
            IN  /\ IdsOf(entities') = DOMAIN view
                /\ \A r \in DOMAIN view : View(entities')[r].component = view[r].component)
    BY DEF LoadRestoresComponents
  <2> QED BY <1>1, <1>10, <2>1, <2>2
<1>14. StoreTrue(store', entities', ordered', nextEntity')
  BY <1>1, <1>2, <1>8
<1>15. Kinship(entities') /\ Dated(entities', frame') /\ target' < nextEntity'
  BY <1>1, <1>2, <1>3, <1>4, <1>5
<1> QED BY <1>13, <1>14, <1>15 DEF KinInv

----------------------------------------------------------------------------
(***************************************************************************)
(* KinInv is inductive on top of WorldInv.                                 *)
(***************************************************************************)
LEMMA KinInvInit ==
    ASSUME Init
    PROVE  KinInv
<1>1. /\ frame = 0 /\ nextEntity = 1 /\ target = 0 /\ ~ loaded
      /\ Len(store.entries) = 0 /\ DOMAIN entities = {}
  BY DEF Init, Nobody, EmptySnapshots
<1>2. StoreTrue(store, entities, ordered, nextEntity)
  BY <1>1 DEF StoreTrue
<1> QED BY <1>1, <1>2 DEF KinInv, Kinship, Dated, LoadRestoresComponents

LEMMA KinInvNext ==
    ASSUME Orderly, WorldInv, KinInv, [Next]_vars
    PROVE  KinInv'
<1>1. CASE UNCHANGED vars
  BY <1>1 DEF vars, KinInv, LoadRestoresComponents
<1>2. \A k \in Confirmable : k \in Int
  <2>1. confirmed \in Int /\ frame \in Int
    BY DEF WorldInv
  <2> QED BY <2>1 DEF Confirmable
<1>3. ASSUME NEW k \in Confirmable, SaveWorld(k)
      PROVE  KinInv'
  BY <1>2, <1>3, SaveTrue
<1>4. ASSUME NEW f \in 0 .. frame, NEW k \in Confirmable, LoadWorld(f, k)
      PROVE  KinInv'
  BY <1>4, LoadTrue
<1>5. ASSUME NEW c \in Components, NEW e \in Ents \union {Nobody}, AdvanceSpawn(c, e)
      PROVE  KinInv'
  BY <1>5, SpawnTrue
<1> QED BY <1>1, <1>3, <1>4, <1>5, GameTrue DEF Next

LEMMA KinInvAlways ==
    ASSUME Orderly
    PROVE  Spec => []KinInv
<1>1. Init => KinInv
  BY KinInvInit
<1>2. WorldInv /\ KinInv /\ [Next]_vars => KinInv'
  BY KinInvNext
<1> QED BY <1>1, <1>2, WorldInvAlways, PTL DEF Spec

(***************************************************************************)
(* src/snapshot/{entity, component_snapshot}.rs: a load brings back the    *)
(* RollbackIds that were saved, with their plain components, although      *)
(* entities of the snapshot may have been despawned for good and have to   *)
(* be spawned again, and although despawning one entity takes its family   *)
(* along.  Children are only adopted by older entities; without this the   *)
(* run WorldReparent shows it to fail.                                     *)
(***************************************************************************)
THEOREM LoadRestoresComponentsAlways ==
    ASSUME Orderly
    PROVE  Spec => []LoadRestoresComponents
<1>1. KinInv => LoadRestoresComponents
  BY DEF KinInv
<1> QED BY <1>1, KinInvAlways, PTL

(***************************************************************************)
(* ResourceMapEntitiesPlugin, while every entity has its first number: the *)
(* saved number is in the map if the entity is there or is spawned again.  *)
(***************************************************************************)
LEMMA TargetFollows ==
    ASSUME NEW E, NEW f, NEW d, NEW o, Loadable(E, f, d, o),
           \A e \in DOMAIN E : E[e].id = e
    PROVE  LET map == EntityMap(Resurrect(E, f), d.entities)
           IN  IdOf(LoadedWorld(E, f, d), MapResource(d.target, map)) = d.aim
<1> DEFINE C == Resurrect(E, f)
           T == Missing(C, d.entities)
           map == EntityMap(C, d.entities)
           B == LoadEntities(C, d.entities)
           R == LoadedWorld(E, f, d)
           v == d.target
           w == MapResource(v, map)
           present == {e \in Visible(C) : C[e].id \in DOMAIN d.entities}
           lost == {d.entities[r] : r \in T}
<1>1. /\ nextEntity \in Nat \ {0} /\ f \in Nat /\ E \in [DOMAIN E -> EntityState]
      /\ \A e \in DOMAIN E : e \in 1 .. (nextEntity - 1)
      /\ \A r \in DOMAIN d.entities : r \in 1 .. (nextEntity - 1)
      /\ \A r \in DOMAIN d.entities : d.entities[r] \in r .. (nextEntity - 1)
      /\ \A r, q \in DOMAIN d.entities : d.entities[r] = d.entities[q] => r = q
      /\ \A e \in DOMAIN E, r \in DOMAIN d.entities : E[e].id = r => d.entities[r] <= e
      /\ d.aim = IdIn(d, v) /\ v \in Nat /\ v < nextEntity
  BY DEF Loadable, WorldOK, SnapshotOK, SnapshotTrue, Numbered
<1>2. DOMAIN C = DOMAIN E /\ \A e \in DOMAIN E : C[e].id = E[e].id
  BY <1>1, ResurrectFacts DEF Evolved
<1>3. \A e \in DOMAIN B :
         \/ e \in DOMAIN C /\ B[e] = C[e]
         \/ B[e].id \in T /\ e = Respawned(C, d.entities, B[e].id)
  BY RebuiltTrue
<1>4. \A e \in DOMAIN B : B[e].mark = NotMarked => B[e].id \in DOMAIN d.entities
  BY RebuiltTrue
<1>5. /\ Cardinality(T) \in Nat
      /\ \A r \in T : Respawned(C, d.entities, r) \in nextEntity .. (nextEntity + Cardinality(T) - 1)
  BY <1>1, RespawnedFacts
<1>6. \A q \in DOMAIN d.entities :
         LET x == d.entities[q]
         IN  /\ x \in DOMAIN map => /\ map[x] \in DOMAIN B
                                    /\ B[map[x]].id = q /\ B[map[x]].mark = NotMarked
             /\ q \in T => x \in DOMAIN map
             /\ (x \in DOMAIN C /\ C[x].id = q) => x \in DOMAIN map
  BY MapOfSaved
<1>7. DOMAIN R = DOMAIN B /\ \A e \in DOMAIN R : R[e].id = B[e].id /\ R[e].mark = B[e].mark
  BY LoadedKin DEF Refitted
<1>8. DOMAIN map = present \union lost
  BY DEF EntityMap
<1>9. \A q \in DOMAIN d.entities : q \in T \/ (q \in DOMAIN C)
  <2>1. \A q \in DOMAIN d.entities : q \in T \/ \E e \in DOMAIN C : C[e].id = q
    BY DEF Missing, IdsOf, Visible
  <2> QED BY <1>2, <2>1
<1>10. w = IF v \in DOMAIN map THEN map[v] ELSE v
  BY DEF MapResource
<1>11. \A e \in present : e \in DOMAIN C /\ C[e].id \in DOMAIN d.entities
  BY DEF Visible
<1>12. T \subseteq DOMAIN d.entities
  BY DEF Missing
<1> HIDE DEF C, T, map, B, R, v, w, present
<1>13. \A q \in DOMAIN d.entities : q \in DOMAIN C => d.entities[q] = q /\ C[q].id = q
  BY <1>1, <1>2
<1>14. CASE \E q \in DOMAIN d.entities : d.entities[q] = v
  <2>1. PICK q \in DOMAIN d.entities : d.entities[q] = v
    BY <1>14
  <2>2. v \in DOMAIN map
    BY <1>6, <1>9, <1>13, <2>1
  <2>3. w \in DOMAIN R /\ R[w].id = q /\ R[w].mark = NotMarked
    BY <1>6, <1>7, <1>10, <2>1, <2>2
  <2>4. v # Nobody
    BY <1>1, <2>1 DEF Nobody
  <2>5. (CHOOSE r \in DOMAIN d.entities : d.entities[r] = v) = q
    BY <1>1, <2>1
  <2>6. d.aim = q
    BY <1>1, <1>14, <2>4, <2>5 DEF IdIn
  <2>7. w # Nobody
    <3>1. w \in DOMAIN B
      BY <1>7, <2>3
    <3>2. w \in Int /\ w >= 1
      BY <1>1, <1>2, <1>3, <1>5, <3>1
    <3> QED BY <3>2 DEF Nobody
  <2>8. w \in Visible(R)
    BY <2>3 DEF Visible
  <2> QED BY <2>3, <2>6, <2>7, <2>8 DEF IdOf, R, w, map, C, v
<1>15. CASE ~ \E q \in DOMAIN d.entities : d.entities[q] = v
  <2>1. v \notin lost
    BY <1>12, <1>15
  <2>2. v \notin present
    BY <1>11, <1>13, <1>15, <1>2
  <2>3. w = v
    BY <1>8, <1>10, <2>1, <2>2
  <2>4. v \notin Visible(R)
    <3> SUFFICES ASSUME v \in DOMAIN B, B[v].mark = NotMarked PROVE FALSE
      BY <1>7 DEF Visible
    <3>1. v \in DOMAIN C /\ B[v] = C[v]
      BY <1>1, <1>3, <1>5
    <3>2. C[v].id = v /\ v \in DOMAIN d.entities
      BY <1>2, <1>4, <3>1
    <3> QED BY <1>13, <1>15, <3>1, <3>2
  <2>5. d.aim = IF v = Nobody THEN Nobody ELSE Dangling
    BY <1>1, <1>15 DEF IdIn
  <2>6. IdOf(R, v) = IF v = Nobody THEN Nobody ELSE Dangling
    BY <2>4 DEF IdOf
  <2> QED BY <2>3, <2>5, <2>6 DEF R, w, map, C, v
<1> QED BY <1>14, <1>15

(***************************************************************************)
(* src/snapshot/resource_map.rs: as long as no entity was spawned again    *)
(* before, a load makes the resource refer to the entity with the          *)
(* RollbackId it referred to when the frame was saved, whether that entity *)
(* is still there, is spawned again, or was gone then.                     *)
(***************************************************************************)
THEOREM ResourceFollowsRespawnAlways ==
    ASSUME Orderly
    PROVE  Spec => ResourceFollowsRespawn
<1> DEFINE First == \A e \in DOMAIN entities : entities[e].id = e
           Step == (loaded' /\ frame' < frame /\ First) => IdOf(entities', target') = Get(store').aim
<1>1. WorldInv /\ KinInv /\ [Next]_vars => [Step]_vars
  <2> SUFFICES ASSUME WorldInv, KinInv, Next, loaded', frame' < frame, First
               PROVE  IdOf(entities', target') = Get(store').aim
    OBVIOUS
  <2>1. frame \in Int
    BY DEF WorldInv
  <2>2. ASSUME NEW f \in 0 .. frame, NEW k \in Confirmable, LoadWorld(f, k)
        PROVE  IdOf(entities', target') = Get(store').aim
    <3> DEFINE d == Get(Rollback(store, f))
               w == MapResource(d.target, EntityMap(Resurrect(entities, f), d.entities))
    <3>1. Loadable(entities, f, d, ordered) /\ entities' = LoadedWorld(entities, f, d)
      BY <2>2, LoadSetting
    <3>2. target' = w /\ Get(store') = d
      BY <2>2 DEF LoadWorld
    <3>3. IdOf(LoadedWorld(entities, f, d), w) = d.aim
      <4> HIDE DEF d
      <4> QED BY <3>1, TargetFollows
    <3> QED BY <3>1, <3>2, <3>3
  <2>3. \A k \in Confirmable : ~ SaveWorld(k)
    BY <2>1 DEF SaveWorld
  <2>4. \A E : ~ AdvanceWorld(E)
    BY <2>1 DEF AdvanceWorld
  <2> QED BY <2>2, <2>3, <2>4 DEF Next, AdvanceQuiet, AdvanceSpawn, AdvanceChange, AdvanceRefer,
             AdvanceAim, AdvanceReparent, AdvanceDespawn, AdvanceDespawnRollback
<1> QED BY <1>1, WorldInvAlways, KinInvAlways, PTL DEF Spec, ResourceFollowsRespawn

----------------------------------------------------------------------------
(* Deferred despawns *)

\* The game despawns with despawn_rollback only, and nothing twice.
Deferring == Orderly /\ {"despawn", "despawn_again"} \intersect GameOps = {}

(***************************************************************************)
(* despawn_confirmed_entities takes only entities with a confirmed mark:   *)
(* the family of one was marked with it or before.                         *)
(***************************************************************************)
LEMMA ConfirmedOnly ==
    ASSUME WorldInv, Kinship(entities),
           NEW e \in DOMAIN entities, entities[e].mark = NotMarked \/ entities[e].mark > confirmed
    PROVE  e \in DOMAIN DespawnConfirmed
<1> DEFINE doomed == {x \in DOMAIN entities :
                         entities[x].mark # NotMarked /\ entities[x].mark <= confirmed}
           dead == UNION {Family(entities, x) : x \in doomed}
<1>1. CASE confirmed = lastSeen
  BY <1>1 DEF DespawnConfirmed
<1>2. CASE confirmed # lastSeen
  <2>1. DespawnConfirmed = [x \in DOMAIN entities \ dead |-> entities[x]]
    BY <1>2 DEF DespawnConfirmed, Despawn
  <2>2. /\ \A x \in DOMAIN entities : x \in Nat \ {0} /\ entities[x].mark \in Nat
        /\ confirmed \in Int
    BY DEF WorldInv, WorldOK, EntityState
  <2>3. e \notin doomed
    BY <2>2
  <2>4. \A c \in DOMAIN entities : entities[c].parent \in doomed => c \in doomed
    <3> SUFFICES ASSUME NEW c \in DOMAIN entities, entities[c].parent \in doomed
                 PROVE  c \in doomed
      OBVIOUS
    <3> DEFINE p == entities[c].parent
    <3>1. p \in DOMAIN entities /\ entities[p].mark # NotMarked /\ entities[p].mark <= confirmed
      OBVIOUS
    <3>2. p # Nobody
      BY <2>2, <3>1 DEF Nobody
    <3>3. entities[c].mark # NotMarked /\ entities[c].mark <= entities[p].mark
      BY <3>1, <3>2 DEF Kinship
    <3> HIDE DEF p
    <3> QED BY <2>2, <3>1, <3>3
  <2>5. doomed \in SUBSET DOMAIN entities
    OBVIOUS
  <2> HIDE DEF doomed
  <2>6. \A x \in doomed : Family(entities, x) \subseteq doomed
    BY <2>4, <2>5, FamilyWithin
  <2>7. e \notin dead
    BY <2>3, <2>6
  <2> QED BY <2>1, <2>7
<1> QED BY <1>1, <1>2

\* A mark is set only on what was seen.
FirstMarks(R, E) ==
    \A e \in DOMAIN R :
        e = nextEntity \/ (e \in DOMAIN E /\ (R[e].mark = E[e].mark \/ E[e].mark = NotMarked))

(***************************************************************************)
(* despawn_rollback on an entity whose family is seen.                     *)
(***************************************************************************)
LEMMA SeenAreMarked ==
    ASSUME NEW E, NEW e, NEW f, Family(E, e) \subseteq Visible(E)
    PROVE  FirstMarks(DespawnRollback(E, e, f), E)
<1> DEFINE R == DespawnRollback(E, e, f)
           F == Family(E, e)
<1>1. CASE confirmed < f
  <2>1. R = [x \in DOMAIN E |-> IF x \in F THEN [E[x] EXCEPT !.mark = f] ELSE E[x]]
    BY <1>1 DEF DespawnRollback
  <2>2. \A x \in F : E[x].mark = NotMarked
    BY DEF Visible
  <2> HIDE DEF R, F
  <2>3. DOMAIN R = DOMAIN E /\ \A x \in DOMAIN E : x \notin F => R[x] = E[x]
    BY <2>1
  <2> QED BY <2>2, <2>3 DEF FirstMarks, R
<1>2. CASE ~ (confirmed < f)
  <2>1. R = [x \in DOMAIN E \ UNION {Family(E, y) : y \in {e}} |-> E[x]]
    BY <1>2 DEF DespawnRollback, Despawn
  <2> HIDE DEF R
  <2> QED BY <2>1 DEF FirstMarks, R
<1> QED BY <1>1, <1>2

(***************************************************************************)
(* One frame.                                                              *)
(***************************************************************************)
LEMMA AdvanceDefers ==
    ASSUME WorldInv, KinInv, DeferInv, NEW R, AdvanceWorld(R),
           \A e \in DOMAIN R : R[e].id = e,
           FirstMarks(R, DespawnConfirmed),
           confirmed < frame + 1 => DOMAIN DespawnConfirmed \subseteq DOMAIN R
    PROVE  DeferInv'
<1>1. /\ entities' = R /\ store' = store /\ confirmed' = confirmed /\ ~ loaded'
  BY DEF AdvanceWorld
<1>2. /\ store \in Storage(MaxFrame, DataOf(store)) /\ MaxFrame \in Nat
      /\ frame \in Int /\ confirmed \in Int
      /\ entities \in [DOMAIN entities -> EntityState]
  BY RollbackWorldAssumption DEF WorldInv, StoreOK, WorldOK
<1>3. ASSUME NEW i \in 1 .. Len(store.entries), store.entries[i].frame > confirmed,
             NEW r \in DOMAIN store.entries[i].data.entities
      PROVE  r \in DOMAIN R
  <2> DEFINE x == store.entries[i]
  <2>1. x.frame \in 0 .. MaxFrame /\ x.frame <= frame /\ Agree(entities, x.frame, x.data)
    BY <1>2, StoredEntry DEF WorldInv, StoreOK
  <2>2. r \in DOMAIN entities /\ entities[r].id = r
    BY <1>3 DEF DeferInv
  <2>3. entities[r].mark = NotMarked \/ entities[r].mark > x.frame
    BY <1>3, <2>1, <2>2 DEF Agree
  <2>4. entities[r].mark \in Nat
    BY <1>2, <2>2 DEF EntityState
  <2>5. entities[r].mark = NotMarked \/ entities[r].mark > confirmed
    BY <1>2, <1>3, <2>1, <2>3, <2>4
  <2>6. r \in DOMAIN DespawnConfirmed
    BY <2>2, <2>5, ConfirmedOnly DEF KinInv
  <2>7. confirmed < frame + 1
    BY <1>2, <1>3, <2>1
  <2> QED BY <2>6, <2>7
<1>4. ASSUME NEW i \in 1 .. Len(store.entries)
      PROVE  Lasting(R, store.entries[i].frame, store.entries[i].data)
  <2> DEFINE g == store.entries[i].frame
             d == store.entries[i].data
  <2>1. /\ Lasting(entities, g, d) /\ \A e \in DOMAIN entities : entities[e].id = e
        /\ OrderOK(d.ordered, nextEntity) /\ nextEntity \in Nat
    BY DEF DeferInv, WorldInv, StoreOK, SnapshotOK
  <2> HIDE DEF g, d
  <2>2. \A e \in DOMAIN DespawnConfirmed : e \in DOMAIN entities /\ DespawnConfirmed[e] = entities[e]
    BY DespawnConfirmedTrue DEF KinInv, Aged
  <2>3. ~ Registered(nextEntity, d.ordered)
    <3>1. \A j \in DOMAIN d.ordered : d.ordered[j] \in 1 .. (nextEntity - 1)
      BY <2>1 DEF OrderOK
    <3> QED BY <2>1, <3>1 DEF Registered
  <2>4. ASSUME NEW e \in DOMAIN R, Registered(R[e].id, d.ordered),
               R[e].mark = NotMarked \/ R[e].mark > g
        PROVE  R[e].id \in DOMAIN d.entities
    <3>1. R[e].id = e /\ e # nextEntity
      BY <2>3, <2>4
    <3>2. e \in DOMAIN entities /\ (R[e].mark = entities[e].mark \/ entities[e].mark = NotMarked)
      BY <2>2, <3>1 DEF FirstMarks
    <3> QED BY <2>1, <2>4, <3>1, <3>2 DEF Lasting
  <2>5. Lasting(R, g, d)
    BY <2>4 DEF Lasting
  <2> QED BY <2>5 DEF g, d
<1>5. \A i \in 1 .. Len(store.entries) :
         LET d == store.entries[i].data
         IN  /\ Lasting(R, store.entries[i].frame, d)
             /\ \A r \in DOMAIN d.entities : d.entities[r] = r
             /\ store.entries[i].frame > confirmed => DOMAIN d.entities \subseteq DOMAIN R
  BY <1>3, <1>4 DEF DeferInv
<1>6. LoadRestoresView' /\ DespawnIsDeferred'
  BY <1>1 DEF LoadRestoresView, DespawnIsDeferred
<1> QED BY <1>1, <1>5, <1>6 DEF DeferInv

LEMMA GameDefers ==
    ASSUME Deferring, WorldInv, KinInv, DeferInv,
           \/ AdvanceQuiet
           \/ \E c \in Components, e \in Ents \union {Nobody} : AdvanceSpawn(c, e)
           \/ \E e \in Ents, c \in Components \union {Absent} : AdvanceChange(e, c)
           \/ \E e, other \in Ents : AdvanceRefer(e, other)
           \/ \E e \in Ents : AdvanceAim(e)
           \/ \E e, parent \in Ents : AdvanceReparent(e, parent)
           \/ \E e \in Ents : AdvanceDespawn(e)
           \/ \E e \in Ents : AdvanceDespawnRollback(e)
    PROVE  DeferInv'
<1> DEFINE E == DespawnConfirmed
<1>1. E \in [DOMAIN E -> EntityState] /\ \A e \in DOMAIN E : E[e].id = e
  BY DespawnConfirmedFacts DEF Evolved, DeferInv
<1>2. \A e \in Visible(E) : e \in DOMAIN E
  BY DEF Visible
<1>3. ASSUME NEW R, Refitted(R, E), AdvanceWorld(R)
      PROVE  DeferInv'
  <2>1. /\ DOMAIN R = DOMAIN E /\ \A e \in DOMAIN R : R[e].id = e
        /\ FirstMarks(R, E)
    BY <1>1, <1>3 DEF Refitted, FirstMarks
  <2> QED BY <1>3, <2>1, AdvanceDefers
<1>4. ASSUME AdvanceQuiet \/ \E e \in Ents : AdvanceAim(e)
      PROVE  DeferInv'
  <2>1. AdvanceWorld(E)
    BY <1>4 DEF AdvanceQuiet, AdvanceAim
  <2>2. Refitted(E, E)
    BY <1>1 DEF Refitted
  <2> HIDE DEF E
  <2> QED BY <1>3, <2>1, <2>2
<1>5. ASSUME NEW c \in Components, NEW parent \in Ents \union {Nobody}, AdvanceSpawn(c, parent)
      PROVE  DeferInv'
  <2> DEFINE n == nextEntity
             R == [e \in DOMAIN E \union {n} |-> IF e = n THEN NewEntity(e, c, parent) ELSE E[e]]
  <2>1. AdvanceWorld(R)
    BY <1>5 DEF AdvanceSpawn
  <2>2. DOMAIN R = DOMAIN E \union {n} /\ NewEntity(n, c, parent).id = n
    BY DEF NewEntity
  <2> HIDE DEF E
  <2>3. \A e \in DOMAIN R :
           \/ e = n /\ R[e] = NewEntity(n, c, parent)
           \/ e \in DOMAIN E /\ R[e] = E[e]
    OBVIOUS
  <2> HIDE DEF R
  <2>4. \A e \in DOMAIN R : R[e].id = e
    BY <1>1, <2>2, <2>3
  <2>5. FirstMarks(R, E)
    BY <2>3 DEF FirstMarks
  <2> QED BY <2>1, <2>2, <2>4, <2>5, AdvanceDefers DEF E
<1>6. ASSUME NEW e \in Ents, NEW c \in Components \union {Absent}, AdvanceChange(e, c)
      PROVE  DeferInv'
  <2> DEFINE R == [E EXCEPT ![e].component = c]
  <2>1. AdvanceWorld(R) /\ e \in DOMAIN E
    BY <1>2, <1>6 DEF AdvanceChange
  <2>2. Refitted(R, E)
    <3> HIDE DEF E
    <3> QED BY <1>1, <2>1, FieldSet
  <2> HIDE DEF R
  <2> QED BY <1>3, <2>1, <2>2
<1>7. ASSUME NEW e \in Ents, NEW other \in Ents, AdvanceRefer(e, other)
      PROVE  DeferInv'
  <2> DEFINE R == [E EXCEPT ![e].ref = other]
  <2>1. AdvanceWorld(R) /\ e \in DOMAIN E /\ other \in Nat
    BY <1>2, <1>7 DEF AdvanceRefer, Ents
  <2>2. Refitted(R, E)
    <3> HIDE DEF E
    <3> QED BY <1>1, <2>1, FieldSet
  <2> HIDE DEF R
  <2> QED BY <1>3, <2>1, <2>2
<1>8. ASSUME NEW e \in Ents, NEW parent \in Ents, AdvanceReparent(e, parent)
      PROVE  DeferInv'
  <2> DEFINE R == [E EXCEPT ![e].parent = parent]
  <2>1. AdvanceWorld(R) /\ e \in DOMAIN E /\ parent \in Nat
    BY <1>2, <1>8 DEF AdvanceReparent, Ents
  <2>2. Refitted(R, E)
    <3> HIDE DEF E
    <3> QED BY <1>1, <2>1, FieldSet
  <2> HIDE DEF R
  <2> QED BY <1>3, <2>1, <2>2
<1>9. \A e \in Ents : ~ AdvanceDespawn(e)
  BY DEF Deferring, AdvanceDespawn
<1>10. ASSUME NEW e \in Ents, AdvanceDespawnRollback(e)
       PROVE  DeferInv'
  <2> DEFINE m == frame + 1
             R == DespawnRollback(E, e, m)
  <2>1. AdvanceWorld(R) /\ e \in Visible(E) /\ Family(E, e) \subseteq Visible(E)
    BY <1>10 DEF AdvanceDespawnRollback, Deferring
  <2>2. Kinship(E) /\ m \in Nat \ {0}
    BY DespawnConfirmedTrue DEF KinInv, WorldInv
  <2>3. Aged(R, E, m)
    <3> HIDE DEF E, m
    <3> QED BY <1>1, <2>1, <2>2, DespawnRollbackTrue
  <2>4. /\ confirmed < m => DOMAIN R = DOMAIN E
        /\ FirstMarks(R, E)
    <3>1. confirmed < m => DOMAIN R = DOMAIN E
      BY DEF DespawnRollback
    <3>2. FirstMarks(R, E)
      <4> HIDE DEF E, m
      <4> QED BY <2>1, SeenAreMarked
    <3> QED BY <3>1, <3>2
  <2> HIDE DEF R
  <2>5. \A x \in DOMAIN R : R[x].id = x
    <3> HIDE DEF E, m
    <3> QED BY <1>1, <2>3 DEF Aged
  <2> QED BY <2>1, <2>4, <2>5, AdvanceDefers
<1> QED BY <1>4, <1>5, <1>6, <1>7, <1>8, <1>9, <1>10

(***************************************************************************)
(* SaveWorld.                                                              *)
(***************************************************************************)
LEMMA SaveDefers ==
    ASSUME WorldInv, KinInv, DeferInv, NEW k \in Int, confirmed <= k, SaveWorld(k)
    PROVE  DeferInv'
<1> DEFINE D == DataOf(store) \union {Snapshot}
           d == Snapshot
           q == store.entries
           t == SaveChain(store, MaxPrediction, k, frame, d)
           p == t.entries
<1>1. /\ frame \in 0 .. MaxFrame /\ MaxFrame \in Nat /\ MaxFrame < Half /\ MaxPrediction \in Nat
      /\ store \in Storage(MaxFrame, DataOf(store)) /\ Descending(q) /\ confirmed \in Int
  BY RollbackWorldAssumption DEF WorldInv, StoreOK
<1>2. /\ \A r \in DOMAIN d.entities : d.entities[r] = r
      /\ DOMAIN d.entities \subseteq DOMAIN entities
  <2>1. \A r \in IdsOf(entities) :
           /\ WithId(entities, r) \in DOMAIN entities
           /\ entities[WithId(entities, r)].id = r
    BY DEF IdsOf, WithId, Visible
  <2>2. \A r \in IdsOf(entities) : WithId(entities, r) = r
    BY <2>1 DEF DeferInv
  <2>3. d.entities = [r \in IdsOf(entities) |-> WithId(entities, r)]
    BY DEF Snapshot, SavedEntities
  <2> HIDE DEF d
  <2> QED BY <2>1, <2>2, <2>3
<1>3. Lasting(entities, frame, d)
  <2>1. d.entities = [r \in IdsOf(entities) |-> WithId(entities, r)]
    BY DEF Snapshot, SavedEntities
  <2>2. \A e \in DOMAIN entities : entities[e].mark \in Nat /\ entities[e].mark <= frame
    BY DEF WorldInv, WorldOK, EntityState, KinInv, Dated
  <2> HIDE DEF d
  <2>3. ASSUME NEW e \in DOMAIN entities, entities[e].mark = NotMarked \/ entities[e].mark > frame
        PROVE  entities[e].id \in DOMAIN d.entities
    <3>1. entities[e].mark = NotMarked
      BY <1>1, <2>2, <2>3
    <3> QED BY <2>1, <3>1 DEF IdsOf, Visible
  <2> QED BY <2>3 DEF Lasting
<1>4. \A i \in 1 .. Len(q) :
         /\ Lasting(entities, q[i].frame, q[i].data)
         /\ \A r \in DOMAIN q[i].data.entities : q[i].data.entities[r] = r
         /\ q[i].frame > confirmed => DOMAIN q[i].data.entities \subseteq DOMAIN entities
         /\ q[i].frame \in Int
  <2>1. \A i \in 1 .. Len(q) : q[i].frame \in 0 .. MaxFrame
    BY <1>1, StoredEntry
  <2> QED BY <2>1 DEF DeferInv
<1> HIDE DEF d
<1>5. store \in Storage(MaxFrame, D) /\ d \in D
  BY <1>1, StorageGrows DEF d
<1> HIDE DEF D
<1>6. NewOrOlder(p, q, frame, d)
  BY <1>1, <1>5, SaveChainFacts
<1>7. /\ store' = t /\ confirmed' = k /\ entities' = entities /\ ~ loaded'
  BY DEF SaveWorld, d
<1> HIDE DEF t, q
<1>8. ASSUME NEW i \in 1 .. Len(p)
      PROVE  /\ Lasting(entities, p[i].frame, p[i].data)
             /\ \A r \in DOMAIN p[i].data.entities : p[i].data.entities[r] = r
             /\ p[i].frame > k => DOMAIN p[i].data.entities \subseteq DOMAIN entities
  <2>1. CASE p[i] = Entry(frame, d)
    <3>1. p[i].data = d /\ p[i].frame = frame
      BY <2>1 DEF Entry
    <3> QED BY <1>2, <1>3, <3>1
  <2>2. CASE \E j \in 1 .. Len(q) : p[i] = q[j]
    <3>1. PICK j \in 1 .. Len(q) : p[i] = q[j]
      BY <2>2
    <3>2. p[i].frame > k => q[j].frame > confirmed
      BY <1>1, <1>4, <3>1
    <3> QED BY <1>4, <3>1, <3>2
  <2> QED BY <1>6, <2>1, <2>2 DEF NewOrOlder
<1>9. LoadRestoresView' /\ DespawnIsDeferred'
  BY <1>7 DEF LoadRestoresView, DespawnIsDeferred
<1> QED BY <1>7, <1>8, <1>9 DEF DeferInv

(***************************************************************************)
(* Entity::load despawns with the families of the entities that are not in *)
(* the snapshot only entities that were registered later.                  *)
(***************************************************************************)
LEMMA RegisteredStay ==
    ASSUME NEW E, NEW f, NEW d, NEW o, Loadable(E, f, d, o), Lasting(E, f, d)
    PROVE  LET C == Resurrect(E, f)
               R == LoadEntities(C, d.entities)
           IN  \A e \in DOMAIN C : Registered(C[e].id, d.ordered) => e \in DOMAIN R
<1> DEFINE C == Resurrect(E, f)
           doomed == {e \in Visible(C) : C[e].id \notin DOMAIN d.entities}
           dead == UNION {Family(C, e) : e \in doomed}
           kept == Despawn(C, doomed)
           R == LoadEntities(C, d.entities)
           S == {e \in DOMAIN C : ~ Registered(C[e].id, d.ordered)}
<1>1. /\ E \in [DOMAIN E -> EntityState] /\ f \in Nat /\ Kinship(E)
      /\ \A e \in DOMAIN E : e \in 1 .. (nextEntity - 1) /\ E[e].id \in 1 .. (nextEntity - 1)
      /\ \A e \in DOMAIN E : Registered(E[e].id, o)
      /\ nextEntity \in Nat \ {0}
      /\ \A r \in DOMAIN d.entities : r \in 1 .. (nextEntity - 1)
  BY DEF Loadable, WorldOK, SnapshotOK
<1>2. /\ DOMAIN C = DOMAIN E
      /\ \A e \in DOMAIN E : C[e].id = E[e].id
      /\ \A e \in DOMAIN E : C[e].mark = IF E[e].mark > f THEN NotMarked ELSE E[e].mark
  BY <1>1, ResurrectFacts DEF Evolved
<1>3. Kinship(C)
  BY <1>1, ResurrectKin
<1>4. \A e \in DOMAIN kept : e \in DOMAIN R
  <2>1. \A e \in DOMAIN C : e < nextEntity
    BY <1>1, <1>2
  <2> HIDE DEF C
  <2> QED BY <1>1, <2>1, LoadEntitiesShape
<1>5. kept = [e \in DOMAIN C \ dead |-> C[e]]
  BY DEF Despawn
<1> HIDE DEF C, kept, R
<1>6. ASSUME NEW c \in DOMAIN C, C[c].parent \in S
      PROVE  c \in S
  <2> SUFFICES ASSUME Registered(C[c].id, d.ordered)
               PROVE  FALSE
    OBVIOUS
  <2> DEFINE p == C[c].parent
  <2>1. p \in DOMAIN C /\ ~ Registered(C[p].id, d.ordered)
    BY <1>6
  <2>2. p # Nobody
    BY <1>1, <1>2, <2>1 DEF Nobody
  <2>3. C[p].id < C[c].id
    BY <1>3, <2>2 DEF Kinship
  <2> HIDE DEF p
  <2>4. PICK i \in DOMAIN o : o[i] = C[p].id
    BY <1>1, <1>2, <2>1 DEF Registered
  <2>5. PICK j \in DOMAIN d.ordered : d.ordered[j] = C[c].id
    BY DEF Registered
  <2>6. C[p].id \in Int /\ C[c].id \in Int
    BY <1>1, <1>2, <2>1
  <2>7. o[i] <= d.ordered[j]
    BY <2>3, <2>4, <2>5, <2>6
  <2>8. Registered(o[i], d.ordered)
    BY <2>7 DEF Loadable, Down
  <2> QED BY <2>1, <2>4, <2>8
<1>7. doomed \subseteq S
  <2> SUFFICES ASSUME NEW e \in doomed, Registered(C[e].id, d.ordered)
               PROVE  FALSE
    BY DEF Visible
  <2>1. e \in DOMAIN C /\ C[e].mark = NotMarked /\ C[e].id \notin DOMAIN d.entities
    BY DEF Visible
  <2>2. E[e].mark = NotMarked \/ E[e].mark > f
    BY <1>2, <2>1
  <2> QED BY <1>2, <2>1, <2>2 DEF Lasting
<1>8. ASSUME NEW e \in dead PROVE e \in S
  <2>1. PICK x \in doomed : e \in Family(C, x)
    BY <1>8
  <2>2. S \in SUBSET DOMAIN C /\ x \in S
    BY <1>7
  <2> HIDE DEF S
  <2>3. Family(C, x) \subseteq S
    BY <1>6, <2>2, FamilyWithin
  <2> QED BY <2>1, <2>3
<1> HIDE DEF dead
<1>9. \A e \in DOMAIN C : Registered(C[e].id, d.ordered) => e \in DOMAIN kept
  BY <1>5, <1>8
<1> QED BY <1>4, <1>9 DEF R, C

(***************************************************************************)
(* LoadWorld, when every entity of the snapshot is still there: nothing is *)
(* spawned again, and the map changes nothing.                             *)
(***************************************************************************)
LEMMA NothingMissing ==
    ASSUME NEW E, NEW f, NEW d, NEW o, Loadable(E, f, d, o), Lasting(E, f, d),
           \A e \in DOMAIN E : E[e].id = e,
           \A r \in DOMAIN d.entities : d.entities[r] = r /\ r \in DOMAIN E
    PROVE  LET C == Resurrect(E, f)
               map == EntityMap(C, d.entities)
               B == LoadEntities(C, d.entities)
           IN  /\ \A e \in DOMAIN map : map[e] = e
               /\ \A e \in DOMAIN B : B[e].id = e
               /\ \A e \in DOMAIN E : Registered(e, d.ordered) => e \in DOMAIN B
<1> DEFINE C == Resurrect(E, f)
           T == Missing(C, d.entities)
           map == EntityMap(C, d.entities)
           B == LoadEntities(C, d.entities)
           present == {e \in Visible(C) : C[e].id \in DOMAIN d.entities}
           lost == {d.entities[r] : r \in T}
           Else(e) == Respawned(C, d.entities, CHOOSE r \in T : d.entities[r] = e)
<1>1. E \in [DOMAIN E -> EntityState] /\ f \in Nat
  BY DEF Loadable, WorldOK
<1>2. DOMAIN C = DOMAIN E /\ \A e \in DOMAIN C : C[e].id = e
  BY <1>1, ResurrectFacts DEF Evolved
<1>3. \A e \in DOMAIN C : C[e].id \in DOMAIN d.entities => C[e].mark = NotMarked
  <2> DEFINE kept == Despawn(C, {e \in Visible(C) : C[e].id \notin DOMAIN d.entities})
  <2>1. \A e \in DOMAIN C :
           C[e].id \in DOMAIN d.entities => e \in DOMAIN kept /\ C[e].mark = NotMarked
    BY Survivors
  <2> QED BY <2>1
<1>4. /\ \A e \in DOMAIN B :
            \/ e \in DOMAIN C /\ B[e] = C[e]
            \/ B[e].id \in T
      /\ \A e \in DOMAIN C : Registered(C[e].id, d.ordered) => e \in DOMAIN B
  BY RebuiltTrue, RegisteredStay
<1>5. map = [e \in present \union lost |-> IF e \in present THEN d.entities[C[e].id] ELSE Else(e)]
  BY DEF EntityMap
<1> HIDE DEF C, map, B, Else
<1>6. T = {}
  BY <1>2, <1>3 DEF Missing, IdsOf, Visible
<1>7. \A e \in present : d.entities[C[e].id] = e
  BY <1>2 DEF Visible
<1>8. lost = {}
  BY <1>6
<1> HIDE DEF T, present, lost
<1>9. \A e \in DOMAIN map : map[e] = e
  BY <1>5, <1>7, <1>8
<1>10. \A e \in DOMAIN B : B[e].id = e
  BY <1>2, <1>4, <1>6
<1>11. \A e \in DOMAIN E : Registered(e, d.ordered) => e \in DOMAIN B
  BY <1>2, <1>4
<1> QED BY <1>9, <1>10, <1>11 DEF map, B, C

LEMMA ViewRestored ==
    ASSUME NEW E, NEW f, NEW d, NEW o, Loadable(E, f, d, o), Lasting(E, f, d),
           \A e \in DOMAIN E : E[e].id = e,
           \A r \in DOMAIN d.entities : d.entities[r] = r /\ r \in DOMAIN E
    PROVE  View(LoadedWorld(E, f, d)) = d.view
<1> DEFINE C == Resurrect(E, f)
           map == EntityMap(C, d.entities)
           B == LoadEntities(C, d.entities)
           R == LoadedWorld(E, f, d)
           ids == DOMAIN d.entities
<1>1. (\A e \in DOMAIN map : map[e] = e) /\ (\A e \in DOMAIN B : B[e].id = e)
  BY NothingMissing
<1>2. DOMAIN R = DOMAIN B /\ \A e \in DOMAIN R : R[e].id = B[e].id /\ R[e].mark = B[e].mark
  BY LoadedKin DEF Refitted
<1>3. /\ IdsOf(R) = ids
      /\ \A r \in ids : WithId(R, r) \in Visible(R) /\ R[WithId(R, r)].id = r
  BY LoadedIds
<1>4. \A e \in DOMAIN B :
         LET x == B[e]
         IN  x.mark = NotMarked =>
                /\ R[e].component = Stored(d.components, x.id, Absent)
                /\ R[e].ref = MappedRef(map, e, Stored(d.refs, x.id, Nobody))
                /\ R[e].parent = LoadedParent(B, map, d.parents, x.id, x.parent)
  BY LoadedFields DEF LoadedWorld
<1>5. \A q \in ids : q \in DOMAIN map /\ map[q] \in DOMAIN B
  <2>1. \A q \in ids : q \in DOMAIN C /\ C[q].id = q
    <3>1. E \in [DOMAIN E -> EntityState] /\ f \in Nat
      BY DEF Loadable, WorldOK
    <3>2. DOMAIN C = DOMAIN E /\ \A e \in DOMAIN C : C[e].id = e
      BY <3>1, ResurrectFacts DEF Evolved
    <3> QED BY <3>2
  <2>2. \A q \in ids :
           LET v == d.entities[q]
           IN  /\ v \in DOMAIN map => map[v] \in DOMAIN B
               /\ (v \in DOMAIN C /\ C[v].id = q) => v \in DOMAIN map
    BY MapOfSaved
  <2> HIDE DEF C, map, B
  <2> QED BY <2>1, <2>2
<1>6. \A r \in DOMAIN d.parents : d.parents[r] \in ids
  BY DEF Loadable, SnapshotTrue
<1>7. d.view = [r \in ids |->
                  [component |-> Stored(d.components, r, Absent),
                   ref       |-> IdIn(d, Stored(d.refs, r, Nobody)),
                   parent    |-> IdIn(d, Stored(d.parents, r, Nobody))]]
  BY DEF Loadable, SnapshotTrue
<1>8. View(R) = [r \in IdsOf(R) |->
                   [component |-> R[WithId(R, r)].component,
                    ref       |-> IdOf(R, R[WithId(R, r)].ref),
                    parent    |-> IdOf(R, R[WithId(R, r)].parent)]]
  BY DEF View
<1> HIDE DEF map, B, R, ids
<1>9. \A r \in ids : WithId(R, r) = r /\ r \in DOMAIN R /\ R[r].mark = NotMarked
  <2>1. \A e \in DOMAIN R : R[e].id = e
    BY <1>1, <1>2
  <2> QED BY <1>3, <2>1 DEF Visible
<1>10. ASSUME NEW v PROVE IdOf(R, v) = IdIn(d, v)
  <2>1. v \in Visible(R) <=> v \in ids
    <3>1. v \in ids => v \in Visible(R)
      BY <1>9 DEF Visible
    <3>2. v \in Visible(R) => v \in IdsOf(R)
      BY <1>1, <1>2 DEF IdsOf, Visible
    <3> QED BY <1>3, <3>1, <3>2
  <2>2. v \in Visible(R) => R[v].id = v
    BY <1>1, <1>2 DEF Visible
  <2>3. (\E r \in ids : d.entities[r] = v) <=> v \in ids
    BY DEF ids
  <2>4. v \in ids => (CHOOSE r \in DOMAIN d.entities : d.entities[r] = v) = v
    BY DEF ids
  <2>5. CASE v = Nobody
    BY <2>5 DEF IdOf, IdIn
  <2>6. CASE v # Nobody /\ v \in ids
    <3>1. IdOf(R, v) = v
      BY <2>1, <2>2, <2>6 DEF IdOf
    <3>2. IdIn(d, v) = v
      BY <2>3, <2>4, <2>6 DEF IdIn, ids
    <3> QED BY <3>1, <3>2
  <2>7. CASE v # Nobody /\ v \notin ids
    <3>1. IdOf(R, v) = Dangling
      BY <2>1, <2>7 DEF IdOf
    <3>2. IdIn(d, v) = Dangling
      BY <2>3, <2>7 DEF IdIn, ids
    <3> QED BY <3>1, <3>2
  <2> QED BY <2>5, <2>6, <2>7
<1>11. ASSUME NEW r \in ids
       PROVE  /\ R[r].component = Stored(d.components, r, Absent)
              /\ R[r].ref = Stored(d.refs, r, Nobody)
              /\ R[r].parent = Stored(d.parents, r, Nobody)
  <2>1. r \in DOMAIN B /\ B[r].id = r /\ B[r].mark = NotMarked
    BY <1>1, <1>2, <1>9
  <2>2. /\ R[r].component = Stored(d.components, r, Absent)
        /\ R[r].ref = MappedRef(map, r, Stored(d.refs, r, Nobody))
        /\ R[r].parent = LoadedParent(B, map, d.parents, r, B[r].parent)
    BY <1>4, <2>1
  <2>3. \A v : MappedRef(map, r, v) = v
    BY <1>1 DEF MappedRef
  <2>4. LoadedParent(B, map, d.parents, r, B[r].parent) = Stored(d.parents, r, Nobody)
    BY <1>1, <1>5, <1>6 DEF LoadedParent, Stored
  <2> QED BY <2>2, <2>3, <2>4
<1>12. \A r \in ids :
          /\ R[WithId(R, r)].component = Stored(d.components, r, Absent)
          /\ IdOf(R, R[WithId(R, r)].ref) = IdIn(d, Stored(d.refs, r, Nobody))
          /\ IdOf(R, R[WithId(R, r)].parent) = IdIn(d, Stored(d.parents, r, Nobody))
  BY <1>9, <1>10, <1>11
<1>13. View(R) = d.view
  BY <1>3, <1>7, <1>8, <1>12
<1> QED BY <1>13 DEF R

(***************************************************************************)
(* A load marks nothing, and spawns again only what was there.             *)
(***************************************************************************)
LEMMA LoadedLasts ==
    ASSUME NEW E, NEW f, NEW d, NEW o, Loadable(E, f, d, o),
           NEW g \in Nat, g <= f, NEW b, b = d \/ OneTimeline(d, b), Lasting(E, g, b)
    PROVE  Lasting(LoadedWorld(E, f, d), g, b)
<1> DEFINE C == Resurrect(E, f)
           T == Missing(C, d.entities)
           rebuilt == LoadEntities(C, d.entities)
           R == LoadedWorld(E, f, d)
<1>1. f \in Nat /\ E \in [DOMAIN E -> EntityState]
  BY DEF Loadable, WorldOK
<1>2. /\ DOMAIN C = DOMAIN E
      /\ \A e \in DOMAIN E : C[e].id = E[e].id
      /\ \A e \in DOMAIN E : C[e].mark = IF E[e].mark > f THEN NotMarked ELSE E[e].mark
  BY <1>1, ResurrectFacts DEF Evolved
<1>3. \A e \in DOMAIN E : E[e].mark \in Nat
  BY <1>1 DEF EntityState
<1>4. \A e \in DOMAIN rebuilt : (e \in DOMAIN C /\ rebuilt[e] = C[e]) \/ rebuilt[e].id \in T
  BY RebuiltTrue
<1>5. \A r \in T : r \in DOMAIN d.entities
  BY DEF Missing
<1>6. /\ DOMAIN R = DOMAIN rebuilt
      /\ \A e \in DOMAIN R : R[e].id = rebuilt[e].id /\ R[e].mark = rebuilt[e].mark
  BY LoadedKin DEF Refitted
<1> HIDE DEF R, rebuilt, T, C
<1>7. ASSUME NEW e \in DOMAIN R, Registered(R[e].id, b.ordered),
             R[e].mark = NotMarked \/ R[e].mark > g
      PROVE  R[e].id \in DOMAIN b.entities
  <2>1. CASE e \in DOMAIN C /\ rebuilt[e] = C[e]
    <3>1. /\ e \in DOMAIN E /\ R[e].id = E[e].id
          /\ R[e].mark = IF E[e].mark > f THEN NotMarked ELSE E[e].mark
      BY <1>2, <1>6, <2>1
    <3>2. E[e].mark = NotMarked \/ E[e].mark > g
      BY <1>1, <1>3, <1>7, <3>1
    <3> QED BY <1>7, <3>1, <3>2 DEF Lasting
  <2>2. CASE rebuilt[e].id \in T
    <3>1. R[e].id \in DOMAIN d.entities
      BY <1>5, <1>6, <2>2
    <3> QED BY <1>7, <3>1 DEF OneTimeline
  <2> QED BY <1>4, <1>6, <2>1, <2>2
<1>8. Lasting(R, g, b)
  BY <1>7 DEF Lasting
<1> QED BY <1>8 DEF R

LEMMA LoadDefers ==
    ASSUME WorldInv, KinInv, DeferInv, NEW f \in 0 .. frame, NEW k \in Int, confirmed <= k,
           LoadWorld(f, k)
    PROVE  DeferInv'
<1> DEFINE t == Rollback(store, f)
           p == t.entries
           d == Get(t)
           R == LoadedWorld(entities, f, d)
           ids == DOMAIN d.entities
           B == LoadEntities(Resurrect(entities, f), d.entities)
           w == MapResource(d.target, EntityMap(Resurrect(entities, f), d.entities))
<1>1. /\ Loadable(entities, f, d, ordered)
      /\ entities' = R
      /\ store' = t /\ Len(p) \in Nat /\ Len(p) >= 1
      /\ \A i \in 1 .. Len(p) :
            /\ SnapshotOK(p[i].data, nextEntity)
            /\ p[i].frame \in Nat /\ p[i].frame <= f
            /\ p[i].data = d \/ OneTimeline(d, p[i].data)
            /\ \E j \in 1 .. Len(store.entries) : p[i] = store.entries[j]
  BY LoadSetting
<1>2. /\ confirmed < f /\ confirmed' = k /\ loaded' /\ target' = w
      /\ CanRollback(store, f)
  BY DEF LoadWorld
<1>3. d = p[1].data
  BY DEF Get, Front
<1>4. p[1].frame = f
  BY LoadSetting
<1> HIDE DEF t, d
<1>5. \A e \in DOMAIN entities : entities[e].id = e
  BY DEF DeferInv
<1>6. \A j \in 1 .. Len(store.entries) :
         LET b == store.entries[j].data
         IN  /\ Lasting(entities, store.entries[j].frame, b)
             /\ \A r \in DOMAIN b.entities : b.entities[r] = r
             /\ store.entries[j].frame > confirmed => DOMAIN b.entities \subseteq DOMAIN entities
  BY DEF DeferInv
<1>7. \A i \in 1 .. Len(p) :
         /\ Lasting(entities, p[i].frame, p[i].data)
         /\ \A r \in DOMAIN p[i].data.entities : p[i].data.entities[r] = r
         /\ p[i].frame > confirmed => DOMAIN p[i].data.entities \subseteq DOMAIN entities
  BY <1>1, <1>6
<1> HIDE DEF p
<1>8. /\ Lasting(entities, f, d)
      /\ \A r \in ids : d.entities[r] = r /\ r \in DOMAIN entities
  <2>1. 1 \in 1 .. Len(p) /\ p[1].frame > confirmed
    BY <1>1, <1>2, <1>4
  <2> QED BY <1>3, <1>4, <1>7, <2>1
<1>9. /\ \A e \in DOMAIN B : B[e].id = e
      /\ \A e \in DOMAIN entities : Registered(e, d.ordered) => e \in DOMAIN B
  BY <1>1, <1>5, <1>8, NothingMissing
<1>10. View(R) = d.view
  BY <1>1, <1>5, <1>8, ViewRestored
<1>11. IdOf(R, w) = d.aim
  BY <1>1, <1>5, TargetFollows
<1>12. DOMAIN R = DOMAIN B /\ \A e \in DOMAIN R : R[e].id = B[e].id
  BY <1>1, LoadedKin DEF Refitted
<1>13. \A r \in ids : WithId(R, r) \in Visible(R) /\ R[WithId(R, r)].id = r
  BY <1>1, LoadedIds
<1>14. \A i \in 1 .. Len(p) : Lasting(R, p[i].frame, p[i].data)
  BY <1>1, <1>7, LoadedLasts
<1> HIDE DEF R, B, w
<1>15. \A e \in DOMAIN R : R[e].id = e
  BY <1>9, <1>12
<1>16. ASSUME NEW i \in 1 .. Len(p), p[i].frame > k, NEW r \in DOMAIN p[i].data.entities
       PROVE  r \in DOMAIN R
  <2>1. p[i].frame > confirmed
    <3>1. p[i].frame \in Nat /\ confirmed \in Int
      BY <1>1 DEF WorldInv
    <3> QED BY <1>16, <3>1
  <2>2. r \in DOMAIN entities
    BY <1>7, <1>16, <2>1
  <2>3. Registered(r, d.ordered)
    <3>1. CASE p[i].data = d
      BY <1>1, <1>16, <3>1 DEF SnapshotOK
    <3>2. CASE OneTimeline(d, p[i].data)
      BY <1>16, <3>2 DEF OneTimeline
    <3> QED BY <1>1, <3>1, <3>2
  <2> QED BY <1>9, <1>12, <2>2, <2>3
<1>17. Get(t) = d
  BY DEF d
<1>18. LoadRestoresView'
  <2>1. LoadRestoresView' = (loaded' => /\ View(entities') = Get(store').view
                                        /\ IdOf(entities', target') = Get(store').aim)
    BY DEF LoadRestoresView
  <2> QED BY <1>1, <1>2, <1>10, <1>11, <1>17, <2>1
<1>19. \A r \in ids : \E e \in Visible(R) : e = d.entities[r] /\ R[e].id = r
  <2>1. \A r \in ids : r \in Visible(R) /\ R[r].id = r
    BY <1>13, <1>15 DEF Visible
  <2> QED BY <1>8, <2>1
<1>20. DespawnIsDeferred'
  <2>1. DespawnIsDeferred' =
          (loaded' =>
              LET snap == Get(store').entities
              IN  \A r \in DOMAIN snap : \E e \in Visible(entities') :
                      e = snap[r] /\ entities'[e].id = r)
    BY DEF DespawnIsDeferred
  <2> QED BY <1>1, <1>17, <1>19, <2>1
<1>21. \A i \in 1 .. Len(p) :
          /\ Lasting(R, p[i].frame, p[i].data)
          /\ \A r \in DOMAIN p[i].data.entities : p[i].data.entities[r] = r
          /\ p[i].frame > k => DOMAIN p[i].data.entities \subseteq DOMAIN R
  BY <1>7, <1>16, <1>14
<1> QED BY <1>1, <1>2, <1>15, <1>18, <1>20, <1>21 DEF DeferInv, p

----------------------------------------------------------------------------
(***************************************************************************)
(* DeferInv is inductive on top of WorldInv and KinInv.                    *)
(***************************************************************************)
LEMMA DeferInvInit ==
    ASSUME Init
    PROVE  DeferInv
<1>1. ~ loaded /\ Len(store.entries) = 0 /\ DOMAIN entities = {}
  BY DEF Init, EmptySnapshots
<1> QED BY <1>1 DEF DeferInv, LoadRestoresView, DespawnIsDeferred

LEMMA DeferInvNext ==
    ASSUME Deferring, WorldInv, KinInv, DeferInv, [Next]_vars
    PROVE  DeferInv'
<1>1. CASE UNCHANGED vars
  BY <1>1 DEF vars, DeferInv, LoadRestoresView, DespawnIsDeferred
<1>2. \A k \in Confirmable : k \in Int /\ confirmed <= k
  <2>1. confirmed \in Int /\ frame \in Int
    BY DEF WorldInv
  <2> QED BY <2>1 DEF Confirmable
<1>3. ASSUME NEW k \in Confirmable, SaveWorld(k)
      PROVE  DeferInv'
  BY <1>2, <1>3, SaveDefers
<1>4. ASSUME NEW f \in 0 .. frame, NEW k \in Confirmable, LoadWorld(f, k)
      PROVE  DeferInv'
  BY <1>2, <1>4, LoadDefers
<1> QED BY <1>1, <1>3, <1>4, GameDefers DEF Next

LEMMA DeferInvAlways ==
    ASSUME Deferring
    PROVE  Spec => []DeferInv
<1>1. Init => DeferInv
  BY DeferInvInit
<1>2. WorldInv /\ KinInv /\ DeferInv /\ [Next]_vars => DeferInv'
  BY DeferInvNext
<1>3. Orderly
  BY DEF Deferring
<1>4. Spec => []KinInv
  BY <1>3, KinInvAlways
<1> QED BY <1>1, <1>2, <1>4, WorldInvAlways, PTL DEF Spec

(***************************************************************************)
(* src/snapshot/{entity, component_snapshot, childof_snapshot,             *)
(* component_map, resource_map}.rs: when the game despawns with            *)
(* despawn_rollback, LoadWorld brings back exactly the state that was      *)
(* saved: RollbackIds, components, references, parents and the resource.   *)
(***************************************************************************)
THEOREM LoadRestoresViewAlways ==
    ASSUME Deferring
    PROVE  Spec => []LoadRestoresView
<1>1. DeferInv => LoadRestoresView
  BY DEF DeferInv
<1> QED BY <1>1, DeferInvAlways, PTL

(***************************************************************************)
(* src/snapshot/despawn.rs: then an entity that comes back in a rollback   *)
(* is still the same Entity, because despawn_confirmed_entities removes    *)
(* no entity that a loadable snapshot holds.                               *)
(***************************************************************************)
THEOREM DespawnIsDeferredAlways ==
    ASSUME Deferring
    PROVE  Spec => []DespawnIsDeferred
<1>1. DeferInv => DespawnIsDeferred
  BY DEF DeferInv
<1> QED BY <1>1, DeferInvAlways, PTL
=============================================================================
