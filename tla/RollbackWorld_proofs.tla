------------------------ MODULE RollbackWorld_proofs ------------------------
(***************************************************************************)
(* RollbackOrdered orders every entity in the world, and no mark of        *)
(* despawn_rollback outlives its confirmation, whatever the systems of the *)
(* game do: for any number of entities and frames and any window.          *)
(***************************************************************************)
EXTENDS RollbackWorld, GgrsSnapshots_proofs, FiniteSetTheorems

\* What is known of one entity.
EntityState ==
    [id : Nat, mark : Nat, component : Components \union {Absent}, ref : Nat, parent : Nat]

\* Entities before n, with RollbackIds before n, each with its own.
WorldOK(E, n) ==
    /\ E \in [DOMAIN E -> EntityState]
    /\ \A e \in DOMAIN E : e \in 1 .. (n - 1) /\ E[e].id \in 1 .. (n - 1)
    /\ \A e, x \in DOMAIN E : E[e].id = E[x].id => e = x

Registered(r, o) == \E i \in DOMAIN o : o[i] = r

\* RollbackOrdered: ids before n, each once.
OrderOK(o, n) ==
    /\ o \in Seq(1 .. (n - 1))
    /\ \A i, j \in DOMAIN o : o[i] = o[j] => i = j

\* One snapshot, whatever the world is now.
SnapshotOK(d, n) ==
    /\ d.entities \in [DOMAIN d.entities -> Nat]
    /\ d.components \in [DOMAIN d.components -> Components]
    /\ d.refs \in [DOMAIN d.refs -> Nat]
    /\ d.parents \in [DOMAIN d.parents -> Nat]
    /\ d.target \in Nat
    /\ OrderOK(d.ordered, n)
    /\ \A r \in DOMAIN d.entities : r \in 1 .. (n - 1) /\ Registered(r, d.ordered)

(***************************************************************************)
(* The snapshot d of frame f and the world E: an entity that was there is  *)
(* not marked up to f, and one that is marked up to f was registered.      *)
(***************************************************************************)
Agree(E, f, d) ==
    \A e \in DOMAIN E :
        /\ E[e].id \in DOMAIN d.entities => E[e].mark = NotMarked \/ E[e].mark > f
        /\ (E[e].mark # NotMarked /\ E[e].mark <= f) => Registered(E[e].id, d.ordered)

DataOf(s) == {s.entries[i].data : i \in 1 .. Len(s.entries)}

StoreOK(s, E, f, n) ==
    /\ s \in Storage(MaxFrame, DataOf(s))
    /\ Descending(s.entries)
    /\ \A i \in 1 .. Len(s.entries) :
          /\ s.entries[i].frame <= f
          /\ SnapshotOK(s.entries[i].data, n)
          /\ Agree(E, s.entries[i].frame, s.entries[i].data)

MarksAfter(E, k) == \A e \in DOMAIN E : E[e].mark # NotMarked => E[e].mark > k

\* The inductive invariant.
WorldInv ==
    /\ frame \in 0 .. MaxFrame /\ confirmed \in Int /\ lastSeen \in Int
    /\ nextEntity \in Nat \ {0} /\ target \in Nat
    /\ WorldOK(entities, nextEntity)
    /\ OrderOK(ordered, nextEntity)
    /\ \A e \in DOMAIN entities : Registered(entities[e].id, ordered)
    /\ StoreOK(store, entities, frame, nextEntity)
    /\ MarksAfter(entities, lastSeen)

----------------------------------------------------------------------------
(* The storage *)

(***************************************************************************)
(* A storage holds the data it holds.                                      *)
(***************************************************************************)
LEMMA StorageOfItsData ==
    ASSUME NEW M, NEW D, NEW s \in Storage(M, D)
    PROVE  s \in Storage(M, DataOf(s))
<1> DEFINE q == s.entries
           S == [frame : 0 .. M, data : DataOf(s)]
<1>1. /\ q \in Seq([frame : 0 .. M, data : D]) /\ s.depth \in Nat /\ Len(q) \in Nat
      /\ s = [entries |-> q, depth |-> s.depth]
  BY LenProperties DEF Storage
<1>2. ASSUME NEW i \in 1 .. Len(q) PROVE q[i] \in S
  <2>1. q[i] \in [frame : 0 .. M, data : D]
    BY <1>1, ElementOfSeq
  <2>2. q[i].data \in DataOf(s)
    BY DEF DataOf
  <2> QED BY <2>1, <2>2
<1> HIDE DEF S, q
<1>3. q \in Seq(S)
  BY <1>1, <1>2, IsASeq, LenProperties
<1> QED BY <1>1, <1>3 DEF Storage, S

(***************************************************************************)
(* Adding data changes nothing.                                            *)
(***************************************************************************)
LEMMA StorageGrows ==
    ASSUME NEW M, NEW D, NEW C, D \subseteq C, NEW s \in Storage(M, D)
    PROVE  s \in Storage(M, C)
<1> DEFINE q == s.entries
           S == [frame : 0 .. M, data : C]
<1>1. /\ q \in Seq([frame : 0 .. M, data : D]) /\ s.depth \in Nat /\ Len(q) \in Nat
      /\ s = [entries |-> q, depth |-> s.depth]
  BY LenProperties DEF Storage
<1>2. ASSUME NEW i \in 1 .. Len(q) PROVE q[i] \in S
  <2>1. q[i] \in [frame : 0 .. M, data : D]
    BY <1>1, ElementOfSeq
  <2> QED BY <2>1
<1> HIDE DEF S, q
<1>3. q \in Seq(S)
  BY <1>1, <1>2, IsASeq, LenProperties
<1> QED BY <1>1, <1>3 DEF Storage, S

(***************************************************************************)
(* A frame of a storage is a number up to the bound.                       *)
(***************************************************************************)
LEMMA StoredEntry ==
    ASSUME NEW M, NEW D, NEW s \in Storage(M, D), NEW i \in 1 .. Len(s.entries)
    PROVE  s.entries[i].frame \in 0 .. M
<1>1. s.entries \in Seq([frame : 0 .. M, data : D])
  BY DEF Storage
<1>2. s.entries[i] \in [frame : 0 .. M, data : D]
  BY <1>1, ElementOfSeq
<1> QED BY <1>2

----------------------------------------------------------------------------
(* The entities *)

(***************************************************************************)
(* R is what has become of the entities E: none is new, and what is marked *)
(* was marked before, or is marked with m now.                             *)
(***************************************************************************)
Evolved(R, E, m) ==
    /\ R \in [DOMAIN R -> EntityState]
    /\ DOMAIN R \subseteq DOMAIN E
    /\ \A e \in DOMAIN R : R[e].id = E[e].id /\ R[e].mark \in {E[e].mark, NotMarked, m}

(***************************************************************************)
(* An entity belongs to its own family.                                    *)
(***************************************************************************)
LEMMA OwnFamily ==
    ASSUME NEW E, NEW e
    PROVE  e \in Family(E, e)
BY DEF Family

(***************************************************************************)
(* A despawn removes at least the entities it is asked for, and leaves the *)
(* others as they are.                                                     *)
(***************************************************************************)
LEMMA DespawnFacts ==
    ASSUME NEW E, NEW doomed
    PROVE  LET R == Despawn(E, doomed)
           IN  /\ DOMAIN R \subseteq DOMAIN E
               /\ \A e \in DOMAIN R : e \notin doomed /\ R[e] = E[e]
               /\ E \in [DOMAIN E -> EntityState] => R \in [DOMAIN R -> EntityState]
<1> DEFINE dead == UNION {Family(E, e) : e \in doomed}
           R == Despawn(E, doomed)
<1>1. R = [e \in DOMAIN E \ dead |-> E[e]]
  BY DEF Despawn
<1>2. \A e \in doomed : e \in dead
  BY OwnFamily
<1> HIDE DEF dead, R
<1>3. DOMAIN R = DOMAIN E \ dead
  BY <1>1
<1>4. DOMAIN R \subseteq DOMAIN E /\ \A e \in DOMAIN R : e \notin doomed /\ R[e] = E[e]
  BY <1>1, <1>2, <1>3
<1>5. E \in [DOMAIN E -> EntityState] => R \in [DOMAIN R -> EntityState]
  BY <1>1, <1>3
<1> QED BY <1>4, <1>5 DEF R

(***************************************************************************)
(* The fields of an entity are changed one at a time.                      *)
(***************************************************************************)
LEMMA FieldUpdates ==
    ASSUME NEW r \in EntityState
    PROVE  /\ \A v \in Nat :
                 LET s == [r EXCEPT !.mark = v]
                 IN  s \in EntityState /\ s.id = r.id /\ s.mark = v
           /\ \A v \in Components \union {Absent} :
                 LET s == [r EXCEPT !.component = v]
                 IN  s \in EntityState /\ s.id = r.id /\ s.mark = r.mark
           /\ \A v \in Nat :
                 LET s == [r EXCEPT !.ref = v]
                 IN  s \in EntityState /\ s.id = r.id /\ s.mark = r.mark
           /\ \A v \in Nat :
                 LET s == [r EXCEPT !.parent = v]
                 IN  s \in EntityState /\ s.id = r.id /\ s.mark = r.mark
BY DEF EntityState

(***************************************************************************)
(* What is left of a world that was right is right.                        *)
(***************************************************************************)
LEMMA EvolvedKeeps ==
    ASSUME NEW n \in Nat, NEW E, NEW R, NEW m, WorldOK(E, n), Evolved(R, E, m)
    PROVE  /\ WorldOK(R, n)
           /\ \A o : (\A e \in DOMAIN E : Registered(E[e].id, o)) =>
                        \A e \in DOMAIN R : Registered(R[e].id, o)
BY DEF WorldOK, Evolved

(***************************************************************************)
(* So are the snapshots, when new marks are later than they are.           *)
(***************************************************************************)
LEMMA EvolvedAgrees ==
    ASSUME NEW E, NEW R, NEW m \in Nat, NEW f \in Nat, NEW d, Agree(E, f, d), Evolved(R, E, m),
           m = NotMarked \/ m > f
    PROVE  Agree(R, f, d)
<1> SUFFICES ASSUME NEW e \in DOMAIN R
             PROVE  /\ R[e].id \in DOMAIN d.entities => R[e].mark = NotMarked \/ R[e].mark > f
                    /\ (R[e].mark # NotMarked /\ R[e].mark <= f) => Registered(R[e].id, d.ordered)
  BY DEF Agree
<1>1. e \in DOMAIN E /\ R[e].id = E[e].id /\ R[e].mark \in {E[e].mark, NotMarked, m}
  BY DEF Evolved
<1>2. /\ E[e].id \in DOMAIN d.entities => E[e].mark = NotMarked \/ E[e].mark > f
      /\ (E[e].mark # NotMarked /\ E[e].mark <= f) => Registered(E[e].id, d.ordered)
  BY <1>1 DEF Agree
<1>3. CASE R[e].mark = E[e].mark
  BY <1>1, <1>2, <1>3
<1>4. CASE R[e].mark = NotMarked
  BY <1>4
<1>5. CASE R[e].mark = m /\ m # NotMarked
  BY <1>5
<1> QED BY <1>1, <1>3, <1>4, <1>5

(***************************************************************************)
(* resurrect_entities only removes marks after the frame.                  *)
(***************************************************************************)
LEMMA ResurrectFacts ==
    ASSUME NEW E, E \in [DOMAIN E -> EntityState], NEW f \in Nat
    PROVE  /\ Evolved(Resurrect(E, f), E, NotMarked)
           /\ DOMAIN Resurrect(E, f) = DOMAIN E
           /\ \A e \in DOMAIN E :
                 Resurrect(E, f)[e].mark = IF E[e].mark > f THEN NotMarked ELSE E[e].mark
<1> DEFINE R == Resurrect(E, f)
<1>1. /\ DOMAIN R = DOMAIN E
      /\ \A e \in DOMAIN E :
            R[e] = IF E[e].mark > f THEN [E[e] EXCEPT !.mark = NotMarked] ELSE E[e]
      /\ R = [e \in DOMAIN E |-> R[e]]
  BY DEF Resurrect
<1>2. NotMarked \in Nat
  BY DEF NotMarked
<1> HIDE DEF R
<1>3. ASSUME NEW e \in DOMAIN E
      PROVE  /\ R[e] \in EntityState /\ R[e].id = E[e].id
             /\ R[e].mark = IF E[e].mark > f THEN NotMarked ELSE E[e].mark
  <2>1. E[e] \in EntityState
    OBVIOUS
  <2>2. CASE E[e].mark > f
    <3> DEFINE r == E[e]
               s == [r EXCEPT !.mark = NotMarked]
    <3>1. R[e] = s
      BY <1>1, <2>2
    <3>2. s \in EntityState /\ s.id = r.id /\ s.mark = NotMarked
      <4> HIDE DEF r
      <4>1. r \in EntityState
        BY <2>1 DEF r
      <4> QED BY <1>2, <4>1, FieldUpdates
    <3> QED BY <2>2, <3>1, <3>2
  <2>3. CASE ~ (E[e].mark > f)
    BY <1>1, <2>1, <2>3
  <2> QED BY <2>2, <2>3
<1>4. Evolved(R, E, NotMarked)
  BY <1>1, <1>3 DEF Evolved
<1> QED BY <1>1, <1>3, <1>4 DEF R

----------------------------------------------------------------------------
(* LoadWorld *)

(***************************************************************************)
(* What is spawned again gets new Entity numbers, before the next one.     *)
(***************************************************************************)
LEMMA RespawnedFacts ==
    ASSUME NEW E, NEW snap, nextEntity \in Nat \ {0},
           \A r \in DOMAIN snap : r \in 1 .. (nextEntity - 1)
    PROVE  /\ Cardinality(Missing(E, snap)) \in Nat
           /\ \A r \in Missing(E, snap) :
                 Respawned(E, snap, r) \in
                    nextEntity .. (nextEntity + Cardinality(Missing(E, snap)) - 1)
<1> DEFINE T == Missing(E, snap)
           n == Cardinality(T)
<1>1. T \subseteq 1 .. (nextEntity - 1)
  BY DEF Missing
<1> HIDE DEF T
<1>2. IsFiniteSet(1 .. (nextEntity - 1))
  <2>1. 1 \in Int /\ nextEntity - 1 \in Int
    OBVIOUS
  <2> HIDE <1>1
  <2> QED BY <2>1, FS_Interval
<1>3. IsFiniteSet(T)
  BY <1>1, <1>2, FS_Subset
<1>4. n \in Nat
  BY <1>3, FS_CardinalityType
<1>5. ASSUME NEW r \in T
      PROVE  Respawned(E, snap, r) \in nextEntity .. (nextEntity + n - 1)
  <2> DEFINE L == {q \in T : q < r}
  <2>1. L \in SUBSET T /\ L # T
    BY <1>1
  <2>2. Respawned(E, snap, r) = nextEntity + Cardinality(L)
    BY DEF Respawned, T
  <2> HIDE DEF L
  <2>3. IsFiniteSet(L) /\ Cardinality(L) <= n /\ Cardinality(L) # n
    BY <1>3, <2>1, FS_Subset
  <2>4. Cardinality(L) \in Nat
    BY <2>3, FS_CardinalityType
  <2> HIDE DEF n
  <2> QED BY <1>4, <2>2, <2>3, <2>4
<1> QED BY <1>4, <1>5 DEF T

(***************************************************************************)
(* EntitySnapshotPlugin::load leaves the marked entities and the ones of   *)
(* the snapshot as they are, and adds the others of the snapshot.          *)
(***************************************************************************)
LEMMA LoadEntitiesFacts ==
    ASSUME NEW E, NEW snap, nextEntity \in Nat \ {0},
           \A r \in DOMAIN snap : r \in 1 .. (nextEntity - 1),
           E \in [DOMAIN E -> EntityState]
    PROVE  LET R == LoadEntities(E, snap)
           IN  /\ R \in [DOMAIN R -> EntityState]
               /\ \A e \in DOMAIN R :
                     \/ /\ e \in DOMAIN E /\ R[e] = E[e]
                        /\ E[e].mark = NotMarked => E[e].id \in DOMAIN snap
                     \/ /\ R[e].id \in Missing(E, snap)
                        /\ e = Respawned(E, snap, R[e].id)
                        /\ R[e].mark = NotMarked
<1> DEFINE doomed == {e \in Visible(E) : E[e].id \notin DOMAIN snap}
           kept == Despawn(E, doomed)
           Back(e) == CHOOSE r \in Missing(E, snap) : Respawned(E, snap, r) = e
           new == {Respawned(E, snap, r) : r \in Missing(E, snap)}
           fresh == [e \in new |-> NewEntity(Back(e), Absent, Nobody)]
           R == LoadEntities(E, snap)
<1>1. R = [e \in DOMAIN kept \union DOMAIN fresh |->
              IF e \in DOMAIN kept THEN kept[e] ELSE fresh[e]]
  BY DEF LoadEntities
<1>2. /\ DOMAIN kept \subseteq DOMAIN E
      /\ \A e \in DOMAIN kept : e \notin doomed /\ kept[e] = E[e]
      /\ kept \in [DOMAIN kept -> EntityState]
  <2> HIDE DEF doomed
  <2> QED BY DespawnFacts
<1>3. ASSUME NEW e \in new
      PROVE  /\ Back(e) \in Missing(E, snap) /\ Respawned(E, snap, Back(e)) = e
             /\ fresh[e] = NewEntity(Back(e), Absent, Nobody)
  OBVIOUS
<1>4. DOMAIN fresh = new
  OBVIOUS
<1>5. \A e \in DOMAIN kept : E[e].mark = NotMarked => E[e].id \in DOMAIN snap
  BY <1>2 DEF Visible
<1> HIDE DEF doomed, kept, Back, new, fresh, R
<1>6. ASSUME NEW r \in Missing(E, snap)
      PROVE  LET s == NewEntity(r, Absent, Nobody)
             IN  s \in EntityState /\ s.id = r /\ s.mark = NotMarked
  <2>1. r \in Nat
    BY DEF Missing
  <2> QED BY <2>1 DEF NewEntity, EntityState, NotMarked, Nobody
<1>7. DOMAIN R = DOMAIN kept \union new
  BY <1>1, <1>4
<1>8. ASSUME NEW e \in DOMAIN R
      PROVE  /\ R[e] \in EntityState
             /\ \/ /\ e \in DOMAIN E /\ R[e] = E[e]
                   /\ E[e].mark = NotMarked => E[e].id \in DOMAIN snap
                \/ /\ R[e].id \in Missing(E, snap)
                   /\ e = Respawned(E, snap, R[e].id)
                   /\ R[e].mark = NotMarked
  <2>1. CASE e \in DOMAIN kept
    <3>1. R[e] = kept[e]
      BY <1>1, <1>7, <2>1
    <3> QED BY <1>2, <1>5, <2>1, <3>1
  <2>2. CASE e \notin DOMAIN kept
    <3>1. R[e] = fresh[e] /\ e \in new
      BY <1>1, <1>4, <1>7, <2>2
    <3>2. R[e] = NewEntity(Back(e), Absent, Nobody)
      BY <1>3, <3>1
    <3>3. Back(e) \in Missing(E, snap) /\ Respawned(E, snap, Back(e)) = e
      BY <1>3, <3>1
    <3>4. R[e] \in EntityState /\ R[e].id = Back(e) /\ R[e].mark = NotMarked
      BY <1>6, <3>2, <3>3
    <3> QED BY <3>3, <3>4
  <2> QED BY <2>1, <2>2
<1>9. R \in [DOMAIN R -> EntityState]
  <2>1. R = [e \in DOMAIN R |-> R[e]]
    BY <1>1
  <2> QED BY <1>8, <2>1
<1> QED BY <1>8, <1>9 DEF R

(***************************************************************************)
(* R is E with other values in the components of the game.                 *)
(***************************************************************************)
Refitted(R, E) ==
    /\ R \in [DOMAIN R -> EntityState]
    /\ DOMAIN R = DOMAIN E
    /\ \A e \in DOMAIN R : R[e].id = E[e].id /\ R[e].mark = E[e].mark

(***************************************************************************)
(* A Refitted map of entities is made entity by entity.                    *)
(***************************************************************************)
LEMMA RefittedByEntity ==
    ASSUME NEW E, NEW R, E \in [DOMAIN E -> EntityState],
           R = [e \in DOMAIN E |-> R[e]],
           \A e \in DOMAIN E :
              \/ R[e] = E[e]
              \/ \E v \in Components \union {Absent} : R[e] = [E[e] EXCEPT !.component = v]
              \/ \E v \in Nat : R[e] = [E[e] EXCEPT !.ref = v]
              \/ \E v \in Nat : R[e] = [E[e] EXCEPT !.parent = v]
    PROVE  Refitted(R, E)
<1>1. ASSUME NEW e \in DOMAIN E
      PROVE  R[e] \in EntityState /\ R[e].id = E[e].id /\ R[e].mark = E[e].mark
  <2> DEFINE r == E[e]
  <2>1. r \in EntityState
    OBVIOUS
  <2>2. \/ R[e] = r
        \/ \E v \in Components \union {Absent} : R[e] = [r EXCEPT !.component = v]
        \/ \E v \in Nat : R[e] = [r EXCEPT !.ref = v]
        \/ \E v \in Nat : R[e] = [r EXCEPT !.parent = v]
    OBVIOUS
  <2> HIDE DEF r
  <2>3. R[e] \in EntityState /\ R[e].id = r.id /\ R[e].mark = r.mark
    <3>1. CASE R[e] = r
      BY <2>1, <3>1
    <3>2. CASE \E v \in Components \union {Absent} : R[e] = [r EXCEPT !.component = v]
      <4>1. PICK v \in Components \union {Absent} : R[e] = [r EXCEPT !.component = v]
        BY <3>2
      <4> DEFINE s == [r EXCEPT !.component = v]
      <4>2. s \in EntityState /\ s.id = r.id /\ s.mark = r.mark
        BY <2>1, FieldUpdates
      <4> QED BY <4>1, <4>2
    <3>3. CASE \E v \in Nat : R[e] = [r EXCEPT !.ref = v]
      <4>1. PICK v \in Nat : R[e] = [r EXCEPT !.ref = v]
        BY <3>3
      <4> DEFINE s == [r EXCEPT !.ref = v]
      <4>2. s \in EntityState /\ s.id = r.id /\ s.mark = r.mark
        BY <2>1, FieldUpdates
      <4> QED BY <4>1, <4>2
    <3>4. CASE \E v \in Nat : R[e] = [r EXCEPT !.parent = v]
      <4>1. PICK v \in Nat : R[e] = [r EXCEPT !.parent = v]
        BY <3>4
      <4> DEFINE s == [r EXCEPT !.parent = v]
      <4>2. s \in EntityState /\ s.id = r.id /\ s.mark = r.mark
        BY <2>1, FieldUpdates
      <4> QED BY <4>1, <4>2
    <3> QED BY <2>2, <3>1, <3>2, <3>3, <3>4
  <2> QED BY <2>3 DEF r
<1>2. DOMAIN R = DOMAIN E
  OBVIOUS
<1> QED BY <1>1, <1>2 DEF Refitted

(***************************************************************************)
(* The loads of the plain component, of the references and of ChildOf and  *)
(* the mapping of the references change these only.                        *)
(***************************************************************************)
LEMMA LoadComponentsFacts ==
    ASSUME NEW E, NEW snap, E \in [DOMAIN E -> EntityState],
           snap \in [DOMAIN snap -> Components]
    PROVE  Refitted(LoadComponents(E, snap), E)
<1> DEFINE R == LoadComponents(E, snap)
           Loaded(r) == IF r \in DOMAIN snap THEN snap[r] ELSE Absent
<1>1. R = [e \in DOMAIN E |-> R[e]]
  BY DEF LoadComponents
<1>2. ASSUME NEW e \in DOMAIN E
      PROVE  R[e] = E[e] \/ R[e] = [E[e] EXCEPT !.component = Loaded(E[e].id)]
  BY DEF LoadComponents
<1>3. \A r : Loaded(r) \in Components \union {Absent}
  OBVIOUS
<1> HIDE DEF R, Loaded
<1>4. Refitted(R, E)
  BY <1>1, <1>2, <1>3, RefittedByEntity
<1> QED BY <1>4 DEF R

LEMMA LoadRefsFacts ==
    ASSUME NEW E, NEW snap, E \in [DOMAIN E -> EntityState], snap \in [DOMAIN snap -> Nat]
    PROVE  Refitted(LoadRefs(E, snap), E)
<1> DEFINE R == LoadRefs(E, snap)
<1>1. R = [e \in DOMAIN E |-> R[e]]
  BY DEF LoadRefs
<1>2. ASSUME NEW e \in DOMAIN E
      PROVE  \/ R[e] = E[e]
             \/ \E v \in Nat : R[e] = [E[e] EXCEPT !.ref = v]
  <2>1. Nobody \in Nat
    BY DEF Nobody
  <2>2. \/ E[e].id \in DOMAIN snap /\ R[e] = [E[e] EXCEPT !.ref = snap[E[e].id]]
        \/ R[e] = [E[e] EXCEPT !.ref = Nobody]
        \/ R[e] = E[e]
    BY DEF LoadRefs
  <2>3. E[e].id \in DOMAIN snap => snap[E[e].id] \in Nat
    OBVIOUS
  <2> HIDE DEF R
  <2> QED BY <2>1, <2>2, <2>3
<1> HIDE DEF R
<1>3. Refitted(R, E)
  BY <1>1, <1>2, RefittedByEntity
<1> QED BY <1>3 DEF R

LEMMA LoadChildOfFacts ==
    ASSUME NEW E, NEW map, NEW snap, E \in [DOMAIN E -> EntityState], DOMAIN E \subseteq Nat
    PROVE  Refitted(LoadChildOf(E, map, snap), E)
<1> DEFINE R == LoadChildOf(E, map, snap)
           Parent(e) ==
              LET old == snap[E[e].id]
              IN  CASE E[e].id \notin DOMAIN snap -> Nobody
                    [] E[e].id \in DOMAIN snap /\ old \notin DOMAIN map -> E[e].parent
                    [] OTHER -> IF map[old] \in DOMAIN E THEN map[old] ELSE Nobody
<1>1. R = [e \in DOMAIN E |-> R[e]]
  BY DEF LoadChildOf
<1>2. ASSUME NEW e \in DOMAIN E
      PROVE  R[e] = E[e] \/ R[e] = [E[e] EXCEPT !.parent = Parent(e)]
  BY DEF LoadChildOf
<1>3. ASSUME NEW e \in DOMAIN E
      PROVE  Parent(e) \in Nat
  <2>1. E[e].parent \in Nat
    BY DEF EntityState
  <2>2. Parent(e) \in {Nobody, E[e].parent} \/ Parent(e) \in DOMAIN E
    OBVIOUS
  <2> HIDE DEF Parent
  <2> QED BY <2>1, <2>2 DEF Nobody
<1> HIDE DEF R, Parent
<1>4. Refitted(R, E)
  BY <1>1, <1>2, <1>3, RefittedByEntity
<1> QED BY <1>4 DEF R

LEMMA MapComponentsFacts ==
    ASSUME NEW E, NEW map, E \in [DOMAIN E -> EntityState], map \in [DOMAIN map -> Nat]
    PROVE  Refitted(MapComponents(E, map), E)
<1> DEFINE R == MapComponents(E, map)
<1>1. R = [e \in DOMAIN E |-> R[e]]
  BY DEF MapComponents
<1>2. ASSUME NEW e \in DOMAIN E
      PROVE  \/ R[e] = E[e]
             \/ \E v \in Nat : R[e] = [E[e] EXCEPT !.ref = v]
  <2>1. \/ E[e].ref \in DOMAIN map /\ R[e] = [E[e] EXCEPT !.ref = map[E[e].ref]]
        \/ R[e] = E[e]
    BY DEF MapComponents
  <2>2. E[e].ref \in DOMAIN map => map[E[e].ref] \in Nat
    OBVIOUS
  <2> HIDE DEF R
  <2> QED BY <2>1, <2>2
<1> HIDE DEF R
<1>3. Refitted(R, E)
  BY <1>1, <1>2, RefittedByEntity
<1> QED BY <1>3 DEF R

(***************************************************************************)
(* RollbackEntityMap maps to Entity numbers.                               *)
(***************************************************************************)
LEMMA EntityMapFacts ==
    ASSUME NEW E, NEW snap, nextEntity \in Nat \ {0},
           \A r \in DOMAIN snap : r \in 1 .. (nextEntity - 1),
           snap \in [DOMAIN snap -> Nat]
    PROVE  EntityMap(E, snap) \in [DOMAIN EntityMap(E, snap) -> Nat]
<1> DEFINE map == EntityMap(E, snap)
           present == {e \in Visible(E) : E[e].id \in DOMAIN snap}
           lost == {snap[r] : r \in Missing(E, snap)}
           Back(e) == CHOOSE r \in Missing(E, snap) : snap[r] = e
<1>1. map = [e \in present \union lost |->
                IF e \in present THEN snap[E[e].id] ELSE Respawned(E, snap, Back(e))]
  BY DEF EntityMap
<1>2. \A e \in present : snap[E[e].id] \in Nat
  OBVIOUS
<1>3. \A e \in lost : Back(e) \in Missing(E, snap)
  OBVIOUS
<1>4. \A r \in Missing(E, snap) : Respawned(E, snap, r) \in Nat
  BY RespawnedFacts
<1> HIDE DEF map, present, lost, Back
<1>5. map \in [DOMAIN map -> Nat]
  BY <1>1, <1>2, <1>3, <1>4
<1> QED BY <1>5 DEF map

(***************************************************************************)
(* The entities after Entity::load, when the world agreed with the         *)
(* snapshot: each RollbackId is there once, because one that is spawned    *)
(* again is not hidden under a mark.                                       *)
(***************************************************************************)
LEMMA RebuiltFacts ==
    ASSUME NEW E, NEW f \in Nat, NEW d, nextEntity \in Nat \ {0}, WorldOK(E, nextEntity),
           SnapshotOK(d, nextEntity), Agree(E, f, d)
    PROVE  LET C == Resurrect(E, f)
               n == nextEntity + Cardinality(Missing(C, d.entities))
               R == LoadEntities(C, d.entities)
           IN  /\ n \in Nat \ {0} /\ n >= nextEntity
               /\ WorldOK(R, n)
               /\ \A e \in DOMAIN R : Registered(R[e].id, d.ordered)
               /\ \A e \in DOMAIN R :
                     R[e].mark # NotMarked =>
                        e \in DOMAIN E /\ R[e].id = E[e].id /\ R[e].mark = E[e].mark
<1> DEFINE C == Resurrect(E, f)
           snap == d.entities
           lost == Missing(C, snap)
           n == nextEntity + Cardinality(lost)
           R == LoadEntities(C, snap)
<1>1. E \in [DOMAIN E -> EntityState]
  BY DEF WorldOK
<1>2. /\ C \in [DOMAIN C -> EntityState]
      /\ DOMAIN C = DOMAIN E
      /\ \A e \in DOMAIN E : C[e].id = E[e].id
      /\ \A e \in DOMAIN E : C[e].mark = IF E[e].mark > f THEN NotMarked ELSE E[e].mark
  BY <1>1, ResurrectFacts DEF Evolved
<1>3. \A r \in DOMAIN snap : r \in 1 .. (nextEntity - 1) /\ Registered(r, d.ordered)
  BY DEF SnapshotOK
<1> HIDE DEF C, snap
<1>4. /\ Cardinality(lost) \in Nat
      /\ \A r \in lost : Respawned(C, snap, r) \in nextEntity .. (n - 1)
  BY <1>3, RespawnedFacts
<1>5. /\ R \in [DOMAIN R -> EntityState]
      /\ \A e \in DOMAIN R :
            \/ /\ e \in DOMAIN C /\ R[e] = C[e]
               /\ C[e].mark = NotMarked => C[e].id \in DOMAIN snap
            \/ /\ R[e].id \in lost
               /\ e = Respawned(C, snap, R[e].id)
               /\ R[e].mark = NotMarked
  BY <1>2, <1>3, LoadEntitiesFacts
<1>6. \A r \in lost : r \in DOMAIN snap /\ \A e \in DOMAIN C : C[e].id = r => C[e].mark # NotMarked
  BY DEF Missing, IdsOf, Visible
<1>7. \A e \in DOMAIN E : E[e].mark \in Nat
  BY <1>1 DEF EntityState
<1>8. ASSUME NEW e \in DOMAIN C, C[e].id \in DOMAIN snap
      PROVE  C[e].mark = NotMarked
  <2>1. E[e].mark = NotMarked \/ E[e].mark > f
    BY <1>2, <1>8 DEF Agree, snap
  <2> QED BY <1>2, <1>7, <1>8, <2>1 DEF NotMarked
<1> HIDE DEF R, lost
<1>9. n \in Nat \ {0} /\ n >= nextEntity
  BY <1>4
<1>10. ASSUME NEW e \in DOMAIN R
       PROVE  e \in 1 .. (n - 1) /\ R[e].id \in 1 .. (n - 1)
  <2>1. CASE e \in DOMAIN C /\ R[e] = C[e]
    <3>1. e \in 1 .. (nextEntity - 1) /\ R[e].id \in 1 .. (nextEntity - 1)
      BY <1>2, <2>1 DEF WorldOK
    <3> QED BY <1>4, <1>9, <3>1
  <2>2. CASE R[e].id \in lost /\ e = Respawned(C, snap, R[e].id)
    <3>1. R[e].id \in 1 .. (nextEntity - 1)
      BY <1>3, <1>6, <2>2
    <3>2. e \in nextEntity .. (n - 1)
      BY <1>4, <2>2
    <3> QED BY <1>4, <1>9, <3>1, <3>2
  <2> QED BY <1>5, <2>1, <2>2
<1>11. ASSUME NEW e \in DOMAIN R, NEW x \in DOMAIN R, R[e].id = R[x].id
       PROVE  e = x
  <2>1. CASE e \in DOMAIN C /\ R[e] = C[e] /\ x \in DOMAIN C /\ R[x] = C[x]
    BY <1>2, <1>11, <2>1 DEF WorldOK
  <2>2. CASE /\ R[e].id \in lost /\ e = Respawned(C, snap, R[e].id)
             /\ R[x].id \in lost /\ x = Respawned(C, snap, R[x].id)
    BY <1>11, <2>2
  <2>3. CASE e \in DOMAIN C /\ R[e] = C[e] /\ R[x].id \in lost
    BY <1>6, <1>8, <1>11, <2>3
  <2>4. CASE x \in DOMAIN C /\ R[x] = C[x] /\ R[e].id \in lost
    BY <1>6, <1>8, <1>11, <2>4
  <2> QED BY <1>5, <2>1, <2>2, <2>3, <2>4
<1>12. ASSUME NEW e \in DOMAIN R
       PROVE  Registered(R[e].id, d.ordered)
  <2>1. CASE R[e].id \in lost
    BY <1>3, <1>6, <2>1
  <2>2. CASE e \in DOMAIN C /\ R[e] = C[e] /\ C[e].id \in DOMAIN snap
    BY <1>3, <2>2
  <2>3. CASE e \in DOMAIN C /\ R[e] = C[e] /\ C[e].mark # NotMarked
    <3>1. E[e].mark # NotMarked /\ E[e].mark <= f
      BY <1>2, <1>7, <2>3
    <3> QED BY <1>2, <2>3, <3>1 DEF Agree
  <2> QED BY <1>5, <2>1, <2>2, <2>3
<1>13. \A e \in DOMAIN R :
          R[e].mark # NotMarked =>
             e \in DOMAIN E /\ R[e].id = E[e].id /\ R[e].mark = E[e].mark
  BY <1>2, <1>5
<1>14. WorldOK(R, n)
  <2> HIDE DEF n
  <2> QED BY <1>5, <1>10, <1>11 DEF WorldOK
<1> QED BY <1>9, <1>12, <1>13, <1>14 DEF R, lost, C, snap

(***************************************************************************)
(* Other values in the components of the game change none of this.         *)
(***************************************************************************)
LEMMA RefittedKeeps ==
    ASSUME NEW E, NEW R, NEW n \in Nat, WorldOK(E, n), Refitted(R, E)
    PROVE  WorldOK(R, n)
BY DEF WorldOK, Refitted

(***************************************************************************)
(* LoadWorld: all of its sets together.                                    *)
(***************************************************************************)
LEMMA LoadedFacts ==
    ASSUME NEW E, NEW f \in Nat, NEW d, nextEntity \in Nat \ {0}, WorldOK(E, nextEntity),
           SnapshotOK(d, nextEntity), Agree(E, f, d)
    PROVE  LET C        == Resurrect(E, f)
               map      == EntityMap(C, d.entities)
               rebuilt  == LoadEntities(C, d.entities)
               restored == LoadRefs(LoadComponents(rebuilt, d.components), d.refs)
               related  == LoadChildOf(restored, map, d.parents)
               R        == MapComponents(related, map)
           IN  /\ Refitted(R, rebuilt)
               /\ MapResource(d.target, map) \in Nat
<1> DEFINE C == Resurrect(E, f)
           map == EntityMap(C, d.entities)
           rebuilt == LoadEntities(C, d.entities)
           first == LoadComponents(rebuilt, d.components)
           restored == LoadRefs(first, d.refs)
           related == LoadChildOf(restored, map, d.parents)
           R == MapComponents(related, map)
           n == nextEntity + Cardinality(Missing(C, d.entities))
<1>1. n \in Nat /\ WorldOK(rebuilt, n)
  BY RebuiltFacts
<1>2. map \in [DOMAIN map -> Nat]
  <2> HIDE DEF C
  <2> QED BY EntityMapFacts DEF SnapshotOK
<1>3. MapResource(d.target, map) \in Nat
  <2> HIDE DEF map
  <2> QED BY <1>2 DEF MapResource, SnapshotOK
<1> HIDE DEF rebuilt, map
<1>4. rebuilt \in [DOMAIN rebuilt -> EntityState] /\ DOMAIN rebuilt \subseteq Nat
  BY <1>1 DEF WorldOK
<1>5. Refitted(first, rebuilt)
  BY <1>4, LoadComponentsFacts DEF SnapshotOK
<1> HIDE DEF first
<1>6. Refitted(restored, first)
  BY <1>5, LoadRefsFacts DEF SnapshotOK, Refitted
<1> HIDE DEF restored
<1>7. restored \in [DOMAIN restored -> EntityState] /\ DOMAIN restored \subseteq Nat
  BY <1>4, <1>5, <1>6 DEF Refitted
<1>8. Refitted(related, restored)
  BY <1>7, LoadChildOfFacts
<1> HIDE DEF related
<1>9. Refitted(R, related)
  BY <1>2, <1>8, MapComponentsFacts DEF Refitted
<1> HIDE DEF R
<1>10. Refitted(R, rebuilt)
  BY <1>5, <1>6, <1>8, <1>9 DEF Refitted
<1> QED BY <1>3, <1>10 DEF R, related, restored, first, rebuilt, map

----------------------------------------------------------------------------
(* The steps *)

(***************************************************************************)
(* More entities leave the registered ones and the snapshots right.        *)
(***************************************************************************)
LEMMA LaterOrder ==
    ASSUME NEW n \in Nat, NEW m \in Nat, n <= m, NEW o, OrderOK(o, n)
    PROVE  OrderOK(o, m)
<1>1. Len(o) \in Nat /\ \A i \in 1 .. Len(o) : o[i] \in 1 .. (n - 1)
  BY ElementOfSeq, LenProperties DEF OrderOK
<1>2. \A i \in 1 .. Len(o) : o[i] \in 1 .. (m - 1)
  BY <1>1
<1>3. o = [i \in 1 .. Len(o) |-> o[i]]
  BY LenProperties DEF OrderOK
<1>4. o \in Seq(1 .. (m - 1))
  BY <1>1, <1>2, <1>3, IsASeq
<1> QED BY <1>4 DEF OrderOK

LEMMA LaterSnapshot ==
    ASSUME NEW n \in Nat, NEW m \in Nat, n <= m, NEW d, SnapshotOK(d, n)
    PROVE  SnapshotOK(d, m)
<1>1. OrderOK(d.ordered, m)
  BY LaterOrder DEF SnapshotOK
<1>2. \A r \in DOMAIN d.entities : r \in 1 .. (m - 1) /\ Registered(r, d.ordered)
  BY DEF SnapshotOK
<1> QED BY <1>1, <1>2 DEF SnapshotOK

(***************************************************************************)
(* The new snapshot records the world as it is: the entities of the        *)
(* snapshot are not marked.                                                *)
(***************************************************************************)
LEMMA SnapshotFacts ==
    ASSUME WorldInv
    PROVE  SnapshotOK(Snapshot, nextEntity) /\ Agree(entities, frame, Snapshot)
<1> DEFINE W(r) == WithId(entities, r)
           ids == IdsOf(entities)
<1>1. /\ entities \in [DOMAIN entities -> EntityState]
      /\ \A e \in DOMAIN entities : e \in 1 .. (nextEntity - 1) /\ entities[e].id \in 1 .. (nextEntity - 1)
      /\ \A e, x \in DOMAIN entities : entities[e].id = entities[x].id => e = x
      /\ \A e \in DOMAIN entities : Registered(entities[e].id, ordered)
      /\ nextEntity \in Nat /\ target \in Nat /\ OrderOK(ordered, nextEntity)
      /\ frame \in Nat
  BY DEF WorldInv, WorldOK
<1>2. ASSUME NEW r \in ids
      PROVE  W(r) \in DOMAIN entities /\ entities[W(r)].mark = NotMarked /\ entities[W(r)].id = r
  BY DEF IdsOf, WithId, Visible
<1>3. ASSUME NEW r \in ids
      PROVE  /\ W(r) \in Nat /\ entities[W(r)].component \in Components \union {Absent}
             /\ entities[W(r)].ref \in Nat /\ entities[W(r)].parent \in Nat
             /\ r \in 1 .. (nextEntity - 1) /\ Registered(r, ordered)
  BY <1>1, <1>2 DEF EntityState
<1>4. SavedEntities \in [DOMAIN SavedEntities -> Nat] /\ DOMAIN SavedEntities = ids
  BY <1>3 DEF SavedEntities
<1>5. SavedComponents \in [DOMAIN SavedComponents -> Components]
  BY <1>3 DEF SavedComponents, SavedField
<1>6. SavedRefs \in [DOMAIN SavedRefs -> Nat]
  BY <1>3 DEF SavedRefs, SavedField
<1>7. SavedParents \in [DOMAIN SavedParents -> Nat]
  BY <1>3 DEF SavedParents, SavedField
<1>8. /\ Snapshot.entities = SavedEntities /\ Snapshot.components = SavedComponents
      /\ Snapshot.refs = SavedRefs /\ Snapshot.parents = SavedParents
      /\ Snapshot.ordered = ordered /\ Snapshot.target = target
  BY DEF Snapshot
<1>9. SnapshotOK(Snapshot, nextEntity)
  BY <1>1, <1>3, <1>4, <1>5, <1>6, <1>7, <1>8 DEF SnapshotOK
<1>10. ASSUME NEW e \in DOMAIN entities, entities[e].id \in DOMAIN SavedEntities
       PROVE  entities[e].mark = NotMarked
  BY <1>1, <1>2, <1>4, <1>10
<1>11. Agree(entities, frame, Snapshot)
  BY <1>1, <1>8, <1>10 DEF Agree
<1> QED BY <1>9, <1>11

(***************************************************************************)
(* SaveWorld.                                                              *)
(***************************************************************************)
LEMMA SaveKeeps ==
    ASSUME WorldInv, NEW k \in Int, SaveWorld(k)
    PROVE  WorldInv'
<1> DEFINE D == DataOf(store) \union {Snapshot}
           d == Snapshot
           q == store.entries
           t == SaveChain(store, MaxPrediction, k, frame, d)
<1>1. /\ frame \in 0 .. MaxFrame /\ MaxFrame \in Nat /\ MaxFrame < Half /\ MaxPrediction \in Nat
      /\ store \in Storage(MaxFrame, DataOf(store)) /\ Descending(q)
      /\ nextEntity \in Nat
  BY RollbackWorldAssumption DEF WorldInv, StoreOK
<1>2. \A i \in 1 .. Len(q) :
          /\ q[i].frame <= frame
          /\ SnapshotOK(q[i].data, nextEntity)
          /\ Agree(entities, q[i].frame, q[i].data)
  BY DEF WorldInv, StoreOK
<1>3. SnapshotOK(d, nextEntity) /\ Agree(entities, frame, d)
  BY SnapshotFacts
<1> HIDE DEF d
<1>4. store \in Storage(MaxFrame, D) /\ d \in D
  BY <1>1, StorageGrows DEF d
<1> HIDE DEF D
<1>5. /\ t \in Storage(MaxFrame, D)
      /\ Descending(t.entries)
      /\ NewOrOlder(t.entries, q, frame, d)
  BY <1>1, <1>4, SaveChainFacts
<1> HIDE DEF t
<1>6. t \in Storage(MaxFrame, DataOf(t))
  BY <1>5, StorageOfItsData
<1>7. ASSUME NEW i \in 1 .. Len(t.entries)
      PROVE  /\ t.entries[i].frame <= frame
             /\ SnapshotOK(t.entries[i].data, nextEntity)
             /\ Agree(entities, t.entries[i].frame, t.entries[i].data)
  <2>1. CASE t.entries[i] = Entry(frame, d)
    <3>1. t.entries[i].frame = frame /\ t.entries[i].data = d
      BY <2>1 DEF Entry
    <3> QED BY <1>1, <1>3, <3>1
  <2>2. CASE \E j \in 1 .. Len(q) : t.entries[i] = q[j]
    BY <1>2, <2>2
  <2> QED BY <1>5, <2>1, <2>2 DEF NewOrOlder
<1>8. StoreOK(t, entities, frame, nextEntity)
  BY <1>5, <1>6, <1>7 DEF StoreOK
<1>9. /\ store' = t /\ confirmed' = k
      /\ frame' = frame /\ lastSeen' = lastSeen /\ entities' = entities
      /\ nextEntity' = nextEntity /\ ordered' = ordered /\ target' = target
  BY DEF SaveWorld, t, d
<1>10. StoreOK(store', entities', frame', nextEntity')
  BY <1>8, <1>9
<1> QED BY <1>9, <1>10 DEF WorldInv

(***************************************************************************)
(* LoadWorld.                                                              *)
(***************************************************************************)
LEMMA LoadKeeps ==
    ASSUME WorldInv, NEW f \in 0 .. frame, NEW k \in Int, LoadWorld(f, k)
    PROVE  WorldInv'
<1> DEFINE t == Rollback(store, f)
           d == Get(t)
           C == Resurrect(entities, f)
           n == nextEntity + Cardinality(Missing(C, d.entities))
           rebuilt == LoadEntities(C, d.entities)
<1>1. /\ frame \in 0 .. MaxFrame /\ MaxFrame \in Nat /\ nextEntity \in Nat \ {0}
      /\ store \in Storage(MaxFrame, DataOf(store)) /\ Descending(store.entries)
      /\ f \in 0 .. MaxFrame
  BY RollbackWorldAssumption DEF WorldInv, StoreOK
<1>2. CanRollback(store, f)
  BY DEF LoadWorld
<1>3. /\ t \in Storage(MaxFrame, DataOf(store)) /\ Descending(t.entries)
      /\ Within(t.entries, store.entries)
      /\ Len(t.entries) >= 1 /\ Front(t).frame = f
      /\ \A i \in 1 .. Len(t.entries) : t.entries[i].frame <= f
  BY <1>1, <1>2, RollbackFacts
<1> HIDE DEF t
<1>4. t \in Storage(MaxFrame, DataOf(t))
  BY <1>3, StorageOfItsData
<1>5. ASSUME NEW i \in 1 .. Len(t.entries)
      PROVE  /\ SnapshotOK(t.entries[i].data, nextEntity)
             /\ Agree(entities, t.entries[i].frame, t.entries[i].data)
  <2>1. PICK j \in 1 .. Len(store.entries) : t.entries[i] = store.entries[j]
    BY <1>3 DEF Within
  <2> QED BY <2>1 DEF WorldInv, StoreOK
<1>6. Len(t.entries) \in Nat
  BY <1>3, LenProperties DEF Storage
<1>7. SnapshotOK(d, nextEntity) /\ Agree(entities, f, d)
  BY <1>3, <1>5, <1>6 DEF Get, Front
<1> HIDE DEF d
<1>8. WorldOK(entities, nextEntity) /\ f \in Nat
  BY <1>1 DEF WorldInv
<1>9. /\ n \in Nat \ {0} /\ n >= nextEntity
      /\ WorldOK(rebuilt, n)
      /\ \A e \in DOMAIN rebuilt : Registered(rebuilt[e].id, d.ordered)
      /\ \A e \in DOMAIN rebuilt :
            rebuilt[e].mark # NotMarked =>
               /\ e \in DOMAIN entities
               /\ rebuilt[e].id = entities[e].id /\ rebuilt[e].mark = entities[e].mark
  <2>1. nextEntity \in Nat \ {0}
    BY <1>1
  <2> QED BY <1>7, <1>8, <2>1, RebuiltFacts
<1>10. Refitted(entities', rebuilt) /\ target' \in Nat
  BY <1>1, <1>7, <1>8, LoadedFacts DEF LoadWorld, d, t
<1>11. /\ store' = t /\ frame' = f /\ confirmed' = k /\ nextEntity' = n
       /\ ordered' = d.ordered /\ lastSeen' = lastSeen
  BY DEF LoadWorld, d, t
<1> HIDE DEF rebuilt, n
<1>12. WorldOK(entities', n)
  BY <1>9, <1>10, RefittedKeeps
<1>13. \A e \in DOMAIN entities' : Registered(entities'[e].id, d.ordered)
  BY <1>9, <1>10 DEF Refitted
<1>14. \A e \in DOMAIN entities' :
          entities'[e].mark # NotMarked =>
             /\ e \in DOMAIN entities
             /\ entities'[e].id = entities[e].id /\ entities'[e].mark = entities[e].mark
  BY <1>9, <1>10 DEF Refitted
<1>15. MarksAfter(entities', lastSeen)
  BY <1>14 DEF WorldInv, MarksAfter
<1>16. ASSUME NEW i \in 1 .. Len(t.entries)
       PROVE  /\ SnapshotOK(t.entries[i].data, n)
              /\ Agree(entities', t.entries[i].frame, t.entries[i].data)
  <2>1. SnapshotOK(t.entries[i].data, n)
    BY <1>1, <1>5, <1>9, LaterSnapshot
  <2>2. Agree(entities', t.entries[i].frame, t.entries[i].data)
    BY <1>5, <1>14 DEF Agree
  <2> QED BY <2>1, <2>2
<1>17. StoreOK(t, entities', f, n)
  BY <1>3, <1>4, <1>16 DEF StoreOK
<1>18. OrderOK(d.ordered, n)
  BY <1>1, <1>7, <1>9, LaterOrder DEF SnapshotOK
<1>19. lastSeen \in Int
  BY DEF WorldInv
<1> QED BY <1>1, <1>9, <1>10, <1>11, <1>12, <1>13, <1>15, <1>17, <1>18, <1>19 DEF WorldInv

(***************************************************************************)
(* despawn_confirmed_entities: afterwards every mark is later than the     *)
(* confirmed frame, also when it looked at nothing because the confirmed   *)
(* frame is the one it saw last.                                           *)
(***************************************************************************)
LEMMA DespawnConfirmedFacts ==
    ASSUME WorldInv
    PROVE  /\ Evolved(DespawnConfirmed, entities, NotMarked)
           /\ MarksAfter(DespawnConfirmed, confirmed)
<1> DEFINE doomed == {e \in DOMAIN entities :
                         entities[e].mark # NotMarked /\ entities[e].mark <= confirmed}
<1>1. /\ entities \in [DOMAIN entities -> EntityState]
      /\ confirmed \in Int /\ MarksAfter(entities, lastSeen)
  BY DEF WorldInv, WorldOK
<1>2. \A e \in DOMAIN entities : entities[e].mark \in Nat
  BY <1>1 DEF EntityState
<1>3. CASE confirmed = lastSeen
  BY <1>1, <1>3 DEF DespawnConfirmed, Evolved
<1>4. CASE confirmed # lastSeen
  <2> DEFINE R == Despawn(entities, doomed)
  <2>1. DespawnConfirmed = R
    BY <1>4 DEF DespawnConfirmed
  <2>2. /\ DOMAIN R \subseteq DOMAIN entities
        /\ \A e \in DOMAIN R : e \notin doomed /\ R[e] = entities[e]
        /\ R \in [DOMAIN R -> EntityState]
    <3> HIDE DEF doomed
    <3> QED BY <1>1, DespawnFacts
  <2> HIDE DEF R
  <2>3. MarksAfter(R, confirmed)
    BY <1>1, <1>2, <2>2 DEF MarksAfter
  <2>4. Evolved(R, entities, NotMarked)
    BY <2>2 DEF Evolved
  <2> QED BY <2>1, <2>3, <2>4
<1> QED BY <1>3, <1>4

(***************************************************************************)
(* AdvanceWorld, when the systems of the game add no entity.               *)
(***************************************************************************)
LEMMA AdvanceKeeps ==
    ASSUME WorldInv, NEW E, AdvanceWorld(E), Evolved(E, DespawnConfirmed, frame + 1),
           MarksAfter(E, confirmed), UNCHANGED <<nextEntity, ordered>>, target' \in Nat
    PROVE  WorldInv'
<1>1. /\ frame \in 0 .. MaxFrame /\ MaxFrame \in Nat /\ frame < MaxFrame
      /\ nextEntity \in Nat
      /\ store \in Storage(MaxFrame, DataOf(store)) /\ Descending(store.entries)
      /\ confirmed \in Int
  BY RollbackWorldAssumption DEF WorldInv, StoreOK, AdvanceWorld
<1>2. Evolved(E, entities, frame + 1)
  BY DespawnConfirmedFacts DEF Evolved
<1>3. /\ frame' = frame + 1 /\ lastSeen' = confirmed /\ entities' = E
      /\ confirmed' = confirmed /\ store' = store /\ nextEntity' = nextEntity
      /\ ordered' = ordered
  BY DEF AdvanceWorld
<1>4. /\ WorldOK(E, nextEntity)
      /\ \A e \in DOMAIN E : Registered(E[e].id, ordered)
  BY <1>1, <1>2, EvolvedKeeps DEF WorldInv
<1>5. ASSUME NEW i \in 1 .. Len(store.entries)
      PROVE  /\ store.entries[i].frame <= frame + 1
             /\ SnapshotOK(store.entries[i].data, nextEntity)
             /\ Agree(E, store.entries[i].frame, store.entries[i].data)
  <2> DEFINE g == store.entries[i].frame
             d == store.entries[i].data
  <2>1. g <= frame /\ SnapshotOK(d, nextEntity) /\ Agree(entities, g, d)
    BY DEF WorldInv, StoreOK
  <2>2. g \in 0 .. MaxFrame
    BY <1>1, StoredEntry
  <2> HIDE DEF g, d
  <2>3. Agree(E, g, d)
    BY <1>1, <1>2, <2>1, <2>2, EvolvedAgrees
  <2>4. g <= frame + 1
    BY <1>1, <2>1, <2>2
  <2> QED BY <2>1, <2>3, <2>4 DEF g, d
<1>6. StoreOK(store, E, frame + 1, nextEntity)
  BY <1>1, <1>5 DEF StoreOK
<1>7. frame + 1 \in 0 .. MaxFrame
  BY <1>1
<1> QED BY <1>3, <1>4, <1>6, <1>7 DEF WorldInv

(***************************************************************************)
(* Systems that change components do not touch ids and marks.              *)
(***************************************************************************)
LEMMA RefittedEvolves ==
    ASSUME NEW E, NEW R, NEW m, NEW k, Refitted(R, E), MarksAfter(E, k)
    PROVE  Evolved(R, E, m) /\ MarksAfter(R, k)
BY DEF Refitted, Evolved, MarksAfter

LEMMA FieldSet ==
    ASSUME NEW E, E \in [DOMAIN E -> EntityState], NEW e \in DOMAIN E
    PROVE  /\ \A v \in Components \union {Absent} : Refitted([E EXCEPT ![e].component = v], E)
           /\ \A v \in Nat : Refitted([E EXCEPT ![e].ref = v], E)
           /\ \A v \in Nat : Refitted([E EXCEPT ![e].parent = v], E)
<1>1. ASSUME NEW v \in Components \union {Absent}
      PROVE  Refitted([E EXCEPT ![e].component = v], E)
  <2> DEFINE R == [E EXCEPT ![e].component = v]
  <2>1. /\ R = [x \in DOMAIN E |-> R[x]]
        /\ \A x \in DOMAIN E : R[x] = E[x] \/ R[x] = [E[x] EXCEPT !.component = v]
    OBVIOUS
  <2> HIDE DEF R
  <2>2. Refitted(R, E)
    BY <2>1, RefittedByEntity
  <2> QED BY <2>2 DEF R
<1>2. ASSUME NEW v \in Nat
      PROVE  Refitted([E EXCEPT ![e].ref = v], E)
  <2> DEFINE R == [E EXCEPT ![e].ref = v]
  <2>1. /\ R = [x \in DOMAIN E |-> R[x]]
        /\ \A x \in DOMAIN E : R[x] = E[x] \/ R[x] = [E[x] EXCEPT !.ref = v]
    OBVIOUS
  <2> HIDE DEF R
  <2>2. Refitted(R, E)
    BY <2>1, RefittedByEntity
  <2> QED BY <2>2 DEF R
<1>3. ASSUME NEW v \in Nat
      PROVE  Refitted([E EXCEPT ![e].parent = v], E)
  <2> DEFINE R == [E EXCEPT ![e].parent = v]
  <2>1. /\ R = [x \in DOMAIN E |-> R[x]]
        /\ \A x \in DOMAIN E : R[x] = E[x] \/ R[x] = [E[x] EXCEPT !.parent = v]
    OBVIOUS
  <2> HIDE DEF R
  <2>2. Refitted(R, E)
    BY <2>1, RefittedByEntity
  <2> QED BY <2>2 DEF R
<1> QED BY <1>1, <1>2, <1>3

(***************************************************************************)
(* despawn_rollback: a mark it sets is the one of the frame, which is not  *)
(* confirmed.                                                              *)
(***************************************************************************)
LEMMA DespawnRollbackFacts ==
    ASSUME NEW E, E \in [DOMAIN E -> EntityState], MarksAfter(E, confirmed), NEW e,
           NEW f \in Nat
    PROVE  LET R == DespawnRollback(E, e, f)
           IN  Evolved(R, E, f) /\ MarksAfter(R, confirmed)
<1> DEFINE R == DespawnRollback(E, e, f)
<1>1. CASE confirmed < f
  <2>1. R = [x \in DOMAIN E |-> IF x \in Family(E, e) THEN [E[x] EXCEPT !.mark = f] ELSE E[x]]
    BY <1>1 DEF DespawnRollback
  <2> HIDE DEF R
  <2>2. DOMAIN R = DOMAIN E /\ R = [x \in DOMAIN E |-> R[x]]
    BY <2>1
  <2>3. ASSUME NEW x \in DOMAIN E
        PROVE  /\ R[x] \in EntityState /\ R[x].id = E[x].id
               /\ R[x].mark = E[x].mark \/ R[x].mark = f
    <3> DEFINE r == E[x]
               s == [r EXCEPT !.mark = f]
    <3>1. R[x] = s \/ R[x] = r
      BY <2>1
    <3>2. r \in EntityState
      OBVIOUS
    <3>3. s \in EntityState /\ s.id = r.id /\ s.mark = f
      <4> HIDE DEF r
      <4> QED BY <3>2, FieldUpdates
    <3> QED BY <3>1, <3>2, <3>3
  <2>4. Evolved(R, E, f)
    BY <2>2, <2>3 DEF Evolved
  <2>5. MarksAfter(R, confirmed)
    BY <1>1, <2>2, <2>3 DEF MarksAfter
  <2> QED BY <2>4, <2>5 DEF R
<1>2. CASE ~ (confirmed < f)
  <2>1. R = Despawn(E, {e})
    BY <1>2 DEF DespawnRollback
  <2> HIDE DEF R
  <2>2. /\ DOMAIN R \subseteq DOMAIN E
        /\ \A x \in DOMAIN R : R[x] = E[x]
        /\ R \in [DOMAIN R -> EntityState]
    BY <2>1, DespawnFacts
  <2>3. Evolved(R, E, f) /\ MarksAfter(R, confirmed)
    BY <2>2 DEF Evolved, MarksAfter
  <2> QED BY <2>3 DEF R
<1> QED BY <1>1, <1>2

(***************************************************************************)
(* The systems of the game, one by one.                                    *)
(***************************************************************************)
LEMMA GameKeeps ==
    ASSUME WorldInv,
           \/ AdvanceQuiet
           \/ \E e \in Ents, c \in Components \union {Absent} : AdvanceChange(e, c)
           \/ \E e, other \in Ents : AdvanceRefer(e, other)
           \/ \E e \in Ents : AdvanceAim(e)
           \/ \E e, parent \in Ents : AdvanceReparent(e, parent)
           \/ \E e \in Ents : AdvanceDespawn(e)
           \/ \E e \in Ents : AdvanceDespawnRollback(e)
    PROVE  WorldInv'
<1> DEFINE E == DespawnConfirmed
           m == frame + 1
<1>1. m \in Nat /\ target \in Nat /\ Ents \subseteq Nat
  BY RollbackWorldAssumption DEF WorldInv, Ents
<1>2. E \in [DOMAIN E -> EntityState] /\ MarksAfter(E, confirmed)
  BY DespawnConfirmedFacts DEF Evolved
<1>3. Visible(E) \subseteq DOMAIN E
  BY DEF Visible
<1>4. Evolved(E, E, m)
  BY <1>2 DEF Evolved
<1>5. CASE AdvanceQuiet
  <2>1. AdvanceWorld(E) /\ UNCHANGED <<nextEntity, ordered>> /\ target' = target
    BY <1>5 DEF AdvanceQuiet
  <2> QED BY <1>1, <1>2, <1>4, <2>1, AdvanceKeeps
<1>6. ASSUME NEW e \in Ents, NEW c \in Components \union {Absent}, AdvanceChange(e, c)
      PROVE  WorldInv'
  <2> DEFINE R == [E EXCEPT ![e].component = c]
  <2>1. /\ AdvanceWorld(R) /\ UNCHANGED <<nextEntity, ordered>> /\ target' = target
        /\ e \in DOMAIN E
    BY <1>3, <1>6 DEF AdvanceChange
  <2>2. Refitted(R, E)
    <3> HIDE DEF E
    <3> QED BY <1>2, <2>1, FieldSet
  <2> HIDE DEF R
  <2>3. Evolved(R, E, m) /\ MarksAfter(R, confirmed)
    BY <1>2, <2>2, RefittedEvolves
  <2> QED BY <1>1, <2>1, <2>3, AdvanceKeeps
<1>7. ASSUME NEW e \in Ents, NEW other \in Ents, AdvanceRefer(e, other)
      PROVE  WorldInv'
  <2> DEFINE R == [E EXCEPT ![e].ref = other]
  <2>1. /\ AdvanceWorld(R) /\ UNCHANGED <<nextEntity, ordered>> /\ target' = target
        /\ e \in DOMAIN E /\ other \in Nat
    BY <1>1, <1>3, <1>7 DEF AdvanceRefer
  <2>2. Refitted(R, E)
    <3> HIDE DEF E
    <3> QED BY <1>2, <2>1, FieldSet
  <2> HIDE DEF R
  <2>3. Evolved(R, E, m) /\ MarksAfter(R, confirmed)
    BY <1>2, <2>2, RefittedEvolves
  <2> QED BY <1>1, <2>1, <2>3, AdvanceKeeps
<1>8. ASSUME NEW e \in Ents, AdvanceAim(e)
      PROVE  WorldInv'
  <2>1. AdvanceWorld(E) /\ UNCHANGED <<nextEntity, ordered>> /\ target' \in Nat
    BY <1>1, <1>8 DEF AdvanceAim
  <2> QED BY <1>2, <1>4, <2>1, AdvanceKeeps
<1>9. ASSUME NEW e \in Ents, NEW parent \in Ents, AdvanceReparent(e, parent)
      PROVE  WorldInv'
  <2> DEFINE R == [E EXCEPT ![e].parent = parent]
  <2>1. /\ AdvanceWorld(R) /\ UNCHANGED <<nextEntity, ordered>> /\ target' = target
        /\ e \in DOMAIN E /\ parent \in Nat
    BY <1>1, <1>3, <1>9 DEF AdvanceReparent
  <2>2. Refitted(R, E)
    <3> HIDE DEF E
    <3> QED BY <1>2, <2>1, FieldSet
  <2> HIDE DEF R
  <2>3. Evolved(R, E, m) /\ MarksAfter(R, confirmed)
    BY <1>2, <2>2, RefittedEvolves
  <2> QED BY <1>1, <2>1, <2>3, AdvanceKeeps
<1>10. ASSUME NEW e \in Ents, AdvanceDespawn(e)
       PROVE  WorldInv'
  <2> DEFINE R == Despawn(E, {e})
  <2>1. AdvanceWorld(R) /\ UNCHANGED <<nextEntity, ordered>> /\ target' = target
    BY <1>10 DEF AdvanceDespawn
  <2>2. /\ DOMAIN R \subseteq DOMAIN E
        /\ \A x \in DOMAIN R : R[x] = E[x]
        /\ R \in [DOMAIN R -> EntityState]
    BY <1>2, DespawnFacts
  <2> HIDE DEF R
  <2>3. Evolved(R, E, m) /\ MarksAfter(R, confirmed)
    BY <1>2, <2>2 DEF Evolved, MarksAfter
  <2> QED BY <1>1, <2>1, <2>3, AdvanceKeeps
<1>11. ASSUME NEW e \in Ents, AdvanceDespawnRollback(e)
       PROVE  WorldInv'
  <2> DEFINE R == DespawnRollback(E, e, m)
  <2>1. AdvanceWorld(R) /\ UNCHANGED <<nextEntity, ordered>> /\ target' = target
    BY <1>11 DEF AdvanceDespawnRollback
  <2>2. Evolved(R, E, m) /\ MarksAfter(R, confirmed)
    BY <1>1, <1>2, DespawnRollbackFacts
  <2> HIDE DEF R
  <2> QED BY <1>1, <2>1, <2>2, AdvanceKeeps
<1> QED BY <1>5, <1>6, <1>7, <1>8, <1>9, <1>10, <1>11

(***************************************************************************)
(* A spawned entity is the last one in RollbackOrdered.                    *)
(***************************************************************************)
LEMMA Appended ==
    ASSUME NEW n \in Nat \ {0}, NEW o, OrderOK(o, n)
    PROVE  /\ OrderOK(Append(o, n), n + 1)
           /\ Registered(n, Append(o, n))
           /\ \A r : Registered(r, o) => Registered(r, Append(o, n))
<1> DEFINE p == Append(o, n)
           L == Len(o)
<1>1. OrderOK(o, n + 1)
  BY LaterOrder
<1>2. /\ p \in Seq(1 .. n) /\ Len(p) = L + 1 /\ L \in Nat
      /\ \A i \in 1 .. L : p[i] = o[i]
      /\ p[L + 1] = n
      /\ DOMAIN o = 1 .. L /\ DOMAIN p = 1 .. (L + 1)
  <2>1. o \in Seq(1 .. n)
    BY <1>1 DEF OrderOK
  <2>2. n \in 1 .. n
    OBVIOUS
  <2> QED BY <2>1, <2>2, AppendProperties, LenProperties
<1>3. \A i \in 1 .. L : o[i] \in 1 .. (n - 1)
  BY ElementOfSeq DEF OrderOK
<1> HIDE DEF p, L
<1>4. ASSUME NEW i \in DOMAIN p, NEW j \in DOMAIN p, p[i] = p[j]
      PROVE  i = j
  <2>1. CASE i \in 1 .. L /\ j \in 1 .. L
    BY <1>2, <1>4, <2>1 DEF OrderOK
  <2>2. CASE i = L + 1 /\ j \in 1 .. L
    <3>1. p[i] = n /\ p[j] \in 1 .. (n - 1)
      BY <1>2, <1>3, <2>2
    <3> QED BY <1>4, <3>1
  <2>3. CASE i \in 1 .. L /\ j = L + 1
    <3>1. p[j] = n /\ p[i] \in 1 .. (n - 1)
      BY <1>2, <1>3, <2>3
    <3> QED BY <1>4, <3>1
  <2>4. CASE i = L + 1 /\ j = L + 1
    BY <2>4
  <2>5. (i \in 1 .. L \/ i = L + 1) /\ (j \in 1 .. L \/ j = L + 1)
    BY <1>2
  <2> QED BY <2>1, <2>2, <2>3, <2>4, <2>5
<1>5. OrderOK(p, n + 1)
  <2>1. n + 1 - 1 = n
    OBVIOUS
  <2> QED BY <1>2, <1>4, <2>1 DEF OrderOK
<1>6. Registered(n, p)
  <2>1. L + 1 \in DOMAIN p
    BY <1>2
  <2> QED BY <1>2, <2>1 DEF Registered
<1>7. ASSUME NEW r, Registered(r, o)
      PROVE  Registered(r, p)
  <2>1. PICK i \in DOMAIN o : o[i] = r
    BY <1>7 DEF Registered
  <2>2. i \in DOMAIN p /\ p[i] = r
    BY <1>2, <2>1
  <2> QED BY <2>2 DEF Registered
<1> QED BY <1>5, <1>6, <1>7 DEF p

(***************************************************************************)
(* AdvanceWorld with a system that spawns an entity.                       *)
(***************************************************************************)
LEMMA SpawnKeeps ==
    ASSUME WorldInv, NEW c \in Components, NEW parent \in Ents \union {Nobody},
           AdvanceSpawn(c, parent)
    PROVE  WorldInv'
<1> DEFINE E == DespawnConfirmed
           n == nextEntity
           s == NewEntity(n, c, parent)
           R == [e \in DOMAIN E \union {n} |-> IF e = n THEN NewEntity(e, c, parent) ELSE E[e]]
<1>1. /\ frame \in 0 .. MaxFrame /\ MaxFrame \in Nat /\ frame < MaxFrame
      /\ n \in Nat \ {0} /\ target \in Nat /\ confirmed \in Int
      /\ store \in Storage(MaxFrame, DataOf(store)) /\ Descending(store.entries)
  BY RollbackWorldAssumption DEF WorldInv, StoreOK, AdvanceSpawn, AdvanceWorld
<1>2. /\ frame' = frame + 1 /\ lastSeen' = confirmed /\ entities' = R
      /\ confirmed' = confirmed /\ store' = store
      /\ nextEntity' = n + 1 /\ ordered' = Append(ordered, n) /\ target' = target
  BY DEF AdvanceSpawn, AdvanceWorld
<1>3. Evolved(E, entities, NotMarked) /\ MarksAfter(E, confirmed)
  BY DespawnConfirmedFacts
<1>4. /\ WorldOK(E, n)
      /\ \A e \in DOMAIN E : Registered(E[e].id, ordered)
  BY <1>1, <1>3, EvolvedKeeps DEF WorldInv
<1>5. s \in EntityState /\ s.id = n /\ s.mark = NotMarked
  <2>1. parent \in Nat
    BY RollbackWorldAssumption DEF Ents, Nobody
  <2> QED BY <1>1, <2>1 DEF NewEntity, EntityState, NotMarked, Nobody
<1>6. /\ DOMAIN R = DOMAIN E \union {n}
      /\ R = [e \in DOMAIN R |-> R[e]]
      /\ \A e \in DOMAIN R : (e = n /\ R[e] = s) \/ (e \in DOMAIN E /\ e # n /\ R[e] = E[e])
  OBVIOUS
<1> HIDE DEF E, R, s
<1>7. \A e \in DOMAIN R : R[e] \in EntityState
  BY <1>4, <1>5, <1>6 DEF WorldOK
<1>8. \A e \in DOMAIN R : e \in 1 .. n /\ R[e].id \in 1 .. n
  <2>1. \A e \in DOMAIN E : e \in 1 .. (n - 1) /\ E[e].id \in 1 .. (n - 1)
    BY <1>4 DEF WorldOK
  <2> QED BY <1>1, <1>5, <1>6, <2>1
<1>9. ASSUME NEW e \in DOMAIN R, NEW x \in DOMAIN R, R[e].id = R[x].id
      PROVE  e = x
  <2>1. \A y \in DOMAIN E : E[y].id # n
    BY <1>1, <1>4 DEF WorldOK
  <2>2. CASE e = n /\ x = n
    BY <2>2
  <2>3. CASE e = n /\ x # n
    BY <1>5, <1>6, <1>9, <2>1, <2>3
  <2>4. CASE e # n /\ x = n
    BY <1>5, <1>6, <1>9, <2>1, <2>4
  <2>5. CASE e # n /\ x # n
    BY <1>4, <1>6, <1>9, <2>5 DEF WorldOK
  <2> QED BY <2>2, <2>3, <2>4, <2>5
<1>10. WorldOK(R, n + 1)
  <2> DEFINE m == n + 1
  <2>1. m - 1 = n
    BY <1>1
  <2> HIDE DEF m
  <2>2. R \in [DOMAIN R -> EntityState]
    BY <1>6, <1>7
  <2>3. \A e \in DOMAIN R : e \in 1 .. (m - 1) /\ R[e].id \in 1 .. (m - 1)
    BY <1>8, <2>1
  <2>4. \A e, x \in DOMAIN R : R[e].id = R[x].id => e = x
    BY <1>9
  <2>5. WorldOK(R, m)
    BY <2>2, <2>3, <2>4, Zenon DEF WorldOK
  <2> QED BY <2>5 DEF m
<1>11. OrderOK(ordered, n)
  BY DEF WorldInv
<1>12. /\ OrderOK(Append(ordered, n), n + 1)
       /\ Registered(n, Append(ordered, n))
       /\ \A r : Registered(r, ordered) => Registered(r, Append(ordered, n))
  BY <1>1, <1>11, Appended
<1>13. \A e \in DOMAIN R : Registered(R[e].id, Append(ordered, n))
  BY <1>4, <1>5, <1>6, <1>12
<1>14. MarksAfter(R, confirmed)
  BY <1>3, <1>5, <1>6 DEF MarksAfter
<1>15. ASSUME NEW i \in 1 .. Len(store.entries)
       PROVE  /\ store.entries[i].frame <= frame + 1
              /\ SnapshotOK(store.entries[i].data, n + 1)
              /\ Agree(R, store.entries[i].frame, store.entries[i].data)
  <2> DEFINE g == store.entries[i].frame
             d == store.entries[i].data
  <2>1. g <= frame /\ SnapshotOK(d, n) /\ Agree(entities, g, d)
    BY DEF WorldInv, StoreOK
  <2>2. g \in 0 .. MaxFrame
    BY <1>1, StoredEntry
  <2> HIDE DEF g, d
  <2>3. Agree(E, g, d)
    <3>1. NotMarked \in Nat /\ g \in Nat
      BY <2>2 DEF NotMarked
    <3> QED BY <1>3, <2>1, <3>1, EvolvedAgrees
  <2>4. Agree(R, g, d)
    BY <1>5, <1>6, <2>3 DEF Agree
  <2>5. g <= frame + 1
    BY <1>1, <2>1, <2>2
  <2>6. SnapshotOK(d, n + 1)
    <3>1. n \in Nat /\ n + 1 \in Nat /\ n <= n + 1
      BY <1>1
    <3> QED BY <2>1, <3>1, LaterSnapshot
  <2> QED BY <2>4, <2>5, <2>6 DEF g, d
<1>16. StoreOK(store, R, frame + 1, n + 1)
  BY <1>1, <1>15 DEF StoreOK
<1>17. frame + 1 \in 0 .. MaxFrame /\ n + 1 \in Nat \ {0}
  BY <1>1
<1>18. WorldOK(entities', nextEntity') /\ OrderOK(ordered', nextEntity')
  BY <1>2, <1>10, <1>12
<1>19. StoreOK(store', entities', frame', nextEntity')
  BY <1>2, <1>16
<1>20. /\ \A e \in DOMAIN entities' : Registered(entities'[e].id, ordered')
       /\ MarksAfter(entities', lastSeen')
  BY <1>2, <1>13, <1>14
<1> QED BY <1>1, <1>2, <1>17, <1>18, <1>19, <1>20 DEF WorldInv

----------------------------------------------------------------------------
(***************************************************************************)
(* WorldInv is inductive, whatever the systems of the game may do.         *)
(***************************************************************************)
LEMMA WorldInvInit ==
    ASSUME Init
    PROVE  WorldInv
<1>1. /\ frame = 0 /\ confirmed = -1 /\ lastSeen = 0 /\ nextEntity = 1 /\ target = 0
      /\ ordered = << >> /\ store = EmptySnapshots
      /\ DOMAIN entities = {} /\ entities = [e \in {} |-> entities[e]]
  BY DEF Init, Nobody
<1>2. MaxFrame \in Nat
  BY RollbackWorldAssumption
<1>3. WorldOK(entities, nextEntity)
  BY <1>1 DEF WorldOK
<1>4. OrderOK(ordered, nextEntity)
  <2>1. << >> \in Seq(1 .. (1 - 1)) /\ DOMAIN << >> = {}
    BY EmptySeq
  <2> QED BY <1>1, <2>1 DEF OrderOK
<1>5. store.entries = << >> /\ store.depth \in Nat /\ store = [entries |-> << >>, depth |-> store.depth]
  BY <1>1 DEF EmptySnapshots, DefaultFps
<1>6. store \in Storage(MaxFrame, DataOf(store))
  <2>1. << >> \in Seq([frame : 0 .. MaxFrame, data : DataOf(store)])
    BY EmptySeq
  <2> QED BY <1>5, <2>1 DEF Storage
<1>7. Len(store.entries) = 0
  BY <1>5
<1>8. StoreOK(store, entities, frame, nextEntity)
  BY <1>6, <1>7 DEF StoreOK, Descending
<1>9. MarksAfter(entities, lastSeen) /\ \A e \in DOMAIN entities : Registered(entities[e].id, ordered)
  BY <1>1 DEF MarksAfter
<1> QED BY <1>1, <1>2, <1>3, <1>4, <1>8, <1>9 DEF WorldInv

LEMMA WorldInvNext ==
    ASSUME WorldInv, [Next]_vars
    PROVE  WorldInv'
<1>1. CASE UNCHANGED vars
  BY <1>1 DEF vars, WorldInv
<1>2. \A k \in Confirmable : k \in Int
  <2>1. confirmed \in Int /\ frame \in Int
    BY DEF WorldInv
  <2> QED BY <2>1 DEF Confirmable
<1>3. ASSUME NEW k \in Confirmable, SaveWorld(k)
      PROVE  WorldInv'
  BY <1>2, <1>3, SaveKeeps
<1>4. ASSUME NEW f \in 0 .. frame, NEW k \in Confirmable, LoadWorld(f, k)
      PROVE  WorldInv'
  BY <1>2, <1>4, LoadKeeps
<1>5. ASSUME NEW c \in Components, NEW e \in Ents \union {Nobody}, AdvanceSpawn(c, e)
      PROVE  WorldInv'
  BY <1>5, SpawnKeeps
<1> QED BY <1>1, <1>3, <1>4, <1>5, GameKeeps DEF Next

LEMMA WorldInvAlways == Spec => []WorldInv
<1>1. Init => WorldInv
  BY WorldInvInit
<1>2. WorldInv /\ [Next]_vars => WorldInv'
  BY WorldInvNext
<1> QED BY <1>1, <1>2, PTL DEF Spec

(***************************************************************************)
(* src/snapshot/rollback.rs: RollbackOrdered::order never panics and is    *)
(* unambiguous.  Whatever is spawned, despawned, marked, rolled back and   *)
(* spawned again, every RollbackId in the world is registered once and     *)
(* belongs to one entity.                                                  *)
(***************************************************************************)
THEOREM OrderIsTotalAlways == Spec => []OrderIsTotal
<1>1. WorldInv => OrderIsTotal
  BY DEF WorldInv, WorldOK, OrderOK, Registered, OrderIsTotal, Visible
<1> QED BY <1>1, WorldInvAlways, PTL

(***************************************************************************)
(* src/snapshot/despawn.rs: despawn_confirmed_entities leaves no mark      *)
(* behind whose frame is confirmed, although it looks at the entities only *)
(* when the confirmed frame is another than the one it saw last.           *)
(***************************************************************************)
THEOREM NoMarkOutlivesConfirmationAlways == Spec => []NoMarkOutlivesConfirmation
<1>1. WorldInv => NoMarkOutlivesConfirmation
  BY DEF WorldInv, MarksAfter, NoMarkOutlivesConfirmation
<1> QED BY <1>1, WorldInvAlways, PTL
=============================================================================
