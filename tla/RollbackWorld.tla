---------------------------- MODULE RollbackWorld ----------------------------
(***************************************************************************)
(* Entities, their components and their relationships under SaveWorld,     *)
(* LoadWorld and AdvanceWorld: src/snapshot/{entity, rollback, despawn,    *)
(* component_snapshot, childof_snapshot, component_map, resource_snapshot, *)
(* resource_map, rollback_entity_map, set}.rs.                             *)
(*                                                                         *)
(* A Bevy Entity is a number that is never used twice (index and           *)
(* generation).  An entity is identified across respawns by its RollbackId,*)
(* the Entity it was first spawned as.  Every entity may have one plain,   *)
(* immutable component, one mutable component that refers to another       *)
(* entity (registered with MapEntities) and a ChildOf; one resource refers *)
(* to an entity, too.                                                      *)
(***************************************************************************)
EXTENDS GgrsSnapshots, FiniteSets

CONSTANTS Components,       \* values of the plain component
          Absent,           \* the plain component is not there
          MaxPrediction,    \* depth of the snapshot storages
          MaxEntity,        \* bound: entities ever spawned
          MaxFrame,         \* bound: frames simulated
          GameOps           \* what the systems of the game do to entities

ASSUME RollbackWorldAssumption ==
    /\ Absent \notin Components
    /\ MaxPrediction \in Nat \ {0}
    /\ MaxEntity \in Nat
    /\ MaxFrame \in Nat /\ MaxFrame < Half
    /\ GameOps \subseteq {"spawn", "spawn_child", "change", "refer", "aim", "reparent",
                          "adopt", "despawn", "despawn_rollback", "despawn_again"}

VARIABLES
    frame,        \* RollbackFrameCount
    confirmed,    \* ConfirmedFrameCount
    lastSeen,     \* the Local<ConfirmedFrameCount> of despawn_confirmed_entities
    entities,     \* live Entity -> its components
    nextEntity,   \* the next Entity Bevy hands out
    ordered,      \* RollbackOrdered
    target,       \* the resource that refers to an entity
    store,        \* the snapshots of all of these
    saved,        \* has `frame` been saved?
    top,          \* the frame the session is at, ahead of `frame` while resimulating
    loaded        \* has `frame` just been loaded?  Its snapshot is then at the front

vars == <<frame, confirmed, lastSeen, entities, nextEntity, ordered, target, store, saved,
          top, loaded>>

Nobody == 0         \* no reference, no parent
Dangling == -1      \* a reference to an entity that is not there
NotMarked == 0      \* no RollbackDespawned; frames are marked from 1 on

----------------------------------------------------------------------------
(* The entities a query sees: RollbackDespawned is a disabling component. *)
Visible(E) == {e \in DOMAIN E : E[e].mark = NotMarked}

IdsOf(E) == {E[e].id : e \in Visible(E)}

WithId(E, r) == CHOOSE e \in Visible(E) : E[e].id = r

(***************************************************************************)
(* The state as the game sees it, free of Entity numbers.                  *)
(***************************************************************************)
IdOf(E, e) ==
    CASE e = Nobody                       -> Nobody
      [] e # Nobody /\ e \in Visible(E)    -> E[e].id
      [] e # Nobody /\ e \notin Visible(E) -> Dangling

View(E) ==
    [r \in IdsOf(E) |->
        LET c == E[WithId(E, r)]
        IN  [component |-> c.component, ref |-> IdOf(E, c.ref), parent |-> IdOf(E, c.parent)]]

(***************************************************************************)
(* An entity with its children, their children and so on, through ChildOf: *)
(* the smallest set with the entity that has the children of its members.  *)
(***************************************************************************)
Family(E, e) ==
    LET all == DOMAIN E \union {e}
        HasKids(S) == e \in S /\ \A c \in DOMAIN E : E[c].parent \in S => c \in S
    IN  {x \in all : \A S \in SUBSET all : HasKids(S) => x \in S}

(***************************************************************************)
(* Bevy's despawn takes the children along.                                *)
(***************************************************************************)
Despawn(E, doomed) ==
    LET dead == UNION {Family(E, e) : e \in doomed}
    IN  [e \in DOMAIN E \ dead |-> E[e]]

NewEntity(r, component, parent) ==
    [id |-> r, mark |-> NotMarked, component |-> component, ref |-> Nobody, parent |-> parent]

----------------------------------------------------------------------------
(* SaveWorld *)

(***************************************************************************)
(* What the entity, component and ChildOf plugins store for a frame under  *)
(* the RollbackIds, and the resource plugins for RollbackOrdered and the   *)
(* target.  `view` and `aim` are only there for the properties.            *)
(***************************************************************************)
SavedEntities == [r \in IdsOf(entities) |-> WithId(entities, r)]

\* A component is stored for the entities that have it.
SavedField(field, missing) ==
    LET Value(r) == entities[WithId(entities, r)][field]
    IN  [r \in {q \in IdsOf(entities) : Value(q) # missing} |-> Value(r)]

SavedComponents == SavedField("component", Absent)
SavedRefs == SavedField("ref", Nobody)
SavedParents == SavedField("parent", Nobody)

Snapshot ==
    [entities |-> SavedEntities, components |-> SavedComponents, refs |-> SavedRefs,
     parents  |-> SavedParents, ordered |-> ordered, target |-> target,
     view     |-> View(entities), aim |-> IdOf(entities, target)]

\* A session that has to wait saves the frame it is at again in every step.
SaveWorld(k) ==
    /\ saved => frame = top
    /\ confirmed' = k
    /\ store' = SaveChain(store, MaxPrediction, k, frame, Snapshot)
    /\ saved' = TRUE
    /\ loaded' = FALSE
    /\ UNCHANGED <<frame, lastSeen, entities, nextEntity, ordered, target, top>>

----------------------------------------------------------------------------
(* LoadWorld, set by set *)

\* Variant: marks of the loaded frame itself are removed, too.
Resurrect_Inclusive(E, f) ==
    [e \in DOMAIN E |-> IF E[e].mark >= f THEN [E[e] EXCEPT !.mark = NotMarked] ELSE E[e]]

\* EntityResurrect: resurrect_entities
Resurrect(E, f) ==
    [e \in DOMAIN E |-> IF E[e].mark > f THEN [E[e] EXCEPT !.mark = NotMarked] ELSE E[e]]

(***************************************************************************)
(* Entity: EntitySnapshotPlugin::load.  An entity that is not in the       *)
(* snapshot is despawned, one that is only in the snapshot is spawned      *)
(* again under its RollbackId, as the Entity Respawned(r).                 *)
(***************************************************************************)
Missing(E, snap) == DOMAIN snap \ IdsOf(E)

Respawned(E, snap, r) ==
    nextEntity + Cardinality({q \in Missing(E, snap) : q < r})

\* Variant: an entity that is spawned again gets a new RollbackId.
LoadEntities_NewIds(E, snap) ==
    LET kept  == Despawn(E, {e \in Visible(E) : E[e].id \notin DOMAIN snap})
        fresh == [e \in {Respawned(E, snap, r) : r \in Missing(E, snap)} |->
                    NewEntity(e, Absent, Nobody)]
    IN  [e \in DOMAIN kept \union DOMAIN fresh |->
            IF e \in DOMAIN kept THEN kept[e] ELSE fresh[e]]

LoadEntities(E, snap) ==
    LET kept  == Despawn(E, {e \in Visible(E) : E[e].id \notin DOMAIN snap})
        fresh == [e \in {Respawned(E, snap, r) : r \in Missing(E, snap)} |->
                    NewEntity(CHOOSE r \in Missing(E, snap) : Respawned(E, snap, r) = e,
                              Absent, Nobody)]
    IN  [e \in DOMAIN kept \union DOMAIN fresh |->
            IF e \in DOMAIN kept THEN kept[e] ELSE fresh[e]]

(***************************************************************************)
(* RollbackEntityMap: from the current to the saved Entity for those that  *)
(* are there, from the saved to the new Entity for those spawned again.    *)
(***************************************************************************)
EntityMap(E, snap) ==
    LET present == {e \in Visible(E) : E[e].id \in DOMAIN snap}
        lost    == {snap[r] : r \in Missing(E, snap)}
    IN  [e \in present \union lost |->
            IF e \in present THEN snap[E[e].id]
            ELSE Respawned(E, snap, CHOOSE r \in Missing(E, snap) : snap[r] = e)]

(***************************************************************************)
(* Data: ImmutableComponentSnapshotPlugin::load.  An entity that is not in *)
(* the snapshot loses the component, one that is in it gets it anew.       *)
(***************************************************************************)
\* Variant: a component that is absent from the snapshot is not removed.
LoadComponents_NoRemove(E, snap) ==
    [e \in DOMAIN E |->
        IF e \in Visible(E) /\ E[e].id \in DOMAIN snap
        THEN [E[e] EXCEPT !.component = snap[E[e].id]] ELSE E[e]]

LoadComponents(E, snap) ==
    LET Loaded(r) == IF r \in DOMAIN snap THEN snap[r] ELSE Absent
    IN  [e \in DOMAIN E |->
            IF e \in Visible(E) THEN [E[e] EXCEPT !.component = Loaded(E[e].id)] ELSE E[e]]

(***************************************************************************)
(* Data: ComponentSnapshotPlugin::load.  The component is updated in       *)
(* place, removed or inserted; it comes back with the Entity number of the *)
(* snapshot.                                                               *)
(***************************************************************************)
LoadRefs(E, snap) ==
    [e \in DOMAIN E |->
        CASE e \in Visible(E) /\ E[e].id \in DOMAIN snap -> [E[e] EXCEPT !.ref = snap[E[e].id]]
          [] e \in Visible(E) /\ E[e].id \notin DOMAIN snap /\ E[e].ref # Nobody ->
                [E[e] EXCEPT !.ref = Nobody]
          [] OTHER -> E[e]]

(***************************************************************************)
(* Data: ChildOfSnapshotPlugin::load.  The saved parent is looked up in    *)
(* the map: one that is not in it is skipped with a warning, and Bevy      *)
(* drops a ChildOf whose parent does not exist.                            *)
(***************************************************************************)
LoadChildOf(E, map, snap) ==
    LET Parent(e) ==
            LET old == snap[E[e].id]
            IN  CASE E[e].id \notin DOMAIN snap -> Nobody
                  [] E[e].id \in DOMAIN snap /\ old \notin DOMAIN map -> E[e].parent
                  [] OTHER -> IF map[old] \in DOMAIN E THEN map[old] ELSE Nobody
    IN  [e \in DOMAIN E |->
            IF e \in Visible(E) THEN [E[e] EXCEPT !.parent = Parent(e)] ELSE E[e]]

(***************************************************************************)
(* Mapping: ComponentMapEntitiesPlugin::update visits the keys of the map. *)
(***************************************************************************)
MapComponents(E, map) ==
    [e \in DOMAIN E |->
        IF e \in DOMAIN map /\ E[e].ref \in DOMAIN map
        THEN [E[e] EXCEPT !.ref = map[E[e].ref]]
        ELSE E[e]]

\* Variant: the resource is rolled back, but not registered for mapping.
MapResource_Skip(entity, map) == entity

\* Mapping: ResourceMapEntitiesPlugin::update, with get_mapped.
MapResource(entity, map) == IF entity \in DOMAIN map THEN map[entity] ELSE entity

(***************************************************************************)
(* A LoadGameState request.  GGRS asks only for unconfirmed frames         *)
(* (RollbackLoop!ConfirmedStaysConfirmed), and after a rollback it         *)
(* resimulates to the frame it was at before it asks for another.          *)
(***************************************************************************)
LoadWorld(f, k) ==
    LET snap     == Get(Rollback(store, f))
        current  == Resurrect(entities, f)
        map      == EntityMap(current, snap.entities)
        rebuilt  == LoadEntities(current, snap.entities)
        restored == LoadRefs(LoadComponents(rebuilt, snap.components), snap.refs)
        related  == LoadChildOf(restored, map, snap.parents)
    IN  /\ frame = top
        /\ confirmed < f /\ f < top
        /\ CanRollback(store, f)
        /\ store' = Rollback(store, f)
        /\ frame' = f
        /\ confirmed' = k
        /\ entities' = MapComponents(related, map)
        /\ nextEntity' = nextEntity + Cardinality(Missing(current, snap.entities))
        /\ nextEntity' <= MaxEntity + 1
        /\ ordered' = snap.ordered
        /\ target' = MapResource(snap.target, map)
        /\ saved' = TRUE
        /\ loaded' = TRUE
        /\ UNCHANGED <<lastSeen, top>>

----------------------------------------------------------------------------
(* AdvanceWorld: despawn_confirmed_entities, then the systems of the game. *)

\* Variant: marks of the confirmed frame itself are left.
DespawnConfirmed_Strict ==
    IF confirmed = lastSeen THEN entities
    ELSE Despawn(entities, {e \in DOMAIN entities :
                               entities[e].mark # NotMarked /\ entities[e].mark < confirmed})

DespawnConfirmed ==
    IF confirmed = lastSeen THEN entities
    ELSE Despawn(entities, {e \in DOMAIN entities :
                               entities[e].mark # NotMarked /\ entities[e].mark <= confirmed})

(***************************************************************************)
(* despawn_rollback: in an unconfirmed frame the entity and its family are *)
(* only marked.                                                            *)
(***************************************************************************)
DespawnRollback(E, e, f) ==
    IF confirmed < f
    THEN [x \in DOMAIN E |-> IF x \in Family(E, e) THEN [E[x] EXCEPT !.mark = f] ELSE E[x]]
    ELSE Despawn(E, {e})

\* The effect of one frame on everything but the entities themselves.
AdvanceWorld(E) ==
    /\ saved
    /\ frame < MaxFrame
    /\ frame' = frame + 1
    /\ top' = IF frame = top THEN frame + 1 ELSE top
    /\ lastSeen' = confirmed
    /\ entities' = E
    /\ saved' = FALSE
    /\ loaded' = FALSE
    /\ UNCHANGED <<confirmed, store>>

AdvanceQuiet == AdvanceWorld(DespawnConfirmed) /\ UNCHANGED <<nextEntity, ordered, target>>

\* A spawned Rollback entity gets its RollbackId from on_rollback_added.
AdvanceSpawn(component, parent) ==
    LET E == DespawnConfirmed
    IN  /\ IF parent = Nobody THEN "spawn" \in GameOps
           ELSE "spawn_child" \in GameOps /\ parent \in Visible(E)
        /\ nextEntity <= MaxEntity
        /\ AdvanceWorld([e \in DOMAIN E \union {nextEntity} |->
                            IF e = nextEntity THEN NewEntity(e, component, parent) ELSE E[e]])
        /\ nextEntity' = nextEntity + 1
        /\ ordered' = Append(ordered, nextEntity)
        /\ UNCHANGED target

AdvanceChange(e, component) ==
    /\ "change" \in GameOps
    /\ e \in Visible(DespawnConfirmed)
    /\ AdvanceWorld([DespawnConfirmed EXCEPT ![e].component = component])
    /\ UNCHANGED <<nextEntity, ordered, target>>

AdvanceRefer(e, other) ==
    /\ "refer" \in GameOps
    /\ {e, other} \subseteq Visible(DespawnConfirmed)
    /\ AdvanceWorld([DespawnConfirmed EXCEPT ![e].ref = other])
    /\ UNCHANGED <<nextEntity, ordered, target>>

AdvanceAim(e) ==
    /\ "aim" \in GameOps
    /\ e \in Visible(DespawnConfirmed)
    /\ AdvanceWorld(DespawnConfirmed)
    /\ target' = e
    /\ UNCHANGED <<nextEntity, ordered>>

\* "adopt": only under a parent that was spawned before the child.
AdvanceReparent(e, parent) ==
    LET E == DespawnConfirmed
    IN  /\ {"reparent", "adopt"} \intersect GameOps # {}
        /\ {e, parent} \subseteq Visible(E)
        /\ "reparent" \in GameOps \/ E[parent].id < E[e].id
        /\ parent \notin Family(E, e)
        /\ AdvanceWorld([E EXCEPT ![e].parent = parent])
        /\ UNCHANGED <<nextEntity, ordered, target>>

AdvanceDespawn(e) ==
    /\ "despawn" \in GameOps
    /\ e \in Visible(DespawnConfirmed)
    /\ AdvanceWorld(Despawn(DespawnConfirmed, {e}))
    /\ UNCHANGED <<nextEntity, ordered, target>>

\* "despawn_rollback": only while no descendant is marked already.
AdvanceDespawnRollback(e) ==
    LET E == DespawnConfirmed
    IN  /\ {"despawn_rollback", "despawn_again"} \intersect GameOps # {}
        /\ e \in Visible(E)
        /\ "despawn_again" \in GameOps \/ Family(E, e) \subseteq Visible(E)
        /\ AdvanceWorld(DespawnRollback(E, e, frame + 1))
        /\ UNCHANGED <<nextEntity, ordered, target>>

----------------------------------------------------------------------------
\* As the step without session leaves the counters; a Local starts at its default.
Init ==
    /\ frame = 0
    /\ confirmed = -1
    /\ lastSeen = 0
    /\ entities = [e \in {} |-> NewEntity(e, Absent, Nobody)]
    /\ nextEntity = 1
    /\ ordered = <<>>
    /\ target = Nobody
    /\ store = EmptySnapshots
    /\ saved = FALSE
    /\ top = 0
    /\ loaded = FALSE

\* The confirmed frame of a P2P session: it never goes back, is at most one ahead,
\* and does not move while the requests of one step are executed.
Confirmable == IF frame = top THEN confirmed .. (frame + 1) ELSE {confirmed}

Ents == 1 .. MaxEntity

Next ==
    \/ \E k \in Confirmable : SaveWorld(k)
    \/ \E f \in 0 .. frame, k \in Confirmable : LoadWorld(f, k)
    \/ AdvanceQuiet
    \/ \E c \in Components, e \in Ents \union {Nobody} : AdvanceSpawn(c, e)
    \/ \E e \in Ents, c \in Components \union {Absent} : AdvanceChange(e, c)
    \/ \E e, other \in Ents : AdvanceRefer(e, other)
    \/ \E e \in Ents : AdvanceAim(e)
    \/ \E e, parent \in Ents : AdvanceReparent(e, parent)
    \/ \E e \in Ents : AdvanceDespawn(e)
    \/ \E e \in Ents : AdvanceDespawnRollback(e)

Spec == Init /\ [][Next]_vars

----------------------------------------------------------------------------
(***************************************************************************)
(* LoadWorld brings back exactly the state that was saved: the same        *)
(* RollbackIds with the same components, references and parents, and the   *)
(* resource referring to the same RollbackId.                              *)
(***************************************************************************)
LoadRestoresView ==
    loaded => /\ View(entities) = Get(store).view
              /\ IdOf(entities, target) = Get(store).aim

(***************************************************************************)
(* src/snapshot/resource_map.rs: as long as no entity has been spawned     *)
(* again before, a load that has to do so makes the resource refer to the  *)
(* new Entity.                                                             *)
(***************************************************************************)
ResourceFollowsRespawn ==
    [][(loaded' /\ frame' < frame /\ \A e \in DOMAIN entities : entities[e].id = e) =>
          IdOf(entities', target') = Get(store').aim]_vars

(***************************************************************************)
(* src/snapshot/despawn.rs: despawn_rollback defers the despawn until the  *)
(* frame is confirmed, so an entity that comes back in a rollback is still *)
(* the same Entity, with the components that are in no snapshot.           *)
(***************************************************************************)
DespawnIsDeferred ==
    loaded =>
        LET snap == Get(store).entities
        IN  \A r \in DOMAIN snap : \E e \in Visible(entities) :
                e = snap[r] /\ entities[e].id = r

(***************************************************************************)
(* LoadWorld brings back the RollbackIds that were saved, with their plain *)
(* components, whatever Entity numbers they have now.                      *)
(***************************************************************************)
LoadRestoresComponents ==
    loaded =>
        LET view == Get(store).view
        IN  /\ IdsOf(entities) = DOMAIN view
            /\ \A r \in DOMAIN view : View(entities)[r].component = view[r].component

(***************************************************************************)
(* RollbackOrdered::order never panics and is unambiguous: every RollbackId*)
(* in the world is registered, once, and belongs to one entity.            *)
(***************************************************************************)
OrderIsTotal ==
    /\ \A e \in DOMAIN entities : \E i \in DOMAIN ordered : ordered[i] = entities[e].id
    /\ \A i, j \in DOMAIN ordered : ordered[i] = ordered[j] => i = j
    /\ \A e, x \in Visible(entities) : entities[e].id = entities[x].id => e = x

(***************************************************************************)
(* No entity stays marked once the frame of its mark is confirmed and      *)
(* another frame was simulated: despawn_confirmed_entities misses none by  *)
(* looking only when the confirmed frame has changed.                      *)
(***************************************************************************)
NoMarkOutlivesConfirmation ==
    ~ saved => \A e \in DOMAIN entities :
                  entities[e].mark # NotMarked => entities[e].mark > lastSeen
=============================================================================
