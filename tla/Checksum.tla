------------------------------ MODULE Checksum ------------------------------
(***************************************************************************)
(* The checksum of a frame: src/snapshot/{checksum, component_checksum,    *)
(* entity_checksum, resource_checksum}.rs, for one component type that     *)
(* every rollback entity has, and a set of resources.                      *)
(*                                                                         *)
(* A rollback state is a record of `ordered` (RollbackOrdered, the         *)
(* RollbackIds in the order of their registration), `components` (active   *)
(* RollbackId -> value) and `resources` (resource -> value).               *)
(*                                                                         *)
(* seahash is taken to be free of collisions: a hash is a record of what   *)
(* was hashed.  The XOR of hashes is the set of those that occur an odd    *)
(* number of times.                                                        *)
(***************************************************************************)
EXTENDS Naturals, Sequences, FiniteSets

CONSTANT Resources    \* the resources registered for the checksum

\* Every ChecksumPart has a flag of its own.
ASSUME ChecksumAssumption == {"Component", "Entity"} \intersect Resources = {}

Hashed(function) == {function[x] : x \in DOMAIN function}

Xor(hashes) ==
    {h \in Hashed(hashes) : Cardinality({x \in DOMAIN hashes : hashes[x] = h}) % 2 = 1}

\* RollbackOrdered::order; it panics for an id that is not registered.
Order(ordered, id) == CHOOSE i \in DOMAIN ordered : ordered[i] = id

\* Variants: the position is not hashed; the RollbackId is hashed instead of it.
ComponentHash_NoOrder(state, id) == [component |-> state.components[id]]
ComponentHash_ById(state, id) == [order |-> id, component |-> state.components[id]]

ComponentHash(state, id) ==
    [order |-> Order(state.ordered, id), component |-> state.components[id]]

ComponentPart(state) ==
    [xor |-> Xor([id \in DOMAIN state.components |-> ComponentHash(state, id)])]

EntityPart(state) ==
    [active |-> Cardinality(DOMAIN state.components), total |-> Len(state.ordered)]

ResourcePart(state, r) == [value |-> state.resources[r]]

(***************************************************************************)
(* The set SaveWorldSystems::Checksum: every plugin updates or spawns the  *)
(* ChecksumPart with its own ChecksumFlag.                                 *)
(***************************************************************************)
Flags == {"Component", "Entity"} \union Resources

UpdateParts(parts, state) ==
    [flag \in DOMAIN parts \union Flags |->
        CASE flag = "Component" -> ComponentPart(state)
          [] flag = "Entity"    -> EntityPart(state)
          [] flag \in Resources -> ResourcePart(state, flag)]

\* ChecksumPlugin::update, after that set and before the snapshots are taken.
Total(parts) == Xor(parts)
=============================================================================
