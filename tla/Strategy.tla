------------------------------ MODULE Strategy ------------------------------
(***************************************************************************)
(* src/snapshot/strategy.rs: how a component or resource is turned into    *)
(* what a snapshot stores, and back.  A value is a function from its       *)
(* fields; reflection knows only some of them (a field may be marked       *)
(* #[reflect(ignore)]).                                                    *)
(***************************************************************************)
CONSTANTS Fields,       \* fields of the type
          Reflected,    \* those reflection knows
          FieldValues,  \* what the game writes into a field
          FromWorld     \* what FromWorld::from_world gives every field

Targets == [Fields -> FieldValues \union {FromWorld}]

ReflectStore(target) == [f \in Reflected |-> target[f]]     \* to_dynamic

ReflectUpdate(target, stored) ==                            \* apply
    [f \in Fields |-> IF f \in DOMAIN stored THEN stored[f] ELSE target[f]]

ReflectLoad(stored) == ReflectUpdate([f \in Fields |-> FromWorld], stored)

(***************************************************************************)
(* The trait Strategy; Copy and Clone store the value as it is.            *)
(***************************************************************************)
Store(strategy, target) == IF strategy = "Reflect" THEN ReflectStore(target) ELSE target

Load(strategy, stored) == IF strategy = "Reflect" THEN ReflectLoad(stored) ELSE stored

Update(strategy, target, stored) ==
    IF strategy = "Reflect" THEN ReflectUpdate(target, stored) ELSE Load(strategy, stored)
=============================================================================
