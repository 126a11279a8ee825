----------------------------- MODULE Migration -----------------------------
(***************************************************************************)
(* The migration of an entry made by an earlier release (__init__.py,      *)
(* async_migrate_entry), with the registries of Home Assistant (external)  *)
(* that it rewrites.  It runs without a pause; each turn of its loops is   *)
(* an action here.  The registries and the entry are saved later, and a     *)
(* crash may come before either: the next start loads what was saved, and  *)
(* migrates again if the entry says so.  The two registries have the same  *)
(* delay and are taken to be saved together, the entry has its own.        *)
(* Entity ids are key-owned here: <<kind, key>>, where kind tells who      *)
(* chose the id.  An entity keeps its domain, which is left out.           *)
(***************************************************************************)
EXTENDS Integers, FiniteSets

CONSTANTS
  Renamed,   \* keys of V1_ENTITIES with a replacement, called by its new name
  Retired,   \* keys of V1_ENTITIES without one
  Unknown,   \* keys that V1_ENTITIES does not have
  Starts,    \* what earlier releases and the user may have left
  None

Kinds == {"label", "older", "besen", "own"}

\* The ids that 1.x gave, from the label of its last release or an earlier one.
V1Kinds == {"label", "older"}

\* The entities of V1_ENTITIES, and others.
Keys == Renamed \cup Retired \cup Unknown
Ids == Kinds \X Keys
Devices == {"v1", "v2"}

\* Unique ids are <<scheme, key>>: bs20_<serial>_<key> or <serial>_<key>.  The
\* name is the label in V1_ENTITIES, any other one ("own"), or none.
Entity == [id : Ids, scheme : {"v1", "v2"}, key : Keys,
           name : {"label", "own", "none"}, device : Devices]
Identifiers == {"placeholder", "serial"}

ASSUME MigrationAssumption ==
  /\ Renamed \cap Retired = {} /\ (Renamed \cup Retired) \cap Unknown = {}
  /\ None \notin Ids
  /\ \A s \in Starts :
       /\ s.entities \subseteq Entity
       /\ s.devices \in [Devices -> SUBSET Identifiers]
       /\ s.deleted \in [Renamed -> Ids \cup {None}]
       /\ s.others \subseteq Ids
       /\ s.valid \in BOOLEAN

\* The registries of Home Assistant are sound: no two entities of it with one id
\* or one unique id, no two devices with one identifier, ids that belong to keys;
\* and an entity is on a device that is there.
ASSUME StartsAssumption ==
  \A s \in Starts :
    /\ \A x, y \in s.entities : x # y => x.id # y.id /\ <<x.scheme, x.key>> # <<y.scheme, y.key>>
    /\ \A x \in s.entities : x.id \notin s.others /\ x.id[2] = x.key /\ s.devices[x.device] # {}
    /\ \A k \in Renamed : s.deleted[k] # None => s.deleted[k][2] = k
    /\ s.devices["v1"] \cap s.devices["v2"] = {}

VARIABLES
  start,      \* how it was before the first migration (never changes)
  entities,   \* the entity registry, of this entry
  devices,    \* the device registry: identifiers, none if there is no such device
  current,    \* entry.version >= 5
  saved,      \* the registries and the entry as of the last start
  phase,      \* what comes next
  todo,       \* entries of the loop's snapshot still to be visited
  wasV1       \* was_v1

vars == <<start, entities, devices, current, saved, phase, todo, wasV1>>

TypeOK ==
  /\ entities \in SUBSET Entity
  /\ devices \in [Devices -> SUBSET Identifiers]
  /\ current \in BOOLEAN
  /\ saved \in [entities : SUBSET Entity, devices : [Devices -> SUBSET Identifiers],
                current : BOOLEAN]
  /\ phase \in {"start", "entities", "devices", "done", "current", "refused"}
  /\ todo \in SUBSET Entity
  /\ wasV1 \in BOOLEAN

Init ==
  /\ start \in Starts
  /\ entities = start.entities /\ devices = start.devices /\ current = FALSE
  /\ saved = [entities |-> entities, devices |-> devices, current |-> current]
  /\ phase = "start" /\ todo = {} /\ wasV1 = FALSE

----------------------------------------------------------------------------
(* async_migrate_entry *)

AlreadyCurrent ==
  /\ phase = "start" /\ current
  /\ phase' = "current"
  /\ UNCHANGED <<start, entities, devices, current, saved, todo, wasV1>>

\* The serial is not 16 hex digits.
Refuse ==
  /\ phase = "start" /\ ~current /\ ~start.valid
  /\ phase' = "refused"
  /\ UNCHANGED <<start, entities, devices, current, saved, todo, wasV1>>

Begin ==
  /\ phase = "start" /\ ~current /\ start.valid
  /\ phase' = "entities"
  /\ todo' = entities
  /\ wasV1' = (\E e \in entities : e.scheme = "v1" \/ e.id[1] \in V1Kinds)
  /\ UNCHANGED <<start, entities, devices, current, saved>>

----------------------------------------------------------------------------
(* _async_migrate_entities.  `e' is the entry as it was when the loop began, *)
(* the registry's calls reach whatever has its entity id by now.             *)

Named(e) == {x \in entities : x.id = e.id}

Alive(e) == Named(e) # {}

Visit(e) ==
  /\ phase = "entities" /\ e \in todo
  /\ todo' = todo \ {e}
  /\ UNCHANGED <<start, devices, current, saved, phase, wasV1>>

\* Removed earlier as a duplicate, or a 1.x key that the table does not have.
Skip(e) ==
  /\ Visit(e)
  /\ ~Alive(e) \/ (e.scheme = "v1" /\ e.key \in Unknown)
  /\ UNCHANGED entities

Retire(e) ==
  /\ Visit(e)
  /\ Alive(e) /\ e.scheme = "v1" /\ e.key \in Retired
  /\ entities' = entities \ Named(e)

\* Wrong: a name that the user gave is cleared too.
ClearedAlways(e, x) == "none"

\* What 1.x called by its own label is to be called by its translation.
Cleared(e, x) == IF e.name = "label" THEN "none" ELSE x.name

\* Under the new unique id.
Adopted(e) ==
  {[x EXCEPT !.scheme = "v2", !.key = e.key, !.name = Cleared(e, x)] : x \in Named(e)}

\* Wrong: the replacement stays.
AdoptBeside(e) ==
  /\ Visit(e)
  /\ Alive(e) /\ e.scheme = "v1" /\ e.key \in Renamed
  /\ entities' = (entities \ Named(e)) \cup Adopted(e)

\* It takes the new unique id, from a replacement that has it already.
Adopt(e) ==
  /\ Visit(e)
  /\ Alive(e) /\ e.scheme = "v1" /\ e.key \in Renamed
  /\ entities' = {x \in entities \ Named(e) : x.scheme # "v2" \/ x.key # e.key}
                   \cup Adopted(e)

\* The id that 1.x gave: as the registry remembers it, or else from the label.
Wanted(k) == IF start.deleted[k] # None THEN start.deleted[k] ELSE <<"label", k>>

Taken(id) == id \in start.others \/ \E x \in entities : x.id = id

\* Wrong: an id from an earlier label is moved to that of the last one.
RestoredFromLabel(e, x) ==
  IF wasV1 /\ e.key \in Renamed /\ ~Taken(Wanted(e.key)) THEN Wanted(e.key) ELSE x.id

\* _async_restore_entity_id
Restored(e, x) ==
  IF /\ wasV1
     /\ e.id[1] \notin V1Kinds
     /\ e.key \in Renamed
     /\ ~Taken(Wanted(e.key))
  THEN Wanted(e.key)
  ELSE x.id

\* Already on the new unique id.
Refresh(e) ==
  /\ Visit(e)
  /\ Alive(e) /\ e.scheme = "v2"
  /\ entities' = (entities \ Named(e)) \cup
       {[x EXCEPT !.name = Cleared(e, x), !.id = Restored(e, x)] : x \in Named(e)}

EntitiesDone ==
  /\ phase = "entities" /\ todo = {}
  /\ phase' = "devices"
  /\ UNCHANGED <<start, entities, devices, current, saved, todo, wasV1>>

----------------------------------------------------------------------------
(* _async_migrate_device *)

Present == {d \in Devices : devices[d] # {}}

\* The one of 1.x, or else the one that has the right identifier already.
IsKept(d) ==
  \/ "placeholder" \in devices[d]
  \/ "serial" \in devices[d] /\ \A o \in Devices : "placeholder" \notin devices[o]

\* Wrong: the device is removed with the entities that have drifted onto it.
MergeUnmoved(d) ==
  /\ phase = "devices" /\ d \in Present /\ ~IsKept(d)
  /\ entities' = {x \in entities : x.device # d}
  /\ devices' = [devices EXCEPT ![d] = {}]
  /\ UNCHANGED <<start, current, saved, phase, todo, wasV1>>

\* The registry drops, with a device, the entities that are still on it.
Merge(d) ==
  /\ phase = "devices" /\ d \in Present /\ ~IsKept(d)
  /\ \E keep \in Present :
       /\ IsKept(keep)
       /\ entities' = {IF x.device = d THEN [x EXCEPT !.device = keep] ELSE x : x \in entities}
  /\ devices' = [devices EXCEPT ![d] = {}]
  /\ UNCHANGED <<start, current, saved, phase, todo, wasV1>>

\* The kept device gets the charger's identifier, if there is one.
Rekeyed == [d \in Devices |-> IF d \in Present THEN {"serial"} ELSE {}]

\* The last step, and the entry is up to date.
Finish ==
  /\ phase = "devices" /\ \A d \in Present : IsKept(d)
  /\ devices' = Rekeyed
  /\ current' = TRUE
  /\ phase' = "done"
  /\ UNCHANGED <<start, entities, saved, todo, wasV1>>

----------------------------------------------------------------------------
(* Home Assistant (external) *)

\* It stops or crashes; both registries, or the entry, may not be saved yet.
Restart ==
  /\ phase \in {"done", "current", "refused"}
  /\ \/ UNCHANGED <<entities, devices>>
     \/ entities' = saved.entities /\ devices' = saved.devices
  /\ current' \in {saved.current, current}
  /\ saved' = [entities |-> entities', devices |-> devices', current |-> current']
  /\ phase' = "start" /\ todo' = {} /\ wasV1' = FALSE
  /\ UNCHANGED start

----------------------------------------------------------------------------

MigrateEntity == \E e \in todo : Skip(e) \/ Retire(e) \/ Adopt(e) \/ Refresh(e)
MigrateDevice == (\E d \in Devices : Merge(d)) \/ Finish

Next ==
  \/ AlreadyCurrent \/ Refuse \/ Begin
  \/ MigrateEntity \/ EntitiesDone \/ MigrateDevice
  \/ Restart

Spec == Init /\ [][Next]_vars

----------------------------------------------------------------------------
(* What must hold *)

\* No call asks the registries for what they refuse with an exception: two
\* entities with one id or one unique id, two devices with one identifier
\* ("re-keying collides on the identifier").
NoCollision ==
  /\ \A x, y \in entities : x # y => x.id # y.id /\ <<x.scheme, x.key>> # <<y.scheme, y.key>>
  /\ \A x \in entities : x.id \notin start.others
  /\ devices["v1"] \cap devices["v2"] = {}

\* An id that 1.x gave stays with its key, through any number of migrations and
\* crashes ("Entity IDs are left exactly as they are"): that of the 1.x entity,
\* or of the one that has taken its place.
IdsKept ==
  \A e \in start.entities :
    /\ e.key \in Renamed /\ e.id[1] \in V1Kinds
    /\ e.scheme = "v1" \/ ~\E o \in start.entities : o.key = e.key /\ o.scheme = "v1"
    => \E x \in entities : x.id = e.id /\ x.key = e.key

\* What the user called an entity is never lost ("A name you set yourself is
\* left alone"), unless the entity was a duplicate of another one.
NamesKept ==
  \A e \in start.entities :
    /\ e.key \in Renamed /\ e.name = "own"
    /\ e.scheme = "v1" \/ ~\E o \in start.entities : o.key = e.key /\ o.scheme = "v1"
    => \E x \in entities : x.key = e.key /\ x.name = "own"

\* A migration that has run to its end leaves one entity for each key that had
\* one, none with a 1.x label or unique id but those that are not in the table,
\* and all on one device that has the charger's identifier alone.
Settled ==
  phase = "done" =>
    /\ \A k \in Renamed : (\E e \in start.entities : e.key = k) => \E x \in entities : x.key = k
    /\ \A x \in entities : x.key \in Unknown \/ (x.scheme = "v2" /\ x.name # "label")
    /\ Cardinality(Present) <= 1
    /\ \A d \in Present : devices[d] = {"serial"}
    /\ \A x \in entities : x.device \in Present
=============================================================================
