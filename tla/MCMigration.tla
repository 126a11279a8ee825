---------------------------- MODULE MCMigration ----------------------------
(***************************************************************************)
(* What earlier releases may have left: 1.x entities; the replacements     *)
(* that 2.x made beside them; entities migrated before, on the new unique  *)
(* id with the id of 1.x or another one; 1.x entities that are gone.       *)
(***************************************************************************)
EXTENDS Migration

CONSTANTS power, missing, other, noId

RenamedKeys == {power}
RetiredKeys == {missing}
UnknownKeys == {other}

Of(schemes, kinds, keys, names, on) ==
  [id : kinds \X keys, scheme : schemes, key : keys, name : names, device : on]

\* 1.x put its entities on its own device.
Old(keys, kinds, on) == Of({"v1"}, kinds, keys, {"label", "own"}, on \cap {"v1"})
New(on) == Of({"v2"}, Kinds, RenamedKeys, {"label", "own", "none"}, on)

AtMostOne(set) == {{}} \cup {{e} : e \in set}

\* The devices that this entry may have, by their identifiers.
DeviceSets ==
  {d \in [Devices -> SUBSET Identifiers] :
     /\ d["v1"] \cap d["v2"] = {}
     /\ "placeholder" \notin d["v2"]}

Registries(on) ==
  {a \cup b \cup c \cup d :
     a \in AtMostOne(Old(RenamedKeys, {"label", "older", "own"}, on)),
     b \in AtMostOne(New(on)),
     c \in AtMostOne(Old(RetiredKeys, {"label"}, on)),
     d \in AtMostOne(Of({"v1"}, {"older"}, UnknownKeys, {"own"}, on \cap {"v1"}))}

\* No two entities have one id, no 1.x entity is both there and deleted, and an
\* entity of somebody else may have the id that the label gives.
StartsOn(dev) ==
  {[entities |-> reg, devices |-> dev, deleted |-> [k \in RenamedKeys |-> gone],
    others |-> foreign, valid |-> TRUE] :
     reg \in {r \in Registries({d \in Devices : dev[d] # {}}) :
               \A x, y \in r : x.id = y.id => x = y},
     gone \in {noId, <<"older", power>>},
     foreign \in {{}, {<<"label", power>>}}}

PossibleStarts ==
  LET starts == UNION {StartsOn(dev) : dev \in DeviceSets}
      good   == {s \in starts :
                   /\ \A x \in s.entities : x.id \notin s.others
                   /\ (\E x \in s.entities : x.key = power /\ x.scheme = "v1")
                      => s.deleted[power] = noId}
  IN  good \cup {[s EXCEPT !.valid = FALSE] : s \in {s \in good : s.entities = {}}}
=============================================================================
