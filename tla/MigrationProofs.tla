--------------------------- MODULE MigrationProofs ---------------------------
(***************************************************************************)
(* Proofs about Migration, for any tables of keys, and for every sound     *)
(* registry that earlier releases may have left, with any number of        *)
(* crashes: no call collides, the ids of 1.x stay, and so do the names     *)
(* that the user gave; and what a migration is for is done when it ends.   *)
(***************************************************************************)
EXTENDS Migration, TLAPS, FiniteSetTheorems

\* The entities whose ids are promised to stay.
Guarded(e) ==
  /\ e.key \in Renamed /\ e.id[1] \in V1Kinds
  /\ e.scheme = "v1" \/ ~\E o \in start.entities : o.key = e.key /\ o.scheme = "v1"

\* The entities whose names are.
Called(e) ==
  /\ e.key \in Renamed /\ e.name = "own"
  /\ e.scheme = "v1" \/ ~\E o \in start.entities : o.key = e.key /\ o.scheme = "v1"

\* A registry without a collision.
Sound(reg) ==
  /\ reg \subseteq Entity
  /\ \A x, y \in reg : x # y => x.id # y.id /\ <<x.scheme, x.key>> # <<y.scheme, y.key>>
  /\ \A x \in reg : x.id \notin start.others

\* Ids belong to keys, and no entity comes to have a unique id of 1.x.
Owned(reg) ==
  \A x \in reg :
    /\ x.id[2] = x.key
    /\ x.scheme = "v1" =>
         \E s \in start.entities : s.scheme = "v1" /\ s.id = x.id /\ s.key = x.key

Kept(reg) == \A e \in start.entities : Guarded(e) => \E x \in reg : x.id = e.id

\* Of a 1.x entity and its replacement, the name is the former's.
Names(reg) ==
  \A e \in start.entities :
    Called(e) =>
      \E x \in reg :
        /\ x.key = e.key /\ x.name = "own"
        /\ x.scheme = "v1" \/ \A z \in reg : z.key = e.key => z.scheme # "v1"

Good(reg) == Sound(reg) /\ Owned(reg) /\ Kept(reg) /\ Names(reg)

Apart(dev) ==
  /\ dev \in [Devices -> SUBSET Identifiers]
  /\ dev["v1"] \cap dev["v2"] = {}

\* What is still to be visited: what has its id by now is the entity that had it
\* when the loop began, in all that the loop looks at; and a 1.x entity is there.
Snapshot ==
  /\ todo \subseteq Entity /\ Owned(todo)
  /\ \A t, u \in todo : t # u => t.id # u.id /\ <<t.scheme, t.key>> # <<u.scheme, u.key>>
  /\ \A t \in todo, x \in entities :
       x.id = t.id => x.scheme = t.scheme /\ x.key = t.key /\ x.name = t.name
  /\ \A t \in todo : t.scheme = "v1" => \E x \in entities : x.id = t.id

MigrationInv ==
  /\ start \in Starts
  /\ Good(entities) /\ Good(saved.entities)
  /\ Apart(devices) /\ Apart(saved.devices)
  /\ Snapshot

\* Of an entry of the snapshot there is at most one entity left.
LEMMA NamedOne ==
  ASSUME MigrationInv, NEW e \in todo, Alive(e)
  PROVE  \E x \in entities : /\ Named(e) = {x} /\ x.id = e.id
                            /\ x.scheme = e.scheme /\ x.key = e.key /\ x.name = e.name
<1>1. PICK x \in entities : x.id = e.id
  BY DEF Alive, Named
<1>2. \A y \in entities : y.id = e.id => y = x
  BY <1>1 DEF MigrationInv, Good, Sound
<1>3. x.scheme = e.scheme /\ x.key = e.key /\ x.name = e.name
  BY <1>1 DEF MigrationInv, Snapshot
<1> QED
  BY <1>1, <1>2, <1>3 DEF Named

\* How the start was.
LEMMA StartSound ==
  ASSUME start \in Starts
  PROVE  /\ Good(start.entities) /\ Apart(start.devices)
         /\ \A k \in Renamed : start.deleted[k] \in Ids \cup {None}
         /\ \A k \in Renamed : start.deleted[k] # None => start.deleted[k][2] = k
<1>1. /\ start.entities \subseteq Entity
      /\ start.devices \in [Devices -> SUBSET Identifiers]
      /\ start.deleted \in [Renamed -> Ids \cup {None}]
  BY MigrationAssumption
<1>2. Sound(start.entities)
  BY <1>1, StartsAssumption DEF Sound
<1>3. Owned(start.entities)
  BY StartsAssumption DEF Owned
<1>4. Kept(start.entities)
  BY DEF Kept
<1>6. Names(start.entities)
  BY DEF Names, Called
<1>5. Apart(start.devices)
  BY <1>1, StartsAssumption DEF Apart
<1> QED
  BY <1>1, <1>2, <1>3, <1>4, <1>5, <1>6, StartsAssumption DEF Good

----------------------------------------------------------------------------
(* The turns of the loop over the entities *)

\* What a turn leaves of the snapshot fits, if no entity comes to have an id that
\* is still to be visited, and no other 1.x entity loses its own.
LEMMA SnapshotKept ==
  ASSUME Snapshot, UNCHANGED start, todo' \subseteq todo,
         \A x \in entities', t \in todo' :
           x.id = t.id => \E y \in entities : /\ y.id = x.id /\ y.scheme = x.scheme
                                             /\ y.key = x.key /\ y.name = x.name,
         \A t \in todo', y \in entities :
           t.scheme = "v1" /\ y.id = t.id /\ y.scheme = "v1" => \E x \in entities' : x.id = t.id
  PROVE  Snapshot'
<1>1. /\ todo' \subseteq Entity /\ Owned(todo)'
      /\ \A t, u \in todo' : t # u => t.id # u.id /\ <<t.scheme, t.key>> # <<u.scheme, u.key>>
  BY DEF Snapshot, Owned
<1>2. \A t \in todo', x \in entities' :
        x.id = t.id => x.scheme = t.scheme /\ x.key = t.key /\ x.name = t.name
  BY DEF Snapshot
<1>3. \A t \in todo' : t.scheme = "v1" => \E x \in entities' : x.id = t.id
  BY DEF Snapshot
<1> QED
  BY <1>1, <1>2, <1>3 DEF Snapshot

\* The turn for `e' is not repeated, and no other one has its id.
LEMMA Visited ==
  ASSUME Snapshot, NEW e \in todo, Visit(e)
  PROVE  /\ start' = start /\ todo' \subseteq todo
         /\ \A t \in todo' : t.id # e.id /\ <<t.scheme, t.key>> # <<e.scheme, e.key>>
BY DEF Visit, Snapshot

LEMMA RetireGood ==
  ASSUME MigrationInv, NEW e \in todo, Retire(e)
  PROVE  Good(entities)' /\ Snapshot'
<1>1. entities' = entities \ Named(e) /\ e.key \in Retired /\ Visit(e)
  BY DEF Retire
<1>v. /\ start' = start /\ todo' \subseteq todo
      /\ \A t \in todo' : t.id # e.id
  BY <1>1, Visited DEF MigrationInv
<1>2. Sound(entities)' /\ Owned(entities)'
  BY <1>1, <1>v DEF MigrationInv, Good, Sound, Owned
<1>3. ASSUME NEW g \in start.entities, Guarded(g)
      PROVE  \E x \in entities' : x.id = g.id
  <2>1. PICK x \in entities : x.id = g.id
    BY <1>3 DEF MigrationInv, Good, Kept
  <2>2. g.id[2] = g.key /\ e.id[2] = e.key /\ g.key \in Renamed
    BY <1>3, StartSound DEF MigrationInv, Snapshot, Owned, Good, Guarded
  <2>3. e.key # g.key
    BY <1>1, <2>2, MigrationAssumption
  <2>4. x \notin Named(e)
    BY <2>1, <2>2, <2>3 DEF Named
  <2> QED
    BY <1>1, <2>1, <2>4
<1>4. Kept(entities)'
  BY <1>v, <1>3 DEF Kept, Guarded
<1>5. \A x \in Named(e) : x.key \notin Renamed
  BY <1>1, MigrationAssumption DEF Named, MigrationInv, Snapshot
<1>6. Names(entities)'
  BY <1>1, <1>v, <1>5 DEF MigrationInv, Good, Names, Called
<1>7. Snapshot'
  BY <1>1, <1>v, SnapshotKept DEF MigrationInv, Named
<1> QED
  BY <1>2, <1>4, <1>6, <1>7 DEF Good

LEMMA AdoptGood ==
  ASSUME MigrationInv, NEW e \in todo, Adopt(e)
  PROVE  Good(entities)' /\ Snapshot'
<1>v. /\ start' = start /\ todo' \subseteq todo
      /\ \A t \in todo' : t.id # e.id
  BY Visited DEF Adopt, MigrationInv
<1>1. /\ start' = start
      /\ Alive(e) /\ e.scheme = "v1" /\ e.key \in Renamed
      /\ entities' = {x \in entities \ Named(e) : x.scheme # "v2" \/ x.key # e.key}
                       \cup Adopted(e)
  BY DEF Adopt, Visit
<1>2. PICK x \in entities : /\ Named(e) = {x} /\ x.id = e.id
                            /\ x.scheme = e.scheme /\ x.key = e.key /\ x.name = e.name
  BY <1>1, NamedOne
<1> DEFINE y == [x EXCEPT !.scheme = "v2", !.key = e.key, !.name = Cleared(e, x)]
           rest == {z \in entities \ {x} : z.scheme # "v2" \/ z.key # e.key}
<1>3. entities' = rest \cup {y}
  BY <1>1, <1>2 DEF Adopted
<1>4. x \in Entity /\ e \in Entity /\ e.id[2] = e.key
  BY DEF MigrationInv, Good, Sound, Snapshot, Owned
<1>5. y \in Entity /\ y.id = x.id /\ y.scheme = "v2" /\ y.key = e.key
  BY <1>4 DEF Entity, Cleared
<1> HIDE DEF y
<1>6. Sound(entities)'
  <2>1. Sound(entities)
    BY DEF MigrationInv, Good
  <2>2. entities' \subseteq Entity
    BY <1>3, <1>5, <2>1 DEF Sound
  <2>3. \A z \in rest : z.id # y.id /\ <<z.scheme, z.key>> # <<y.scheme, y.key>>
    BY <1>5, <2>1 DEF Sound
  <2>4. \A a, b \in entities' : a # b => a.id # b.id /\ <<a.scheme, a.key>> # <<b.scheme, b.key>>
    BY <1>3, <2>1, <2>3 DEF Sound
  <2>5. \A z \in entities' : z.id \notin start.others
    BY <1>3, <1>5, <2>1 DEF Sound
  <2> QED
    BY <1>1, <2>2, <2>4, <2>5 DEF Sound
<1>7. Owned(entities)'
  BY <1>1, <1>2, <1>3, <1>4, <1>5 DEF MigrationInv, Good, Owned
<1>8. ASSUME NEW g \in start.entities, Guarded(g)
      PROVE  \E z \in entities' : z.id = g.id
  <2>1. PICK z \in entities : z.id = g.id
    BY <1>8 DEF MigrationInv, Good, Kept
  <2>2. CASE z = x
    BY <2>1, <2>2, <1>3, <1>5
  <2>3. CASE z # x /\ (z.scheme # "v2" \/ z.key # e.key)
    BY <2>1, <2>3, <1>3
  <2>4. CASE z # x /\ z.key = e.key
    <3>1. PICK s \in start.entities : s.scheme = "v1" /\ s.id = e.id /\ s.key = e.key
      BY <1>1 DEF MigrationInv, Snapshot, Owned
    <3>2. z.id[2] = z.key /\ g.id[2] = g.key
      BY StartSound DEF MigrationInv, Good, Owned
    <3>3. g.key = e.key
      BY <2>1, <2>4, <3>2
    <3>4. g.scheme = "v1"
      BY <1>8, <3>1, <3>3 DEF Guarded
    <3>5. s = g
      BY <3>1, <3>3, <3>4, StartSound DEF MigrationInv, Good, Sound
    <3>6. z.id = x.id
      BY <3>5, <3>1, <2>1, <1>2
    <3> QED
      BY <3>6, <2>4 DEF MigrationInv, Good, Sound
  <2> QED
    BY <2>2, <2>3, <2>4
<1>9. Kept(entities)'
  BY <1>1, <1>8 DEF Kept, Guarded
<1>10. ASSUME NEW g \in start.entities, Called(g)
       PROVE  \E z \in entities' :
                /\ z.key = g.key /\ z.name = "own"
                /\ z.scheme = "v1" \/ \A w \in entities' : w.key = g.key => w.scheme # "v1"
  <2>1. PICK z \in entities :
          /\ z.key = g.key /\ z.name = "own"
          /\ z.scheme = "v1" \/ \A w \in entities : w.key = g.key => w.scheme # "v1"
    BY <1>10 DEF MigrationInv, Good, Names
  <2>2. CASE g.key = e.key
    <3>1. z = x
      BY <2>1, <2>2, <1>1, <1>2 DEF MigrationInv, Good, Sound
    <3>2. y.name = "own"
      BY <3>1, <2>1, <1>2 DEF y, Cleared
    <3>3. \A w \in rest : w.key = e.key => w.scheme # "v1"
      BY <1>1, <1>2 DEF MigrationInv, Good, Sound
    <3> QED
      BY <3>2, <3>3, <2>2, <1>3, <1>5
  <2>3. CASE g.key # e.key
    BY <2>1, <2>3, <1>2, <1>3, <1>5
  <2> QED
    BY <2>2, <2>3
<1>11. Names(entities)'
  BY <1>1, <1>10 DEF Names, Called
<1>12. Snapshot'
  <2>1. \A z \in entities', t \in todo' : z.id = t.id => z \in entities
    BY <1>v, <1>2, <1>3, <1>5
  <2>2. \A t \in todo', z \in entities :
          t.scheme = "v1" /\ z.id = t.id /\ z.scheme = "v1" => z \in entities'
    BY <1>v, <1>2, <1>3
  <2> QED
    BY <1>v, <2>1, <2>2, SnapshotKept DEF MigrationInv
<1> QED
  BY <1>6, <1>7, <1>9, <1>11, <1>12 DEF Good

LEMMA RefreshGood ==
  ASSUME MigrationInv, NEW e \in todo, Refresh(e)
  PROVE  Good(entities)' /\ Snapshot'
<1>v. /\ start' = start /\ todo' \subseteq todo
      /\ \A t \in todo' : t.id # e.id /\ <<t.scheme, t.key>> # <<e.scheme, e.key>>
  BY Visited DEF Refresh, MigrationInv
<1>1. /\ start' = start
      /\ Alive(e) /\ e.scheme = "v2"
      /\ entities' = (entities \ Named(e)) \cup
           {[x EXCEPT !.name = Cleared(e, x), !.id = Restored(e, x)] : x \in Named(e)}
  BY DEF Refresh, Visit
<1>2. PICK x \in entities : /\ Named(e) = {x} /\ x.id = e.id
                            /\ x.scheme = e.scheme /\ x.key = e.key /\ x.name = e.name
  BY <1>1, NamedOne
<1> DEFINE y == [x EXCEPT !.name = Cleared(e, x), !.id = Restored(e, x)]
<1>3. entities' = (entities \ {x}) \cup {y}
  BY <1>1, <1>2
<1>4. /\ x \in Entity /\ e \in Entity /\ e.id[2] = e.key /\ x.id[2] = x.key
      /\ x.scheme # "v1"
  BY <1>1, <1>2 DEF MigrationInv, Good, Sound, Snapshot, Owned
<1>5. \/ Restored(e, x) = x.id
      \/ /\ e.id[1] \notin V1Kinds /\ e.key \in Renamed
         /\ Restored(e, x) = Wanted(e.key) /\ ~Taken(Wanted(e.key))
  BY DEF Restored
<1>6. ASSUME e.key \in Renamed
      PROVE  Wanted(e.key) \in Ids /\ Wanted(e.key)[2] = e.key
  BY <1>6, StartSound DEF Wanted, Ids, Kinds, Keys, MigrationInv
<1>7. Restored(e, x) \in Ids /\ Restored(e, x)[2] = x.key
  BY <1>2, <1>4, <1>5, <1>6 DEF Entity
<1>8. /\ y \in Entity /\ y.id = Restored(e, x) /\ y.scheme = x.scheme /\ y.key = x.key
  BY <1>4, <1>7 DEF Entity, Cleared
<1> HIDE DEF y
<1>9. Sound(entities)'
  <2>1. Sound(entities)
    BY DEF MigrationInv, Good
  <2>2. entities' \subseteq Entity
    BY <1>3, <1>8, <2>1 DEF Sound
  <2>3. y.id \notin start.others /\ \A z \in entities \ {x} : z.id # y.id
    BY <1>5, <1>8, <2>1 DEF Sound, Taken
  <2>4. \A z \in entities \ {x} : <<z.scheme, z.key>> # <<y.scheme, y.key>>
    BY <1>8, <2>1 DEF Sound
  <2>5. \A a, b \in entities' : a # b => a.id # b.id /\ <<a.scheme, a.key>> # <<b.scheme, b.key>>
    BY <1>3, <2>1, <2>3, <2>4 DEF Sound
  <2>6. \A z \in entities' : z.id \notin start.others
    BY <1>3, <2>1, <2>3 DEF Sound
  <2> QED
    BY <1>1, <2>2, <2>5, <2>6 DEF Sound
<1>10. Owned(entities)'
  BY <1>1, <1>3, <1>4, <1>7, <1>8 DEF MigrationInv, Good, Owned
<1>11. ASSUME NEW g \in start.entities, Guarded(g)
       PROVE  \E z \in entities' : z.id = g.id
  <2>1. PICK z \in entities : z.id = g.id
    BY <1>11 DEF MigrationInv, Good, Kept
  <2>2. CASE z # x
    BY <2>1, <2>2, <1>3
  <2>3. CASE z = x
    <3>1. e.id[1] \in V1Kinds
      BY <2>1, <2>3, <1>2, <1>11 DEF Guarded
    <3>2. y.id = g.id
      BY <3>1, <2>1, <2>3, <1>5, <1>8
    <3> QED
      BY <3>2, <1>3
  <2> QED
    BY <2>2, <2>3
<1>12. Kept(entities)'
  BY <1>1, <1>11 DEF Kept, Guarded
<1>13. y.name = "own" \/ x.name # "own"
  BY <1>2 DEF y, Cleared
<1>14. Names(entities)'
  <2>1. ASSUME NEW g \in start.entities, Called(g)
        PROVE  \E z \in entities' :
                 /\ z.key = g.key /\ z.name = "own"
                 /\ z.scheme = "v1" \/ \A w \in entities' : w.key = g.key => w.scheme # "v1"
    <3>1. PICK z \in entities :
            /\ z.key = g.key /\ z.name = "own"
            /\ z.scheme = "v1" \/ \A w \in entities : w.key = g.key => w.scheme # "v1"
      BY <2>1 DEF MigrationInv, Good, Names
    <3>2. (\A w \in entities : w.key = g.key => w.scheme # "v1")
            => \A w \in entities' : w.key = g.key => w.scheme # "v1"
      BY <1>3, <1>8
    <3>3. CASE z = x
      BY <3>1, <3>2, <3>3, <1>3, <1>8, <1>13
    <3>4. CASE z # x
      BY <3>1, <3>2, <3>4, <1>3
    <3> QED
      BY <3>3, <3>4
  <2> QED
    BY <1>1, <2>1 DEF Names, Called
<1>15. \A t \in todo' : t.id # y.id
  <2> SUFFICES ASSUME NEW t \in todo', t.id = y.id PROVE FALSE
    OBVIOUS
  <2>1. t \in todo /\ t.id # x.id /\ t.id[2] = t.key
    BY <1>v, <1>2 DEF MigrationInv, Snapshot, Owned
  <2>2. e.key \in Renamed /\ t.id = Wanted(e.key) /\ ~Taken(Wanted(e.key))
    BY <1>5, <1>8, <2>1
  <2>3. t.key = e.key
    BY <1>6, <2>1, <2>2
  <2>4. t.scheme = "v1"
    BY <1>1, <1>v, <2>1, <2>3 DEF MigrationInv, Snapshot, Entity
  <2> QED
    BY <2>1, <2>2, <2>4 DEF MigrationInv, Snapshot, Taken
<1>16. Snapshot'
  <2>1. \A z \in entities', t \in todo' : z.id = t.id => z \in entities
    BY <1>3, <1>15
  <2>2. \A t \in todo', z \in entities : z.id = t.id => z \in entities'
    BY <1>v, <1>2, <1>3
  <2> QED
    BY <1>v, <2>1, <2>2, SnapshotKept DEF MigrationInv
<1> QED
  BY <1>9, <1>10, <1>12, <1>14, <1>16 DEF Good

----------------------------------------------------------------------------
(* The devices *)

LEMMA MergeGood ==
  ASSUME MigrationInv, NEW d \in Devices, Merge(d)
  PROVE  Good(entities)' /\ Apart(devices)' /\ Snapshot'
<1>1. PICK keep \in Present :
        entities' = {IF x.device = d THEN [x EXCEPT !.device = keep] ELSE x : x \in entities}
  BY DEF Merge
<1>2. start' = start /\ todo' = todo /\ devices' = [devices EXCEPT ![d] = {}]
  BY DEF Merge
<1> DEFINE moved(x) == IF x.device = d THEN [x EXCEPT !.device = keep] ELSE x
<1>3. \A x \in entities : /\ moved(x) \in Entity /\ moved(x).id = x.id
                          /\ moved(x).scheme = x.scheme /\ moved(x).key = x.key
                          /\ moved(x).name = x.name
  BY DEF MigrationInv, Good, Sound, Entity, Present
<1>4. entities' = {moved(x) : x \in entities}
  BY <1>1
<1> HIDE DEF moved
<1>5. Sound(entities)'
  <2>1. Sound(entities)
    BY DEF MigrationInv, Good
  <2>2. entities' \subseteq Entity
    BY <1>3, <1>4
  <2>3. \A x, y \in entities :
          moved(x) # moved(y) => /\ moved(x).id # moved(y).id
                                 /\ <<moved(x).scheme, moved(x).key>> # <<moved(y).scheme, moved(y).key>>
    BY <1>3, <2>1 DEF Sound
  <2> QED
    BY <1>2, <1>3, <1>4, <2>1, <2>2, <2>3 DEF Sound
<1>6. Owned(entities)' /\ Kept(entities)' /\ Names(entities)'
  <2>1. Owned(entities)' /\ Kept(entities)'
    BY <1>2, <1>3, <1>4 DEF MigrationInv, Good, Owned, Kept, Guarded
  <2>2. Names(entities)'
    BY <1>2, <1>3, <1>4 DEF MigrationInv, Good, Names, Called
  <2> QED
    BY <2>1, <2>2
<1>7. Apart(devices)'
  BY <1>2 DEF MigrationInv, Apart, Devices
<1>8. Snapshot'
  BY <1>2, <1>3, <1>4, SnapshotKept DEF MigrationInv
<1> QED
  BY <1>5, <1>6, <1>7, <1>8 DEF Good

\* When the kept device gets its identifier, no other one is left.
LEMMA FinishApart ==
  ASSUME Apart(devices), Finish
  PROVE  Apart(devices)'
<1>1. /\ devices' = [d \in Devices |-> IF d \in Present THEN {"serial"} ELSE {}]
      /\ \A d \in Present : IsKept(d)
  BY DEF Finish, Rekeyed
<1>2. ~("v1" \in Present /\ "v2" \in Present)
  BY <1>1 DEF IsKept, Apart, Devices
<1> QED
  BY <1>1, <1>2 DEF Apart, Devices, Identifiers

----------------------------------------------------------------------------
(* The theorems *)

LEMMA MigrationInit == Init => MigrationInv
<1> SUFFICES ASSUME Init PROVE MigrationInv
  OBVIOUS
<1>1. /\ start \in Starts /\ entities = start.entities /\ devices = start.devices
      /\ saved.entities = entities /\ saved.devices = devices /\ todo = {}
  BY DEF Init
<1> QED
  BY <1>1, StartSound DEF MigrationInv, Snapshot, Owned

LEMMA MigrationStep == MigrationInv /\ [Next]_vars => MigrationInv'
<1> SUFFICES ASSUME MigrationInv, [Next]_vars PROVE MigrationInv'
  OBVIOUS
<1>f. ASSUME UNCHANGED <<start, entities, devices, saved, todo>>
      PROVE  MigrationInv'
  BY <1>f DEF MigrationInv, Good, Sound, Owned, Kept, Guarded, Names, Called, Apart, Snapshot
<1>s. ASSUME UNCHANGED <<start, saved>>, Good(entities)', Apart(devices)', Snapshot'
      PROVE  MigrationInv'
  BY <1>s DEF MigrationInv, Good, Sound, Owned, Kept, Guarded, Names, Called, Apart
<1>d. ASSUME UNCHANGED devices PROVE Apart(devices)'
  BY <1>d DEF MigrationInv, Apart
<1>1. CASE AlreadyCurrent \/ Refuse \/ EntitiesDone
  BY <1>1, <1>f DEF AlreadyCurrent, Refuse, EntitiesDone
<1>2. CASE Begin
  <2>1. UNCHANGED <<start, entities, devices, saved>> /\ todo' = entities
    BY <1>2 DEF Begin
  <2>2. Snapshot'
    BY <2>1 DEF MigrationInv, Good, Sound, Owned, Snapshot
  <2> QED
    BY <2>1, <2>2 DEF MigrationInv, Good, Sound, Owned, Kept, Guarded, Names, Called, Apart
<1>3. CASE MigrateEntity
  <2>1. PICK e \in todo : Skip(e) \/ Retire(e) \/ Adopt(e) \/ Refresh(e)
    BY <1>3 DEF MigrateEntity
  <2>2. CASE Skip(e)
    <3>1. UNCHANGED <<start, entities, devices, saved>> /\ todo' \subseteq todo
      BY <2>2 DEF Skip, Visit
    <3>2. Snapshot'
      BY <3>1, SnapshotKept DEF MigrationInv
    <3> QED
      BY <3>1, <3>2 DEF MigrationInv, Good, Sound, Owned, Kept, Guarded, Names, Called, Apart
  <2>3. CASE Retire(e) \/ Adopt(e) \/ Refresh(e)
    <3>1. UNCHANGED <<start, saved>> /\ UNCHANGED devices
      BY <2>3 DEF Retire, Adopt, Refresh, Visit
    <3>2. Good(entities)' /\ Snapshot'
      BY <2>3, RetireGood, AdoptGood, RefreshGood
    <3> QED
      BY <3>1, <3>2, <1>s, <1>d
  <2> QED
    BY <2>1, <2>2, <2>3
<1>4. CASE \E d \in Devices : Merge(d)
  <2>1. PICK d \in Devices : Merge(d)
    BY <1>4
  <2>2. UNCHANGED <<start, saved>>
    BY <2>1 DEF Merge
  <2> QED
    BY <2>1, <2>2, <1>s, MergeGood
<1>5. CASE Finish
  <2>1. UNCHANGED <<start, entities, saved, todo>>
    BY <1>5 DEF Finish
  <2>2. Apart(devices)'
    BY <1>5, FinishApart DEF MigrationInv
  <2>3. Good(entities)' /\ Snapshot'
    BY <2>1 DEF MigrationInv, Good, Sound, Owned, Kept, Guarded, Names, Called, Snapshot
  <2> QED
    BY <2>1, <2>2, <2>3, <1>s
<1>6. CASE Restart
  <2>1. /\ start' = start /\ todo' = {}
        /\ saved' = [entities |-> entities', devices |-> devices', current |-> current']
        /\ \/ UNCHANGED <<entities, devices>>
           \/ entities' = saved.entities /\ devices' = saved.devices
    BY <1>6 DEF Restart
  <2>2. Good(entities)' /\ Apart(devices)'
    BY <2>1 DEF MigrationInv, Good, Sound, Owned, Kept, Guarded, Names, Called, Apart
  <2>3. saved'.entities = entities' /\ saved'.devices = devices'
    BY <2>1
  <2>4. Good(saved.entities)' /\ Apart(saved.devices)'
    BY <2>1, <2>2, <2>3 DEF Good, Sound, Owned, Kept, Guarded, Names, Called, Apart
  <2>5. Snapshot'
    BY <2>1 DEF Snapshot, Owned
  <2> QED
    BY <2>1, <2>2, <2>4, <2>5 DEF MigrationInv
<1>7. CASE UNCHANGED vars
  BY <1>7, <1>f DEF vars
<1> QED
  BY <1>1, <1>2, <1>3, <1>4, <1>5, <1>6, <1>7 DEF Next, MigrateDevice

\* From any sound registry, through any number of migrations and crashes, no call
\* asks for two entities with one id or unique id, or two devices with one
\* identifier: there is no exception to stop the migration half-way.
THEOREM CollisionCorrect == Spec => []NoCollision
<1>1. MigrationInv => NoCollision
  BY DEF MigrationInv, Good, Sound, Apart, NoCollision
<1> QED
  BY <1>1, MigrationInit, MigrationStep, PTL DEF Spec

\* An id that 1.x gave stays with its key, whatever else the registry holds and
\* however often the migration is run on its own result.
THEOREM IdsCorrect == Spec => []IdsKept
<1>1. MigrationInv => IdsKept
  <2> SUFFICES ASSUME MigrationInv, NEW e \in start.entities, Guarded(e)
               PROVE  \E x \in entities : x.id = e.id /\ x.key = e.key
    BY DEF IdsKept, Guarded
  <2>1. PICK x \in entities : x.id = e.id
    BY DEF MigrationInv, Good, Kept
  <2>2. x.id[2] = x.key /\ e.id[2] = e.key
    BY StartSound DEF MigrationInv, Good, Owned
  <2> QED
    BY <2>1, <2>2
<1> QED
  BY <1>1, MigrationInit, MigrationStep, PTL DEF Spec

\* A name that the user gave is not lost, through any number of migrations, but
\* with a replacement whose 1.x entity is there.
THEOREM NamesCorrect == Spec => []NamesKept
<1>1. MigrationInv => NamesKept
  <2> SUFFICES ASSUME MigrationInv, NEW e \in start.entities, Called(e)
               PROVE  \E x \in entities : x.key = e.key /\ x.name = "own"
    BY DEF NamesKept, Called
  <2> QED
    BY DEF MigrationInv, Good, Names
<1> QED
  BY <1>1, MigrationInit, MigrationStep, PTL DEF Spec

----------------------------------------------------------------------------
(* What a migration leaves *)

\* An entity with nothing left to be done about it.
Migrated(x) == x.key \in Unknown \/ (x.scheme = "v2" /\ x.name # "label")

\* The renamed keys that had an entity have one.
Peopled(reg) ==
  \A k \in Renamed : (\E e \in start.entities : e.key = k) => \E x \in reg : x.key = k

Housed(reg, dev) == \A x \in reg : dev[x.device] # {}

\* Every entity has been visited, or is still to be.
Progress ==
  /\ phase = "entities" => \A x \in entities : Migrated(x) \/ \E t \in todo : t.id = x.id
  /\ phase \in {"devices", "done"} => \A x \in entities : Migrated(x)

\* At the end each device has the charger's identifier, so that there is one.
OneDevice == phase = "done" => \A d \in Present : devices[d] = {"serial"}

SettledInv ==
  /\ Peopled(entities) /\ Peopled(saved.entities)
  /\ Housed(entities, devices) /\ Housed(saved.entities, saved.devices)
  /\ Progress /\ OneDevice

\* A turn of the loop does what is to be done about the entity, if it leaves it.
LEMMA TurnSettles ==
  ASSUME MigrationInv, SettledInv, NEW e \in todo,
         Skip(e) \/ Retire(e) \/ Adopt(e) \/ Refresh(e)
  PROVE  Peopled(entities)' /\ Housed(entities, devices)' /\ Progress' /\ OneDevice'
<1>1. /\ phase = "entities" /\ phase' = "entities" /\ todo' = todo \ {e}
      /\ UNCHANGED <<start, devices, saved>>
  BY DEF Skip, Retire, Adopt, Refresh, Visit
<1>2. OneDevice'
  BY <1>1 DEF OneDevice
<1>3. \A x \in entities : x.id # e.id => Migrated(x) \/ \E t \in todo' : t.id = x.id
  BY <1>1 DEF SettledInv, Progress
<1>4. CASE Skip(e)
  <2>1. entities' = entities
    BY <1>4 DEF Skip
  <2>2. \A x \in entities : x.id = e.id => Migrated(x)
    BY <1>4 DEF Skip, Alive, Named, MigrationInv, Snapshot, Migrated
  <2>3. Progress'
    BY <1>1, <1>3, <2>1, <2>2 DEF Progress, Migrated
  <2> QED
    BY <1>1, <1>2, <2>1, <2>3 DEF SettledInv, Peopled, Housed
<1>5. CASE Retire(e)
  <2>1. entities' = entities \ Named(e)
    BY <1>5 DEF Retire
  <2>2. Progress'
    BY <1>1, <1>3, <2>1 DEF Progress, Named, Migrated
  <2>3. \A x \in Named(e) : x.key \notin Renamed
    BY <1>5, MigrationAssumption DEF Retire, Named, MigrationInv, Snapshot
  <2>4. Peopled(entities)'
    BY <1>1, <2>1, <2>3 DEF SettledInv, Peopled
  <2>5. Housed(entities, devices)'
    BY <1>1, <2>1 DEF SettledInv, Housed
  <2> QED
    BY <1>2, <2>2, <2>4, <2>5
<1>6. CASE Adopt(e) \/ Refresh(e)
  <2>1. PICK x \in entities : /\ Named(e) = {x} /\ x.id = e.id
                              /\ x.scheme = e.scheme /\ x.key = e.key /\ x.name = e.name
    BY <1>6, NamedOne DEF Adopt, Refresh
  <2>2. x \in Entity
    BY DEF MigrationInv, Good, Sound
  <2>3. PICK y : /\ y.scheme = "v2" /\ y.key = e.key /\ y.name = Cleared(e, x)
                 /\ y.device = x.device
                 /\ entities' \subseteq (entities \ {x}) \cup {y}
                 /\ \A z \in entities : z \in entities' \/ z.key = e.key
                 /\ y \in entities'
    <3>1. CASE Adopt(e)
      <4> DEFINE y == [x EXCEPT !.scheme = "v2", !.key = e.key, !.name = Cleared(e, x)]
      <4>1. entities' = {z \in entities \ {x} : z.scheme # "v2" \/ z.key # e.key} \cup {y}
        BY <3>1, <2>1 DEF Adopt, Adopted
      <4>2. y.scheme = "v2" /\ y.key = e.key /\ y.name = Cleared(e, x) /\ y.device = x.device
        BY <2>2 DEF Entity
      <4> QED
        BY <4>1, <4>2, <2>1
    <3>2. CASE Refresh(e)
      <4> DEFINE y == [x EXCEPT !.name = Cleared(e, x), !.id = Restored(e, x)]
      <4>1. entities' = (entities \ {x}) \cup {y}
        BY <3>2, <2>1 DEF Refresh
      <4>2. y.scheme = "v2" /\ y.key = e.key /\ y.name = Cleared(e, x) /\ y.device = x.device
        BY <3>2, <2>1, <2>2 DEF Entity, Refresh
      <4> QED
        BY <4>1, <4>2, <2>1
    <3> QED
      BY <1>6, <3>1, <3>2
  <2>4. y.name # "label"
    BY <2>1, <2>3 DEF Cleared
  <2>5. \A z \in entities \ {x} : z.id # e.id
    BY <2>1 DEF Named
  <2>6. Progress'
    BY <1>1, <1>3, <2>3, <2>4, <2>5 DEF Progress, Migrated
  <2>7. Peopled(entities)'
    BY <1>1, <2>3 DEF SettledInv, Peopled
  <2>8. Housed(entities, devices)'
    BY <1>1, <2>3 DEF SettledInv, Housed
  <2> QED
    BY <1>2, <2>6, <2>7, <2>8
<1> QED
  BY <1>4, <1>5, <1>6

\* The entities of a device that goes are on the one that stays.
LEMMA MergeSettles ==
  ASSUME MigrationInv, SettledInv, NEW d \in Devices, Merge(d)
  PROVE  Peopled(entities)' /\ Housed(entities, devices)' /\ Progress' /\ OneDevice'
<1>1. PICK keep \in Present :
        /\ IsKept(keep)
        /\ entities' = {IF x.device = d THEN [x EXCEPT !.device = keep] ELSE x : x \in entities}
  BY DEF Merge
<1>2. /\ phase = "devices" /\ phase' = "devices" /\ start' = start
      /\ devices' = [devices EXCEPT ![d] = {}] /\ ~IsKept(d)
  BY DEF Merge
<1> DEFINE moved(x) == IF x.device = d THEN [x EXCEPT !.device = keep] ELSE x
<1>3. \A x \in entities :
        /\ moved(x).scheme = x.scheme /\ moved(x).key = x.key /\ moved(x).name = x.name
        /\ moved(x).device = (IF x.device = d THEN keep ELSE x.device)
        /\ x.device \in Devices
  BY DEF MigrationInv, Good, Sound, Entity
<1>4. entities' = {moved(x) : x \in entities}
  BY <1>1
<1> HIDE DEF moved
<1>5. Peopled(entities)'
  BY <1>2, <1>3, <1>4 DEF SettledInv, Peopled
<1>6. keep # d /\ keep \in Devices /\ devices[keep] # {}
  BY <1>1, <1>2 DEF Present
<1>7. Housed(entities, devices)'
  <2>1. \A o \in Devices : o # d => devices'[o] = devices[o]
    BY <1>2 DEF MigrationInv, Apart
  <2> QED
    BY <1>3, <1>4, <1>6, <2>1 DEF SettledInv, Housed
<1>8. Progress'
  BY <1>2, <1>3, <1>4 DEF SettledInv, Progress, Migrated
<1>9. OneDevice'
  BY <1>2 DEF OneDevice
<1> QED
  BY <1>5, <1>7, <1>8, <1>9

LEMMA SettledStep == MigrationInv /\ SettledInv /\ [Next]_vars => SettledInv'
<1> SUFFICES ASSUME MigrationInv, SettledInv, [Next]_vars PROVE SettledInv'
  OBVIOUS
<1>s. ASSUME UNCHANGED <<start, saved>>, Peopled(entities)', Housed(entities, devices)',
             Progress', OneDevice'
      PROVE  SettledInv'
  BY <1>s DEF SettledInv, Peopled, Housed
<1>u. ASSUME UNCHANGED <<start, entities, devices, saved>>, Progress', OneDevice'
      PROVE  SettledInv'
  BY <1>u DEF SettledInv, Peopled, Housed
<1>1. CASE AlreadyCurrent \/ Refuse \/ EntitiesDone
  <2>1. UNCHANGED <<start, entities, devices, saved>>
    BY <1>1 DEF AlreadyCurrent, Refuse, EntitiesDone
  <2>2. Progress' /\ OneDevice'
    BY <1>1 DEF AlreadyCurrent, Refuse, EntitiesDone, SettledInv, Progress, OneDevice, Migrated
  <2> QED
    BY <2>1, <2>2, <1>u
<1>2. CASE Begin
  <2>1. UNCHANGED <<start, entities, devices, saved>> /\ todo' = entities /\ phase' = "entities"
    BY <1>2 DEF Begin
  <2> QED
    BY <2>1, <1>u DEF Progress, OneDevice
<1>3. CASE MigrateEntity
  <2>1. PICK e \in todo : Skip(e) \/ Retire(e) \/ Adopt(e) \/ Refresh(e)
    BY <1>3 DEF MigrateEntity
  <2>2. UNCHANGED <<start, saved>>
    BY <2>1 DEF Skip, Retire, Adopt, Refresh, Visit
  <2> QED
    BY <2>1, <2>2, <1>s, TurnSettles
<1>4. CASE \E d \in Devices : Merge(d)
  <2>1. PICK d \in Devices : Merge(d)
    BY <1>4
  <2>2. UNCHANGED <<start, saved>>
    BY <2>1 DEF Merge
  <2> QED
    BY <2>1, <2>2, <1>s, MergeSettles
<1>5. CASE Finish
  <2>1. /\ UNCHANGED <<start, entities, saved>> /\ phase = "devices" /\ phase' = "done"
        /\ devices' = [d \in Devices |-> IF d \in Present THEN {"serial"} ELSE {}]
    BY <1>5 DEF Finish, Rekeyed
  <2>2. Peopled(entities)' /\ Progress'
    BY <2>1 DEF SettledInv, Peopled, Progress, Migrated
  <2>3. Housed(entities, devices)'
    BY <2>1 DEF SettledInv, Housed, MigrationInv, Good, Sound, Entity, Present
  <2>4. OneDevice'
    BY <2>1 DEF OneDevice, Present
  <2> QED
    BY <2>1, <2>2, <2>3, <2>4, <1>s
<1>6. CASE Restart
  <2>1. /\ start' = start /\ phase' = "start"
        /\ saved' = [entities |-> entities', devices |-> devices', current |-> current']
        /\ \/ UNCHANGED <<entities, devices>>
           \/ entities' = saved.entities /\ devices' = saved.devices
    BY <1>6 DEF Restart
  <2>2. saved'.entities = entities' /\ saved'.devices = devices'
    BY <2>1
  <2>3. Peopled(entities)' /\ Housed(entities, devices)'
    BY <2>1 DEF SettledInv, Peopled, Housed
  <2>4. Peopled(saved.entities)' /\ Housed(saved.entities, saved.devices)'
    BY <2>2, <2>3 DEF Peopled, Housed
  <2>5. Progress' /\ OneDevice'
    BY <2>1 DEF Progress, OneDevice
  <2> QED
    BY <2>3, <2>4, <2>5 DEF SettledInv
<1>7. CASE UNCHANGED vars
  BY <1>7 DEF vars, SettledInv, Peopled, Housed, Progress, OneDevice, Migrated, Present
<1> QED
  BY <1>1, <1>2, <1>3, <1>4, <1>5, <1>6, <1>7 DEF Next, MigrateDevice

\* A migration that has run to its end, be it a repeated one, leaves no renamed
\* key without its entity, nothing of 1.x but keys that it does not know, and one
\* device.
THEOREM SettledCorrect == Spec => []Settled
<1>1. MigrationInv /\ SettledInv => Settled
  <2> SUFFICES ASSUME MigrationInv, SettledInv, phase = "done"
               PROVE  /\ Peopled(entities) /\ \A x \in entities : Migrated(x)
                      /\ Cardinality(Present) <= 1
                      /\ \A d \in Present : devices[d] = {"serial"}
                      /\ \A x \in entities : x.device \in Present
    BY DEF Settled, Peopled, Migrated
  <2>1. \A x \in entities : Migrated(x)
    BY DEF SettledInv, Progress
  <2>2. \A d \in Present : devices[d] = {"serial"}
    BY DEF SettledInv, OneDevice
  <2>3. Present = {} \/ \E d \in Devices : Present = {d}
    BY <2>2 DEF MigrationInv, Apart, Present, Devices
  <2>4. Cardinality(Present) <= 1
    <3>1. CASE Present = {}
      <4>1. Cardinality(Present) = 0
        BY <3>1, FS_EmptySet, Zenon
      <4> QED
        BY <4>1
    <3>2. ASSUME NEW d, Present = {d} PROVE Cardinality(Present) <= 1
      <4>1. Cardinality(Present) = 1
        BY <3>2, FS_Singleton, Zenon
      <4> QED
        BY <4>1
    <3> QED
      BY <2>3, <3>1, <3>2
  <2>5. \A x \in entities : x.device \in Present
    BY DEF SettledInv, Housed, MigrationInv, Good, Sound, Entity, Present
  <2> QED
    BY <2>1, <2>2, <2>4, <2>5 DEF SettledInv
<1>2. Init => SettledInv
  <2> SUFFICES ASSUME Init PROVE SettledInv
    OBVIOUS
  <2>1. /\ start \in Starts /\ entities = start.entities /\ devices = start.devices
        /\ saved.entities = entities /\ saved.devices = devices /\ phase = "start"
    BY DEF Init
  <2>2. Housed(entities, devices)
    BY <2>1, StartsAssumption DEF Housed
  <2> QED
    BY <2>1, <2>2 DEF SettledInv, Peopled, Housed, Progress, OneDevice
<1> QED
  BY <1>1, <1>2, MigrationInit, MigrationStep, SettledStep, PTL DEF Spec
=============================================================================
