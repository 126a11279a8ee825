---------------------------- MODULE EntriesProofs ----------------------------
(***************************************************************************)
(* What Entries guarantees for any entries, forms, discoveries and number  *)
(* of changes.                                                             *)
(***************************************************************************)
EXTENDS Entries, ListenerProofs

\* Forms, discovery and reloads only do to the listener what module Listener
\* allows.
LEMMA ListenerStep == [EntriesNext]_entriesVars => [Next]_vars
<1> USE DEF lifeVars
<1>1. ASSUME NEW e \in Entries, Life(e)
      PROVE  [Next]_vars
  <2>1. CASE Proceed(e)
    BY <2>1 DEF Proceed, LoadedEntry, Reload, UnloadRefusedEntry, PlatformsUnloadedEntry,
                UnregisterEntry, Next
  <2>2. CASE SetupSharedEntry(e) \/ SetupFirstEntry(e) \/ NotBoundEntry(e) \/ UnloadByHand(e)
    BY <2>2 DEF SetupSharedEntry, SetupFirstEntry, NotBoundEntry, UnloadByHand, Next
  <2>3. CASE \E l \in Listeners : BoundEntry(e, l)
    BY <2>3 DEF BoundEntry, Next
  <2>4. CASE AskReauth(e)
    BY <2>4 DEF AskReauth
  <2> QED
    BY <1>1, <2>1, <2>2, <2>3, <2>4 DEF Life
<1>2. ASSUME NEW e \in Entries, Forms(e)
      PROVE  [Next]_vars
  BY <1>2 DEF Forms, UserStep, Create, Reconfigure, Reauth, NewPassword, Options, Store
<1>3. ASSUME NEW a \in Adverts, Discovery(a)
      PROVE  [Next]_vars
  BY <1>3 DEF Discovery, DiscoverKnown, DiscoverNew, Confirm, Create, Store
<1>4. CASE StopEntries
  BY <1>4 DEF StopEntries, Next
<1>5. CASE UNCHANGED entriesVars
  BY <1>5 DEF entriesVars
<1> QED
  BY <1>1, <1>2, <1>3, <1>4, <1>5 DEF EntriesNext

\* Entries implements Listener, the life of entries without what they store.
THEOREM ImplementsListener == EntriesSpec => Spec
<1>1. EntriesInit => Init
  BY DEF EntriesInit
<1> QED
  BY <1>1, ListenerStep, PTL DEF EntriesSpec, Spec

\* Whatever users and discovery write into entries, and however often they are
\* reloaded for it, no entry loses its socket, and every socket will be closed.
THEOREM EntriesServed == EntriesSpec => [](LoadedIsServed /\ OpenIsHooked /\ StoredIsOpen)
BY ImplementsListener, ServedCorrect, HookedCorrect, StoredCorrect, PTL

----------------------------------------------------------------------------

\* What a form or a discovery stores is a setting.
LEMMA StoreTypes ==
  ASSUME EntriesTypeOK, NEW e \in Entries, NEW new \in Settings, NEW extra \in {0, 1},
         Store(e, new, extra)
  PROVE  /\ settings' \in [Entries -> Settings]
         /\ reloads' \in [Entries -> Nat]
         /\ missed' \subseteq Entries
         /\ changes' \in Nat
         /\ UNCHANGED <<configured, built, watched, refused>>
BY DEF EntriesTypeOK, Store

\* The same of a new entry.
LEMMA CreateTypes ==
  ASSUME EntriesTypeOK, NEW e \in Entries, NEW new \in Settings, Create(e, new)
  PROVE  /\ settings' \in [Entries -> Settings]
         /\ configured' \subseteq Entries
         /\ UNCHANGED <<changes, built, watched, reloads, missed, refused>>
BY DEF EntriesTypeOK, Create

LEMMA BuiltType ==
  ASSUME EntriesTypeOK, NEW e \in Entries
  PROVE  /\ Bluetooth(settings[e]) \subseteq Addresses \cup {NoAddress}
         /\ settings[e].password \in Passwords
         /\ Wanted(e) \in Builds
BY DEF EntriesTypeOK, Settings, Builds, Wanted, Bluetooth

\* Every step of Entries keeps the types.
LEMMA EntriesTypeStep == EntriesTypeOK /\ [EntriesNext]_entriesVars => EntriesTypeOK'
<1> SUFFICES ASSUME EntriesTypeOK, [EntriesNext]_entriesVars
             PROVE  EntriesTypeOK'
  OBVIOUS
<1>0. TypeOK'
  BY ListenerStep, TypeStep DEF EntriesTypeOK
<1> DEFINE Own == /\ configured \subseteq Entries
                  /\ settings \in [Entries -> Settings]
                  /\ built \in [Entries -> Builds]
                  /\ watched \subseteq Entries
                  /\ reloads \in [Entries -> Nat]
                  /\ confirming \subseteq Adverts
                  /\ reauth \subseteq Entries
                  /\ missed \subseteq Entries
                  /\ refused \subseteq Entries
                  /\ changes \in Nat
<1>o. Own
  BY DEF EntriesTypeOK
<1>1. ASSUME NEW e \in Entries, Life(e)
      PROVE  Own'
  <2> USE DEF storeVars, formVars
  <2>1. CASE Proceed(e) \/ UnloadByHand(e) \/ NotBoundEntry(e)
    BY <1>o, <2>1 DEF Proceed, LoadedEntry, Reload, UnloadRefusedEntry, PlatformsUnloadedEntry,
                UnregisterEntry, UnloadByHand, NotBoundEntry
  <2>2. CASE SetupSharedEntry(e) \/ SetupFirstEntry(e)
    <3>1. built' \in [Entries -> Builds]
      BY <1>o, <2>2, BuiltType DEF SetupSharedEntry, SetupFirstEntry, Builds
    <3>2. reloads' \in [Entries -> Nat]
      BY <1>o, <2>2 DEF SetupSharedEntry, SetupFirstEntry, SetupAsked
    <3> QED
      BY <1>o, <2>2, <3>1, <3>2 DEF SetupSharedEntry, SetupFirstEntry
  <2>3. CASE \E l \in Listeners : BoundEntry(e, l)
    <3>1. built' \in [Entries -> Builds]
      BY <1>o, <2>3, BuiltType DEF BoundEntry, Builds
    <3> QED
      BY <1>o, <2>3, <3>1 DEF BoundEntry
  <2>4. CASE AskReauth(e)
    BY <1>o, <2>4 DEF AskReauth
  <2> QED
    BY <1>1, <2>1, <2>2, <2>3, <2>4 DEF Life
<1>2. ASSUME NEW e \in Entries, Forms(e)
      PROVE  Own'
  <2> USE EntriesAssumption DEF Stored, Settings, formVars, Validated
  <2>1. CASE UserStep(e)
    <3>1. PICK p \in Validated : Create(e, Stored(p, FALSE, NoAddress))
      BY <2>1 DEF UserStep
    <3>2. Stored(p, FALSE, NoAddress) \in Settings
      OBVIOUS
    <3> QED
      BY <1>o, <2>1, <3>1, <3>2, CreateTypes DEF UserStep
  <2>2. CASE Reconfigure(e) \/ Reauth(e)
    <3>1. PICK p \in Validated : Store(e, [settings[e] EXCEPT !.password = p], 1)
      BY <2>2 DEF Reconfigure, Reauth, NewPassword
    <3>2. [settings[e] EXCEPT !.password = p] \in Settings
      BY <1>o
    <3> QED
      BY <1>o, <2>2, <3>1, <3>2, StoreTypes DEF Reconfigure, Reauth
  <2>3. CASE Options(e)
    <3>1. PICK enabled \in BOOLEAN, address \in Addresses \cup {NoAddress} :
            Store(e, Stored(settings[e].password, enabled, address), 0)
      BY <2>3 DEF Options
    <3>2. Stored(settings[e].password, enabled, address) \in Settings
      BY <1>o
    <3> QED
      BY <1>o, <2>3, <3>1, <3>2, StoreTypes DEF Options
  <2> QED
    BY <1>2, <2>1, <2>2, <2>3 DEF Forms
<1>3. ASSUME NEW a \in Adverts, Discovery(a)
      PROVE  Own'
  <2> USE EntriesAssumption DEF Settings, formVars
  <2>0. a.address \in Addresses
    BY <1>3
  <2>1. CASE DiscoverKnown(a)
    <3>1. PICK e \in Entries : Store(e, [settings[e] EXCEPT !.address = a.address], 0)
      BY <2>1 DEF DiscoverKnown
    <3>2. [settings[e] EXCEPT !.address = a.address] \in Settings
      BY <1>o, <2>0
    <3> QED
      BY <1>o, <2>1, <3>1, <3>2, StoreTypes DEF DiscoverKnown
  <2>2. CASE DiscoverNew(a)
    BY <1>o, <2>2 DEF DiscoverNew, storeVars
  <2>3. ASSUME NEW e \in Entries, Confirm(a, e)
        PROVE  Own'
    <3>1. CASE UNCHANGED <<storeVars, built, watched, reloads, missed, refused>>
      BY <1>o, <2>3, <3>1 DEF Confirm, storeVars
    <3>2. CASE \E p \in Validated : Create(e, Stored(p, TRUE, a.address))
      <4>1. PICK p \in Validated : Create(e, Stored(p, TRUE, a.address))
        BY <3>2
      <4>2. Stored(p, TRUE, a.address) \in Settings
        BY <2>0 DEF Stored, Validated
      <4> QED
        BY <1>o, <2>3, <4>1, <4>2, CreateTypes DEF Confirm
    <3> QED
      BY <2>3, <3>1, <3>2 DEF Confirm
  <2> QED
    BY <1>3, <2>1, <2>2, <2>3 DEF Discovery
<1>4. ASSUME StopEntries
      PROVE  Own'
  BY <1>o, <1>4 DEF StopEntries, storeVars, formVars
<1>5. ASSUME UNCHANGED entriesVars
      PROVE  Own'
  BY <1>o, <1>5 DEF entriesVars, storeVars, formVars
<1>6. Own'
  BY <1>1, <1>2, <1>3, <1>4, <1>5 DEF EntriesNext
<1> QED
  BY <1>0, <1>6 DEF EntriesTypeOK

\* The types hold whatever is stored and discovered.
LEMMA EntriesTypeCorrect == EntriesSpec => []EntriesTypeOK
<1>1. EntriesInit => EntriesTypeOK
  <2>1. Init => TypeOK
    BY ListenerInit DEF ListenerInv
  <2>2. ASSUME EntriesInit
        PROVE  settings \in [Entries -> Settings] /\ built \in [Entries -> Builds]
    BY <2>2 DEF EntriesInit, Settings, Builds, Stored
  <2>3. EntriesInit => reloads \in [Entries -> Nat] /\ changes \in Nat
    BY DEF EntriesInit
  <2> QED
    BY <2>1, <2>2, <2>3, Zenon DEF EntriesInit, EntriesTypeOK
<1> QED
  BY <1>1, EntriesTypeStep, PTL DEF EntriesSpec

----------------------------------------------------------------------------

\* Behind CoordinatorCurrent: from the moment each part of the settings is read,
\* it is the one stored or a reload is due; who listens; and that nothing runs
\* for an entry that does not exist.
CurrentAt(e) ==
  /\ entry[e] \in {"binding", "forwarding", "loaded"} =>
       reloads[e] > 0 \/ e \in refused \/ built[e].password = settings[e].password
  /\ entry[e] \in {"forwarding", "loaded"} =>
       reloads[e] > 0 \/ e \in missed \cup refused \/ built[e].bluetooth = Bluetooth(settings[e])
  /\ entry[e] \in {"loaded", "unloading"} => e \in watched
  /\ e \notin configured => entry[e] = "unloaded"

CurrentInv == \A e \in Entries : CurrentAt(e)

\* An entry of which nothing changes.
LEMMA CurrentFrame ==
  ASSUME NEW e \in Entries, CurrentAt(e),
         entry'[e] = entry[e], settings'[e] = settings[e], built'[e] = built[e],
         reloads'[e] = reloads[e],
         e \in watched => e \in watched', e \in missed => e \in missed',
         e \in refused => e \in refused', e \in configured => e \in configured'
  PROVE  CurrentAt(e)'
BY DEF CurrentAt, Bluetooth

\* An entry in whose store something changes: whoever has read it already is
\* reloaded, by the form or by the update listener.
LEMMA CurrentStore ==
  ASSUME EntriesTypeOK, CurrentInv, NEW e \in Entries, NEW new \in Settings, NEW extra \in {0, 1},
         extra = 1 \/ new.password = settings[e].password,
         Store(e, new, extra)
  PROVE  CurrentInv'
<1>1. ASSUME NEW other \in Entries, other # e
      PROVE  CurrentAt(other)'
  BY <1>1, CurrentFrame DEF CurrentInv, Store, EntriesTypeOK, lifeVars, vars
<1>2. CurrentAt(e)'
  <2>1. /\ entry' = entry /\ built' = built /\ watched' = watched /\ refused' = refused
        /\ settings'[e] = new /\ configured' = configured
    BY DEF Store, EntriesTypeOK, lifeVars, vars
  <2>2. /\ reloads[e] > 0 => reloads'[e] > 0
        /\ extra = 1 => reloads'[e] > 0
        /\ e \in watched /\ new # settings[e] => reloads'[e] > 0
    BY DEF Store, EntriesTypeOK
  <2>3. e \in missed => e \in missed'
    BY DEF Store
  <2>4. entry[e] = "forwarding" /\ Bluetooth(new) # Bluetooth(settings[e]) => e \in missed'
    BY DEF Store
  <2>5. Bluetooth(settings[e])' = Bluetooth(new)
    BY <2>1 DEF Bluetooth
  <2>6. CurrentAt(e)
    BY DEF CurrentInv
  <2> QED
    BY <2>1, <2>2, <2>3, <2>4, <2>5, <2>6 DEF CurrentAt
<1> QED
  BY <1>1, <1>2 DEF CurrentInv

\* A new entry: nothing runs for it yet.
LEMMA CurrentCreate ==
  ASSUME EntriesTypeOK, CurrentInv, NEW e \in Entries, NEW new \in Settings, Create(e, new)
  PROVE  CurrentInv'
<1>1. ASSUME NEW other \in Entries, other # e
      PROVE  CurrentAt(other)'
  BY <1>1, CurrentFrame DEF CurrentInv, Create, EntriesTypeOK, lifeVars, vars
<1>2. CurrentAt(e)'
  <2>1. entry' = entry /\ entry[e] = "unloaded"
    BY DEF Create, CurrentInv, CurrentAt, lifeVars, vars
  <2> QED
    BY <2>1 DEF CurrentAt
<1> QED
  BY <1>1, <1>2 DEF CurrentInv

\* A step in the life of one entry.
LEMMA CurrentLife ==
  ASSUME EntriesTypeOK, CurrentInv, NEW e \in Entries, Life(e)
  PROVE  CurrentInv'
<1> USE DEF EntriesTypeOK, TypeOK, storeVars, formVars
<1>0. CurrentAt(e)
  BY DEF CurrentInv
<1>1. CASE SetupSharedEntry(e)
  <2>1. ASSUME NEW other \in Entries, other # e
        PROVE  CurrentAt(other)'
    BY <1>1, <2>1, CurrentFrame DEF CurrentInv, SetupSharedEntry, SetupAsked, SetupShared, Move
  <2>2. CurrentAt(e)'
    BY <1>1, <1>0 DEF CurrentAt, SetupSharedEntry, SetupAsked, SetupShared, Move, Wanted, Bluetooth
  <2> QED
    BY <2>1, <2>2 DEF CurrentInv
<1>2. CASE SetupFirstEntry(e)
  <2>1. ASSUME NEW other \in Entries, other # e
        PROVE  CurrentAt(other)'
    BY <1>2, <2>1, CurrentFrame DEF CurrentInv, SetupFirstEntry, SetupAsked, SetupFirst, Move
  <2>2. CurrentAt(e)'
    BY <1>2, <1>0 DEF CurrentAt, SetupFirstEntry, SetupAsked, SetupFirst, Move
  <2> QED
    BY <2>1, <2>2 DEF CurrentInv
<1>3. ASSUME NEW l \in Listeners, BoundEntry(e, l)
      PROVE  CurrentInv'
  <2>1. ASSUME NEW other \in Entries, other # e
        PROVE  CurrentAt(other)'
    BY <1>3, <2>1, CurrentFrame DEF CurrentInv, BoundEntry, Bound, Move
  <2>2. CurrentAt(e)'
    <3>1. /\ entry[e] = "binding" /\ entry'[e] = "forwarding"
          /\ UNCHANGED <<settings, reloads, refused, configured>>
      BY <1>3 DEF BoundEntry, Bound, Move
    <3>2. built'[e] = [built[e] EXCEPT !.bluetooth = Bluetooth(settings[e])]
      BY <1>3 DEF BoundEntry
    <3>3. built'[e].password = built[e].password /\ built'[e].bluetooth = Bluetooth(settings[e])
      BY <3>2 DEF Builds
    <3>4. Bluetooth(settings[e])' = Bluetooth(settings[e])
      BY <3>1 DEF Bluetooth
    <3> QED
      BY <1>0, <3>1, <3>3, <3>4 DEF CurrentAt
  <2> QED
    BY <2>1, <2>2 DEF CurrentInv
<1>4. CASE LoadedEntry(e) \/ UnloadRefusedEntry(e)
  <2>1. ASSUME NEW other \in Entries, other # e
        PROVE  CurrentAt(other)'
    BY <1>4, <2>1, CurrentFrame DEF CurrentInv, LoadedEntry, UnloadRefusedEntry, Loaded,
       UnloadRefused, Move
  <2>2. CurrentAt(e)'
    BY <1>4, <1>0 DEF CurrentAt, LoadedEntry, UnloadRefusedEntry, Loaded, UnloadRefused, Move,
       Bluetooth
  <2> QED
    BY <2>1, <2>2 DEF CurrentInv
<1>5. CASE Reload(e) \/ UnloadByHand(e)
  <2>1. ASSUME NEW other \in Entries, other # e
        PROVE  CurrentAt(other)'
    BY <1>5, <2>1, CurrentFrame DEF CurrentInv, Reload, UnloadByHand, Unload, Move
  <2>2. CurrentAt(e)'
    BY <1>5, <1>0 DEF CurrentAt, Reload, UnloadByHand, Unload, Move
  <2> QED
    BY <2>1, <2>2 DEF CurrentInv
<1>6. CASE NotBoundEntry(e) \/ PlatformsUnloadedEntry(e) \/ UnregisterEntry(e)
  <2>1. ASSUME NEW other \in Entries, other # e
        PROVE  CurrentAt(other)'
    BY <1>6, <2>1, CurrentFrame DEF CurrentInv, NotBoundEntry, PlatformsUnloadedEntry,
       UnregisterEntry, NotBound, PlatformsUnloaded, Unregister, Move
  <2>2. CurrentAt(e)'
    BY <1>6, <1>0 DEF CurrentAt, NotBoundEntry, PlatformsUnloadedEntry, UnregisterEntry, NotBound,
       PlatformsUnloaded, Unregister, Move
  <2> QED
    BY <2>1, <2>2 DEF CurrentInv
<1>7. CASE AskReauth(e)
  BY <1>7, CurrentFrame DEF CurrentInv, AskReauth, lifeVars, vars
<1> QED
  BY <1>1, <1>2, <1>3, <1>4, <1>5, <1>6, <1>7 DEF Life, Proceed

\* Every step of Entries keeps the invariant.
LEMMA CurrentStep ==
  EntriesTypeOK /\ CurrentInv /\ [EntriesNext]_entriesVars => CurrentInv'
<1> SUFFICES ASSUME EntriesTypeOK, CurrentInv, [EntriesNext]_entriesVars
             PROVE  CurrentInv'
  OBVIOUS
<1> USE EntriesAssumption
<1>1. ASSUME NEW e \in Entries, Forms(e)
      PROVE  CurrentInv'
  <2>0. settings[e] \in Settings
    BY DEF EntriesTypeOK
  <2>1. CASE UserStep(e)
    <3>1. PICK p \in Validated : Create(e, Stored(p, FALSE, NoAddress))
      BY <2>1 DEF UserStep
    <3>2. Stored(p, FALSE, NoAddress) \in Settings
      BY DEF Stored, Settings, Validated
    <3> QED
      BY <3>1, <3>2, CurrentCreate
  <2>2. CASE Reconfigure(e) \/ Reauth(e)
    <3>1. PICK p \in Validated : Store(e, [settings[e] EXCEPT !.password = p], 1)
      BY <2>2 DEF Reconfigure, Reauth, NewPassword
    <3>2. [settings[e] EXCEPT !.password = p] \in Settings
      BY <2>0 DEF Settings, Validated
    <3> QED
      BY <3>1, <3>2, CurrentStore
  <2>3. CASE Options(e)
    <3>1. PICK enabled \in BOOLEAN, address \in Addresses \cup {NoAddress} :
            Store(e, Stored(settings[e].password, enabled, address), 0)
      BY <2>3 DEF Options
    <3>2. /\ Stored(settings[e].password, enabled, address) \in Settings
          /\ Stored(settings[e].password, enabled, address).password = settings[e].password
      BY <2>0 DEF Stored, Settings
    <3> QED
      BY <3>1, <3>2, CurrentStore
  <2> QED
    BY <1>1, <2>1, <2>2, <2>3 DEF Forms
<1>2. ASSUME NEW a \in Adverts, Discovery(a)
      PROVE  CurrentInv'
  <2>0. a.address \in Addresses
    BY <1>2
  <2>1. CASE DiscoverKnown(a)
    <3>1. PICK e \in Entries : Store(e, [settings[e] EXCEPT !.address = a.address], 0)
      BY <2>1 DEF DiscoverKnown
    <3>2. /\ [settings[e] EXCEPT !.address = a.address] \in Settings
          /\ [settings[e] EXCEPT !.address = a.address].password = settings[e].password
      BY <2>0 DEF EntriesTypeOK, Settings
    <3> QED
      BY <3>1, <3>2, CurrentStore
  <2>2. CASE DiscoverNew(a)
    BY <2>2, CurrentFrame DEF CurrentInv, DiscoverNew, lifeVars, vars, storeVars
  <2>3. ASSUME NEW e \in Entries, Confirm(a, e)
        PROVE  CurrentInv'
    <3>1. CASE UNCHANGED <<lifeVars, storeVars, built, watched, reloads, missed, refused>>
      BY <3>1, CurrentFrame DEF CurrentInv, lifeVars, vars, storeVars
    <3>2. CASE \E p \in Validated : Create(e, Stored(p, TRUE, a.address))
      <4>1. PICK p \in Validated : Create(e, Stored(p, TRUE, a.address))
        BY <3>2
      <4>2. Stored(p, TRUE, a.address) \in Settings
        BY <2>0 DEF Stored, Settings, Validated
      <4> QED
        BY <4>1, <4>2, CurrentCreate
    <3> QED
      BY <2>3, <3>1, <3>2 DEF Confirm
  <2> QED
    BY <1>2, <2>1, <2>2, <2>3 DEF Discovery
<1>3. CASE StopEntries
  BY <1>3, CurrentFrame DEF CurrentInv, StopEntries, Stop, storeVars
<1>4. CASE UNCHANGED entriesVars
  BY <1>4, CurrentFrame DEF CurrentInv, entriesVars, lifeVars, vars, storeVars
<1> QED
  BY <1>1, <1>2, <1>3, <1>4, CurrentLife DEF EntriesNext

\* A loaded entry works with what is stored in it: no order of forms, discovery,
\* setups and reloads leaves it with an old password or address.
THEOREM CurrentCorrect == EntriesSpec => []CoordinatorCurrent
<1>1. EntriesInit => CurrentInv
  BY DEF EntriesInit, Init, CurrentInv, CurrentAt
<1>2. EntriesTypeOK /\ CurrentInv => CoordinatorCurrent
  <2> SUFFICES ASSUME EntriesTypeOK, CurrentInv, NEW e \in Entries,
                      entry[e] = "loaded", reloads[e] = 0, e \notin missed \cup refused
               PROVE  built[e] = Wanted(e)
    BY DEF CoordinatorCurrent
  <2>1. built[e].password = settings[e].password /\ built[e].bluetooth = Bluetooth(settings[e])
    BY DEF CurrentInv, CurrentAt
  <2>2. built[e] \in Builds
    BY DEF EntriesTypeOK
  <2> QED
    BY <2>1, <2>2 DEF Builds, Wanted
<1> QED
  BY <1>1, <1>2, CurrentStep, EntriesTypeCorrect, PTL DEF EntriesSpec
=============================================================================
