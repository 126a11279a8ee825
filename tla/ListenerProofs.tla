--------------------------- MODULE ListenerProofs ---------------------------
(***************************************************************************)
(* What Listener guarantees for any number of entries and of listeners     *)
(* that concurrent setups make.                                            *)
(***************************************************************************)
EXTENDS Listener, TLAPS

\* Every step of an entry, and Home Assistant's stop, keep the types.
LEMMA TypeStep == TypeOK /\ [Next]_vars => TypeOK'
<1> SUFFICES ASSUME TypeOK, [Next]_vars
             PROVE  TypeOK'
  OBVIOUS
<1> USE DEF TypeOK, Phases, Coordinators
<1>1. ASSUME NEW e \in Entries, SetupShared(e)
      PROVE  TypeOK'
  BY <1>1 DEF SetupShared, Registered, Move
<1>2. ASSUME NEW e \in Entries,
             SetupFirst(e) \/ NotBound(e) \/ Loaded(e) \/ Unload(e)
               \/ UnloadRefused(e) \/ PlatformsUnloaded(e)
      PROVE  TypeOK'
  BY <1>2 DEF SetupFirst, NotBound, Loaded, Unload, UnloadRefused, PlatformsUnloaded, Move
<1>3. ASSUME NEW e \in Entries, NEW l \in Listeners, Bound(e, l)
      PROVE  TypeOK'
  BY <1>3 DEF Bound, Registered, Move
<1>4. ASSUME NEW e \in Entries, Unregister(e)
      PROVE  TypeOK'
  <2>1. registry' \in [Listeners -> [Entries -> Coordinators]]
    BY <1>4 DEF Unregister, Abandon
  <2> QED
    BY <1>4, <2>1 DEF Unregister, Move
<1>5. ASSUME Stop
      PROVE  TypeOK'
  BY <1>5 DEF Stop
<1>6. CASE UNCHANGED vars
  BY <1>6 DEF vars
<1> QED
  BY <1>1, <1>2, <1>3, <1>4, <1>5, <1>6 DEF Next

----------------------------------------------------------------------------

\* The handle kept in hass.data withdraws the hook of the listener kept there:
\* without it, closing a listener could withdraw another's hook.
HandleFits == listener # NoListener => stopUnsub = listener

ListenerInv == TypeOK /\ StoredIsOpen /\ OpenIsHooked /\ HandleFits /\ LoadedIsServed

\* The invariant behind the three properties of Listener is inductive.
LEMMA ListenerInvStep == ListenerInv /\ [Next]_vars => ListenerInv'
<1> SUFFICES ASSUME ListenerInv, [Next]_vars
             PROVE  (StoredIsOpen /\ OpenIsHooked /\ HandleFits /\ LoadedIsServed)'
  BY TypeStep DEF ListenerInv
<1> USE ListenerAssumption
    DEF ListenerInv, TypeOK, StoredIsOpen, OpenIsHooked, HandleFits, LoadedIsServed, Serving
<1>1. ASSUME NEW e \in Entries, SetupShared(e)
      PROVE  (StoredIsOpen /\ OpenIsHooked /\ HandleFits /\ LoadedIsServed)'
  BY <1>1 DEF SetupShared, Registered, Move
<1>2. ASSUME NEW e \in Entries,
             SetupFirst(e) \/ NotBound(e) \/ Loaded(e) \/ Unload(e)
               \/ UnloadRefused(e) \/ PlatformsUnloaded(e)
      PROVE  (StoredIsOpen /\ OpenIsHooked /\ HandleFits /\ LoadedIsServed)'
  <2>1. UNCHANGED <<socket, listener, registry, hooks, stopUnsub, stopped>>
    BY <1>2 DEF SetupFirst, NotBound, Loaded, Unload, UnloadRefused, PlatformsUnloaded
  <2>2. \A other \in Entries : entry'[other] \in Serving => entry[other] \in Serving
    BY <1>2 DEF SetupFirst, NotBound, Loaded, Unload, UnloadRefused, PlatformsUnloaded, Move
  <2> QED
    BY <2>1, <2>2
<1>3. ASSUME NEW e \in Entries, NEW l \in Listeners, Bound(e, l)
      PROVE  (StoredIsOpen /\ OpenIsHooked /\ HandleFits /\ LoadedIsServed)'
  <2>1. (StoredIsOpen /\ OpenIsHooked /\ HandleFits)'
    BY <1>3 DEF Bound, Registered
  <2>2. LoadedIsServed'
    BY <1>3 DEF Bound, Registered, Move
  <2> QED
    BY <2>1, <2>2
<1>4. ASSUME NEW e \in Entries, Unregister(e)
      PROVE  (StoredIsOpen /\ OpenIsHooked /\ HandleFits /\ LoadedIsServed)'
  <2>1. (StoredIsOpen /\ OpenIsHooked /\ HandleFits)'
    BY <1>4 DEF Unregister
  <2>2. ASSUME ~stopped, NEW other \in Entries, entry'[other] \in Serving
        PROVE  \E l \in Listeners : registry'[l][other] = "current" /\ socket'[l] = "open"
    <3>1. other # e /\ entry[other] \in Serving
      BY <1>4, <2>2 DEF Unregister, Move
    <3>2. PICK l \in Listeners : registry[l][other] = "current" /\ socket[l] = "open"
      BY <2>2, <3>1
    <3>3. registry'[l][other] = "current"
      BY <1>4, <3>1, <3>2 DEF Unregister, Abandon
    <3>4. l = listener => ~Alone(e, listener)
      BY <3>1, <3>2 DEF Alone
    <3>5. socket'[l] = "open"
      BY <1>4, <3>2, <3>4 DEF Unregister
    <3> QED
      BY <3>3, <3>5
  <2>3. stopped' = stopped
    BY <1>4 DEF Unregister
  <2> QED
    BY <2>1, <2>2, <2>3
<1>5. ASSUME Stop
      PROVE  (StoredIsOpen /\ OpenIsHooked /\ HandleFits /\ LoadedIsServed)'
  BY <1>5 DEF Stop
<1>6. CASE UNCHANGED vars
  BY <1>6 DEF vars
<1> QED
  BY <1>1, <1>2, <1>3, <1>4, <1>5, <1>6 DEF Next

\* The invariant holds when Home Assistant starts.
LEMMA ListenerInit == Init => ListenerInv
<1>1. Init => TypeOK
  <2>1. Init => entry \in [Entries -> Phases]
    BY DEF Init, Phases
  <2>2. Init => socket \in [Listeners -> {"none", "open", "closed"}]
    BY DEF Init
  <2>3. Init => registry \in [Listeners -> [Entries -> Coordinators]]
    BY DEF Init, Coordinators
  <2> QED
    BY <2>1, <2>2, <2>3, Zenon DEF Init, TypeOK
<1>2. Init => StoredIsOpen /\ OpenIsHooked /\ HandleFits
  BY DEF Init, StoredIsOpen, OpenIsHooked, HandleFits
<1>3. Init => LoadedIsServed
  BY DEF Init, LoadedIsServed, Serving
<1> QED
  BY <1>1, <1>2, <1>3 DEF ListenerInv

\* The invariant holds in every state the entries and the stop can reach.
LEMMA ListenerInvCorrect == Spec => []ListenerInv
BY ListenerInit, ListenerInvStep, PTL DEF Spec

\* An entry that is set up hears its charger: however setups and unloads of
\* other entries interleave, async_unload_entry closes no socket that another
\* entry's coordinator is registered at.
THEOREM ServedCorrect == Spec => []LoadedIsServed
<1>1. ListenerInv => LoadedIsServed
  BY DEF ListenerInv
<1> QED
  BY <1>1, ListenerInvCorrect, PTL

\* Until Home Assistant stops, every open socket, the forgotten ones of concurrent
\* setups included, has a _stop that the stop event will call.
THEOREM HookedCorrect == Spec => []OpenIsHooked
<1>1. ListenerInv => OpenIsHooked
  BY DEF ListenerInv
<1> QED
  BY <1>1, ListenerInvCorrect, PTL

\* When the stop event has run its hooks, no socket is open any more.  (A setup
\* whose bind it overtook may still open one.)
THEOREM StopCorrect == Spec => StopClosesAll
<1>1. ListenerInv /\ [Next]_vars
        => (~stopped /\ stopped' => \A l \in Listeners : socket'[l] # "open")
  <2> SUFFICES ASSUME ListenerInv, [Next]_vars, ~stopped, stopped', NEW l \in Listeners
               PROVE  socket'[l] # "open"
    OBVIOUS
  <2>1. Stop
    BY Zenon DEF Next, vars, SetupShared, SetupFirst, NotBound, Loaded, Bound, Unload,
                 UnloadRefused, PlatformsUnloaded, Unregister
  <2>2. socket[l] = "open" => l \in hooks
    BY DEF ListenerInv, OpenIsHooked
  <2> QED
    BY <2>1, <2>2 DEF Stop
<1> QED
  BY <1>1, ListenerInvCorrect, PTL DEF Spec, StopClosesAll

\* The listener that _async_get_listener finds in hass.data has an open socket.
THEOREM StoredCorrect == Spec => []StoredIsOpen
<1>1. ListenerInv => StoredIsOpen
  BY DEF ListenerInv
<1> QED
  BY <1>1, ListenerInvCorrect, PTL
=============================================================================
