------------------------------ MODULE Listener ------------------------------
(***************************************************************************)
(* The config entries of the integration and the UDP socket they share     *)
(* (__init__.py): setting an entry up, unloading it, and Home Assistant's  *)
(* stop.  Home Assistant runs one of these at a time for an entry, and     *)
(* those of different entries side by side on the event loop: an action is *)
(* the code between two awaits.                                            *)
(***************************************************************************)
EXTENDS Integers

CONSTANTS
  Entries,     \* config entries, one charger each
  Listeners,   \* BesenListener objects that may exist at the same time
  NoListener

ASSUME ListenerAssumption == NoListener \notin Listeners

VARIABLES
  entry,      \* where each entry is in its life
  socket,     \* each listener's socket: "none" (no such object), "open", "closed"
  listener,   \* hass.data[DOMAIN][DATA_LISTENER]
  registry,   \* registry[l]: each listener's coordinators, by their entry
  hooks,      \* listeners whose _stop is registered for EVENT_HOMEASSISTANT_STOP
  stopUnsub,  \* hass.data[DOMAIN]["stop_unsub"], as the listener it unhooks
  stopped     \* the event has been fired

vars == <<entry, socket, listener, registry, hooks, stopUnsub, stopped>>

\* A coordinator of an entry is the one in use, or left behind by an unload.
Coordinators == {"none", "current", "stale"}

Phases == {"unloaded", "binding", "forwarding", "loaded", "unloading", "shutting"}

TypeOK ==
  /\ entry \in [Entries -> Phases]
  /\ socket \in [Listeners -> {"none", "open", "closed"}]
  /\ listener \in Listeners \cup {NoListener}
  /\ registry \in [Listeners -> [Entries -> Coordinators]]
  /\ hooks \subseteq Listeners
  /\ stopUnsub \in Listeners \cup {NoListener}
  /\ stopped \in BOOLEAN

Init ==
  /\ entry = [e \in Entries |-> "unloaded"]
  /\ socket = [l \in Listeners |-> "none"]
  /\ listener = NoListener
  /\ registry = [l \in Listeners |-> [e \in Entries |-> "none"]]
  /\ hooks = {}
  /\ stopUnsub = NoListener
  /\ stopped = FALSE

Move(e, from, to) == entry[e] = from /\ entry' = [entry EXCEPT ![e] = to]

----------------------------------------------------------------------------
(* async_setup_entry *)

\* `register': a coordinator of the same serial is replaced.
Registered(e, l) == [registry EXCEPT ![l][e] = "current"]

\* The listener is there: the coordinator is registered without an await.
SetupShared(e) ==
  /\ ~stopped
  /\ Move(e, "unloaded", "forwarding")
  /\ listener # NoListener
  /\ registry' = Registered(e, listener)
  /\ UNCHANGED <<socket, listener, hooks, stopUnsub, stopped>>

\* There is none: one is made, and create_datagram_endpoint awaited.
SetupFirst(e) ==
  /\ ~stopped
  /\ Move(e, "unloaded", "binding")
  /\ listener = NoListener
  /\ UNCHANGED <<socket, listener, registry, hooks, stopUnsub, stopped>>

\* Wrong: the stop is hooked only if no listener's is known yet.
BoundHookedOnce(e, l) ==
  /\ Move(e, "binding", "forwarding")
  /\ socket[l] = "none"
  /\ socket' = [socket EXCEPT ![l] = "open"]
  /\ listener' = l
  /\ hooks' = IF stopUnsub = NoListener THEN hooks \cup {l} ELSE hooks
  /\ stopUnsub' = l
  /\ registry' = Registered(e, l)
  /\ UNCHANGED stopped

\* The socket is bound (reuse_port: even if another one is), the listener is
\* stored whatever is stored by now, and the coordinator is registered.  All of
\* this happens after Home Assistant's stop as well, if the setup was waiting here:
\* the hook is for an event that does not come again then.
Bound(e, l) ==
  /\ Move(e, "binding", "forwarding")
  /\ socket[l] = "none"
  /\ socket' = [socket EXCEPT ![l] = "open"]
  /\ listener' = l
  /\ hooks' = hooks \cup {l}
  /\ stopUnsub' = l
  /\ registry' = Registered(e, l)
  /\ UNCHANGED stopped

\* ConfigEntryNotReady: Home Assistant will set the entry up again.
NotBound(e) ==
  /\ Move(e, "binding", "unloaded")
  /\ UNCHANGED <<socket, listener, registry, hooks, stopUnsub, stopped>>

\* The platforms are set up.
Loaded(e) ==
  /\ Move(e, "forwarding", "loaded")
  /\ UNCHANGED <<socket, listener, registry, hooks, stopUnsub, stopped>>

----------------------------------------------------------------------------
(* async_unload_entry; a reload is an unload and a setup *)

Unload(e) ==
  /\ ~stopped
  /\ Move(e, "loaded", "unloading")
  /\ UNCHANGED <<socket, listener, registry, hooks, stopUnsub, stopped>>

\* A platform would not unload: the entry is left as it is.
UnloadRefused(e) ==
  /\ Move(e, "unloading", "loaded")
  /\ UNCHANGED <<socket, listener, registry, hooks, stopUnsub, stopped>>

\* The platforms are gone; the coordinator's shutdown is awaited.
PlatformsUnloaded(e) ==
  /\ Move(e, "unloading", "shutting")
  /\ UNCHANGED <<socket, listener, registry, hooks, stopUnsub, stopped>>

\* What is left of an entry's coordinator in a listener it was not taken from.
Abandon(e, coordinators) ==
  [coordinators EXCEPT ![e] = IF @ = "none" THEN "none" ELSE "stale"]

\* Wrong: `empty' is not asked before the listener is closed.
AloneUnasked(e, l) == TRUE

Alone(e, l) == \A other \in Entries \ {e} : registry[l][other] = "none"

\* Wrong: the closed listener stays in hass.data.
UnregisterStored(e) ==
  /\ Move(e, "shutting", "unloaded")
  /\ registry' = [l \in Listeners |->
                    IF l = listener THEN [registry[l] EXCEPT ![e] = "none"]
                    ELSE Abandon(e, registry[l])]
  /\ IF listener # NoListener /\ Alone(e, listener)
     THEN /\ socket' = [socket EXCEPT ![listener] = "none"]
          /\ hooks' = hooks \ {stopUnsub}
          /\ stopUnsub' = NoListener
          /\ UNCHANGED listener
     ELSE UNCHANGED <<socket, listener, hooks, stopUnsub>>
  /\ UNCHANGED stopped

\* The coordinator is taken from the listener stored now, and the last one
\* closes the socket and withdraws the stop hook.
Unregister(e) ==
  /\ Move(e, "shutting", "unloaded")
  /\ registry' = [l \in Listeners |->
                    IF l = listener THEN [registry[l] EXCEPT ![e] = "none"]
                    ELSE Abandon(e, registry[l])]
  /\ IF listener # NoListener /\ Alone(e, listener)
     THEN /\ socket' = [socket EXCEPT ![listener] = "none"]
          /\ listener' = NoListener
          /\ hooks' = hooks \ {stopUnsub}
          /\ stopUnsub' = NoListener
     ELSE UNCHANGED <<socket, listener, hooks, stopUnsub>>
  /\ UNCHANGED stopped

----------------------------------------------------------------------------

\* Every hooked _stop closes its own listener and forgets the stored one.
Stop ==
  /\ ~stopped
  /\ stopped' = TRUE
  /\ socket' = [l \in Listeners |-> IF l \in hooks THEN "closed" ELSE socket[l]]
  /\ listener' = IF hooks = {} THEN listener ELSE NoListener
  /\ hooks' = {}
  /\ UNCHANGED <<entry, registry, stopUnsub>>

Next ==
  \/ \E e \in Entries :
       \/ SetupShared(e) \/ SetupFirst(e) \/ NotBound(e) \/ Loaded(e)
       \/ \E l \in Listeners : Bound(e, l)
       \/ Unload(e) \/ UnloadRefused(e) \/ PlatformsUnloaded(e) \/ Unregister(e)
  \/ Stop

Spec == Init /\ [][Next]_vars

----------------------------------------------------------------------------
(* What must hold *)

Serving == {"forwarding", "loaded", "unloading", "shutting"}

\* Until Home Assistant stops, an entry that is set up has its coordinator at a
\* listener whose socket is open: no unload of another entry, however it
\* interleaves, closes the socket under it.
LoadedIsServed ==
  ~stopped => \A e \in Entries : entry[e] \in Serving =>
    \E l \in Listeners : registry[l][e] = "current" /\ socket[l] = "open"

\* Until Home Assistant stops, every open socket has a hook that its stop will run
\* and that closes it, also one that concurrent setups made and the integration no
\* longer refers to.  (A setup that waits for its socket at the stop may open it
\* afterwards, and then nothing closes it: Bound.)
OpenIsHooked == ~stopped => \A l \in Listeners : socket[l] = "open" => l \in hooks

\* So the stop leaves no socket open.
StopClosesAll == [][~stopped /\ stopped' => \A l \in Listeners : socket'[l] # "open"]_vars

\* The stored listener is the one in use: a setup that finds it registers at an
\* open socket.
StoredIsOpen == listener # NoListener => socket[listener] = "open"

----------------------------------------------------------------------------
(* What the documents say and the code does not do *)

\* "One shared UDP socket, fanned out to the configured chargers"
\* (BesenListener); "creating and binding it on first use".
OneSocket == \A l, m \in Listeners : socket[l] = "open" /\ socket[m] = "open" => l = m
=============================================================================
