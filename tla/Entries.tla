------------------------------- MODULE Entries -------------------------------
(***************************************************************************)
(* The config entries with what is stored in them: the forms of            *)
(* config_flow.py that write an entry, Bluetooth discovery that writes its *)
(* address, and the reloads by which a coordinator comes to know of it     *)
(* (__init__.py).  The life of the entries and their socket are those of   *)
(* module Listener, of which every step here is a step or a stutter.       *)
(* Home Assistant (external) stores entries, calls the update listeners of *)
(* one that changed, and runs one setup or unload of an entry at a time.   *)
(***************************************************************************)
EXTENDS Listener, FiniteSets

CONSTANTS
  Suffix,       \* Suffix[e]: how the serial of e ends
  NoSuffix,     \* what an advertised name without a suffix leaves
  Adverts,      \* chargers in range of Bluetooth: the suffix of their name, their address
  Passwords,    \* passwords that may be stored
  Encodable,    \* those that encode_password accepts
  Addresses,
  NoAddress,    \* OPT_BLE_ADDRESS is not set: the charger is looked for by name
  MaxChanges    \* bound of the changes of entries

ASSUME EntriesAssumption ==
  /\ Adverts \subseteq [suffix : {Suffix[e] : e \in Entries} \cup {NoSuffix}, address : Addresses]
  /\ Encodable \subseteq Passwords
  /\ MaxChanges \in Nat

VARIABLES
  configured,  \* the entries that exist
  settings,    \* entry.data and entry.options: password, OPT_ENABLE_BLE, OPT_BLE_ADDRESS
  built,       \* what the coordinator was made with: password, addresses to look for
  watched,     \* entries with an update listener
  reloads,     \* reloads asked for and not begun
  confirming,  \* the open bluetooth_confirm forms, by what was discovered
  reauth,      \* the entries with an open reauth form
  missed,      \* entries whose options changed when nobody was listening yet
  refused,     \* entries of which a platform would not unload
  changes

lifeVars == vars
formVars == <<confirming, reauth>>
storeVars == <<configured, settings, changes>>
entriesVars == <<lifeVars, formVars, storeVars, built, watched, reloads, missed, refused>>

Settings == [password : Passwords, enabled : BOOLEAN, address : Addresses \cup {NoAddress}]
Builds == [password : Passwords, bluetooth : SUBSET (Addresses \cup {NoAddress})]

EntriesTypeOK ==
  /\ TypeOK
  /\ configured \subseteq Entries
  /\ settings \in [Entries -> Settings]
  /\ built \in [Entries -> Builds]
  /\ watched \subseteq Entries
  /\ reloads \in [Entries -> Nat]
  /\ confirming \subseteq Adverts
  /\ reauth \subseteq Entries
  /\ missed \subseteq Entries
  /\ refused \subseteq Entries
  /\ changes \in Nat

\* _async_attach_bluetooth: no transport if the option is off.
Bluetooth(s) == IF s.enabled THEN {s.address} ELSE {}

\* What a coordinator made now would be made with.
Wanted(e) == [password |-> settings[e].password, bluetooth |-> Bluetooth(settings[e])]

Stored(password, enabled, address) ==
  [password |-> password, enabled |-> enabled, address |-> address]

\* Entries of earlier releases have no options, and a password nobody checked.
EntriesInit ==
  /\ Init
  /\ configured \in SUBSET Entries
  /\ \E p \in Passwords :
       /\ settings = [e \in Entries |-> Stored(p, FALSE, NoAddress)]
       /\ built = [e \in Entries |-> [password |-> p, bluetooth |-> {}]]
  /\ watched = {} /\ missed = {} /\ refused = {}
  /\ reloads = [e \in Entries |-> 0]
  /\ confirming = {} /\ reauth = {}
  /\ changes = 0

----------------------------------------------------------------------------
(* Setting up, loading, unloading (__init__.py) *)

\* A setup that Home Assistant begins, be it one of the reloads asked for.
SetupAsked(e) ==
  /\ e \in configured
  /\ \/ UNCHANGED reloads
     \/ reloads[e] > 0 /\ reloads' = [reloads EXCEPT ![e] = @ - 1]

\* The coordinator and its transport are made without an await in between.
SetupSharedEntry(e) ==
  /\ SetupShared(e) /\ SetupAsked(e)
  /\ built' = [built EXCEPT ![e] = Wanted(e)]
  /\ missed' = missed \ {e}
  /\ UNCHANGED <<storeVars, formVars, watched, refused>>

\* The coordinator is made before the await of the socket...
SetupFirstEntry(e) ==
  /\ SetupFirst(e) /\ SetupAsked(e)
  /\ built' = [built EXCEPT ![e] = [password |-> settings[e].password, bluetooth |-> {}]]
  /\ missed' = missed \ {e}
  /\ UNCHANGED <<storeVars, formVars, watched, refused>>

\* ... and its transport, with the options as they are by then, after it.
BoundEntry(e, l) ==
  /\ Bound(e, l)
  /\ built' = [built EXCEPT ![e].bluetooth = Bluetooth(settings[e])]
  /\ UNCHANGED <<storeVars, formVars, watched, reloads, missed, refused>>

NotBoundEntry(e) ==
  /\ NotBound(e)
  /\ UNCHANGED <<storeVars, formVars, built, watched, reloads, missed, refused>>

\* Wrong: the entry is loaded without an update listener.
LoadedUnwatched(e) ==
  /\ Loaded(e)
  /\ UNCHANGED <<storeVars, formVars, built, watched, reloads, missed, refused>>

\* `add_update_listener' comes behind the await of the platforms.
LoadedEntry(e) ==
  /\ Loaded(e)
  /\ watched' = watched \cup {e}
  /\ UNCHANGED <<storeVars, formVars, built, reloads, missed, refused>>

\* _async_reload_entry, or the reload that a form asked for.
Reload(e) ==
  /\ Unload(e) /\ e \notin refused
  /\ reloads[e] > 0
  /\ reloads' = [reloads EXCEPT ![e] = @ - 1]
  /\ UNCHANGED <<storeVars, formVars, built, watched, missed, refused>>

\* The user reloads or disables the entry.
UnloadByHand(e) ==
  /\ Unload(e) /\ e \notin refused
  /\ UNCHANGED <<storeVars, formVars, built, watched, reloads, missed, refused>>

\* Home Assistant will not touch the entry again before its restart.
UnloadRefusedEntry(e) ==
  /\ UnloadRefused(e)
  /\ refused' = refused \cup {e}
  /\ UNCHANGED <<storeVars, formVars, built, watched, reloads, missed>>

PlatformsUnloadedEntry(e) ==
  /\ PlatformsUnloaded(e)
  /\ UNCHANGED <<storeVars, formVars, built, watched, reloads, missed, refused>>

\* `async_on_unload' withdraws the update listener.
UnregisterEntry(e) ==
  /\ Unregister(e)
  /\ watched' = watched \ {e}
  /\ UNCHANGED <<storeVars, formVars, built, reloads, missed, refused>>

StopEntries ==
  /\ Stop
  /\ UNCHANGED <<storeVars, formVars, built, watched, reloads, missed, refused>>

\* _send with a password that cannot be encoded, which may still happen while the
\* shutdown is awaited: async_start_reauth, one form at a time.
AskReauth(e) ==
  /\ entry[e] \in Serving
  /\ built[e].password \notin Encodable
  /\ e \notin reauth
  /\ reauth' = reauth \cup {e}
  /\ UNCHANGED <<lifeVars, storeVars, confirming, built, watched, reloads, missed, refused>>

----------------------------------------------------------------------------
(* Forms and discovery (config_flow.py) *)

\* `async_update_entry': the update listeners are called if anything changed;
\* `extra' is a reload that the form asks for besides.
Store(e, new, extra) ==
  /\ ~stopped
  /\ e \in configured
  /\ changes < MaxChanges
  /\ changes' = changes + 1
  /\ settings' = [settings EXCEPT ![e] = new]
  /\ reloads' = [reloads EXCEPT ![e] =
                   @ + extra + (IF e \in watched /\ new # settings[e] THEN 1 ELSE 0)]
  /\ missed' = IF entry[e] = "forwarding" /\ Bluetooth(new) # Bluetooth(settings[e])
               THEN missed \cup {e} ELSE missed
  /\ UNCHANGED <<lifeVars, configured, built, watched, refused>>

\* A new entry; Home Assistant sets it up.
Create(e, new) ==
  /\ ~stopped
  /\ e \notin configured
  /\ configured' = configured \cup {e}
  /\ settings' = [settings EXCEPT ![e] = new]
  /\ UNCHANGED <<lifeVars, changes, built, watched, reloads, missed, refused>>

\* _validate: a form stores no password that does not fit its field.
Validated == {p \in Passwords : p \in Encodable}

UserStep(e) ==
  /\ \E p \in Validated : Create(e, Stored(p, FALSE, NoAddress))
  /\ UNCHANGED formVars

\* `str.endswith'
Ends(e, suffix) == Suffix[e] = suffix \/ suffix = NoSuffix

Matching(a) == {e \in configured : Ends(e, a.suffix)}

\* One entry matches: the address is remembered.
DiscoverKnown(a) ==
  /\ \E e \in Entries :
       /\ Matching(a) = {e}
       /\ settings[e].address # a.address
       /\ Store(e, [settings[e] EXCEPT !.address = a.address], 0)
  /\ UNCHANGED formVars

\* None does: the user is asked.  (Of several, none is chosen.)
DiscoverNew(a) ==
  /\ ~stopped
  /\ Matching(a) = {}
  /\ a \notin confirming
  /\ confirming' = confirming \cup {a}
  /\ UNCHANGED <<lifeVars, storeVars, reauth, built, watched, reloads, missed, refused>>

\* The serial that the user gives has to end like the name, and may have been
\* configured while the form was open.
Confirm(a, e) ==
  /\ a \in confirming
  /\ Ends(e, a.suffix)
  /\ confirming' = confirming \ {a}
  /\ \/ \E p \in Validated : Create(e, Stored(p, TRUE, a.address))
     \/ /\ e \in configured
        /\ UNCHANGED <<lifeVars, storeVars, built, watched, reloads, missed, refused>>
  /\ UNCHANGED reauth

\* Wrong: the form leaves the reload to the update listener.
NewPasswordUnasked(e, p) == Store(e, [settings[e] EXCEPT !.password = p], 0)

\* `async_update_reload_and_abort'
NewPassword(e, p) == Store(e, [settings[e] EXCEPT !.password = p], 1)

\* The serial stays: another one is refused as the wrong charger.
Reconfigure(e) ==
  /\ \E p \in Validated : NewPassword(e, p)
  /\ UNCHANGED formVars

Reauth(e) ==
  /\ e \in reauth
  /\ \E p \in Validated : NewPassword(e, p)
  /\ reauth' = reauth \ {e}
  /\ UNCHANGED confirming

\* The form replaces all options.
Options(e) ==
  /\ \E enabled \in BOOLEAN, address \in Addresses \cup {NoAddress} :
       Store(e, Stored(settings[e].password, enabled, address), 0)
  /\ UNCHANGED formVars

----------------------------------------------------------------------------

\* What the event loop does for an entry that is loaded or on its way.
Proceed(e) ==
  \/ LoadedEntry(e) \/ Reload(e)
  \/ UnloadRefusedEntry(e) \/ PlatformsUnloadedEntry(e) \/ UnregisterEntry(e)

Life(e) ==
  \/ Proceed(e)
  \/ SetupSharedEntry(e) \/ SetupFirstEntry(e) \/ NotBoundEntry(e)
  \/ \E l \in Listeners : BoundEntry(e, l)
  \/ UnloadByHand(e) \/ AskReauth(e)

Forms(e) == UserStep(e) \/ Reconfigure(e) \/ Reauth(e) \/ Options(e)

Discovery(a) == DiscoverKnown(a) \/ DiscoverNew(a) \/ \E e \in Entries : Confirm(a, e)

EntriesNext ==
  \/ \E e \in Entries : Life(e) \/ Forms(e)
  \/ \E a \in Adverts : Discovery(a)
  \/ StopEntries

EntriesSpec ==
  /\ EntriesInit /\ [][EntriesNext]_entriesVars
  /\ \A e \in Entries : WF_entriesVars(Proceed(e))

----------------------------------------------------------------------------
(* What must hold *)

\* A loaded entry for which no reload is under way works with the password and
\* the address that are stored, whichever form or discovery stored them, and
\* whatever was awaited when it did; but for options that changed while the
\* platforms were being set up, before the update listener is registered.
CoordinatorCurrent ==
  \A e \in Entries :
    entry[e] = "loaded" /\ reloads[e] = 0 /\ e \notin missed \cup refused
      => built[e] = Wanted(e)

\* A coordinator that is out of date is taken down: no reload is lost between a
\* form, a setup that still runs and the other reloads of the entry.
OutdatedGoes ==
  \A e \in Entries :
    (entry[e] = "loaded" /\ built[e] # Wanted(e) /\ e \notin missed)
      ~> (entry[e] = "unloaded" \/ e \in refused \/ stopped)
=============================================================================
