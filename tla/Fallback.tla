------------------------------ MODULE Fallback ------------------------------
(***************************************************************************)
(* One charger's coordinator (coordinator.py, class BesenCoordinator): who *)
(* decides that the charger is available, when to look for it over         *)
(* Bluetooth, and when to give the link back.  It composes the transport   *)
(* of BleLink: every action conjoins what the coordinator does with what   *)
(* the transport does in the same callback.  The Bluetooth option is on;   *)
(* what is said in the frames is the business of module Session.           *)
(*                                                                         *)
(* Time is counted in units common to the constants.  async_call_later is  *)
(* a countdown, and time stands still while one is due: the loop runs due  *)
(* callbacks before it sleeps, in any order among themselves and among     *)
(* frames that arrive at the same moment.                                  *)
(***************************************************************************)
EXTENDS BleLink

CONSTANTS
  OfflineTimeout,   \* OFFLINE_TIMEOUT
  FallbackDelay,    \* BLE_FALLBACK_DELAY
  InitialDelay,     \* BLE_INITIAL_DELAY
  RetryInterval,    \* BLE_RETRY_INTERVAL
  Own,              \* the peer whose serial is the configured one
  AutoRepair,       \* OPT_WIFI_AUTO, with a network name configured
  MaxProvisions     \* bound of the count of credentials written

ASSUME OwnAssumption == Own \in Peers /\ AutoRepair \in BOOLEAN

ASSUME DelayAssumption ==
  /\ OfflineTimeout \in Nat \ {0}
  /\ FallbackDelay \in Nat
  /\ InitialDelay \in Nat \ {0}
  /\ RetryInterval \in Nat \ {0}
  /\ OfflineTimeout < FallbackDelay
  /\ FallbackDelay <= OfflineTimeout + RetryInterval
  /\ MaxProvisions \in Nat

Off == -1               \* a timer that is not set

VARIABLES
  online,          \* self._online
  watchdog,        \* self._watchdog: time left, or Off
  bleRetry,        \* self._ble_retry: time left, or Off
  wifiRepaired,    \* self._wifi_repaired
  lastTransport,   \* self._last_transport
  life,            \* "running"; "stopping" inside async_shutdown; "stopped"
  writing,         \* fire-and-forget Bluetooth writes are under way
  provisioning,    \* the link on which an attempt awaits the credentials' write
  silence,         \* time since the last frame, never heard being FallbackDelay
  provisions       \* credentials written since the network was last heard

coordVars == <<online, watchdog, bleRetry, wifiRepaired, lastTransport, life,
               writing, provisioning, silence, provisions>>
vars == <<bleVars, coordVars>>

CoordTypeOK ==
  /\ online \in BOOLEAN
  /\ watchdog \in Off..OfflineTimeout
  /\ bleRetry \in Off..(InitialDelay + FallbackDelay + RetryInterval)
  /\ wifiRepaired \in BOOLEAN
  /\ lastTransport \in {"none", "wifi", "bluetooth"}
  /\ life \in {"running", "stopping", "stopped"}
  /\ writing \in BOOLEAN
  /\ provisioning \in [Attempts -> Peers \cup {NoPeer}]
  /\ silence \in 0..FallbackDelay
  /\ provisions \in 0..MaxProvisions

TypeOK == BleTypeOK /\ CoordTypeOK

\* __init__ and attach_bluetooth.
Init ==
  /\ BleInit
  /\ online = FALSE
  /\ watchdog = Off
  /\ bleRetry = InitialDelay
  /\ wifiRepaired = FALSE
  /\ lastTransport = "none"
  /\ life = "running"
  /\ writing = FALSE
  /\ provisioning = [a \in Attempts |-> NoPeer]
  /\ silence = FallbackDelay
  /\ provisions = 0

----------------------------------------------------------------------------
(* Frames *)

\* The frame is decoded and may be answered; a charger that was offline is
\* always asked something.  Answers go over Bluetooth while it is connected.
Reply ==
  writing' \in IF client' = NoPeer THEN {writing}
               ELSE IF online THEN {writing, TRUE} ELSE {TRUE}

\* Wrong: a watchdog that runs is prolonged instead of being replaced.
MarkOnlineProlonged ==
  /\ online' = TRUE
  /\ watchdog' = IF watchdog = Off THEN OfflineTimeout ELSE watchdog + OfflineTimeout
  /\ wifiRepaired' = (online /\ wifiRepaired)
  /\ silence' = 0
  /\ Reply
  /\ UNCHANGED <<bleRetry, life, provisioning>>

\* Wrong: a watchdog that runs is not started afresh.
MarkOnlineLazy ==
  /\ online' = TRUE
  /\ watchdog' = IF watchdog = Off THEN OfflineTimeout ELSE watchdog
  /\ wifiRepaired' = (online /\ wifiRepaired)
  /\ silence' = 0
  /\ Reply
  /\ UNCHANGED <<bleRetry, life, provisioning>>

\* handle_frame, apart from where the frame came from.
MarkOnline ==
  /\ online' = TRUE
  /\ watchdog' = OfflineTimeout
  /\ wifiRepaired' = (online /\ wifiRepaired)
  /\ silence' = 0
  /\ Reply
  /\ UNCHANGED <<bleRetry, life, provisioning>>

\* Wrong: the link is given back only by the frame that ends an outage.
HearNetworkOnce ==
  /\ life # "stopped"
  /\ lastTransport' = "wifi"
  /\ provisions' = 0
  /\ IF Connected /\ ~online THEN Disconnect("task") ELSE UNCHANGED bleVars
  /\ MarkOnline

\* A datagram.  The listener routes them here until the shutdown is over.  (If two
\* setups raced for the socket, a coordinator may stay registered at the listener
\* that was overwritten, `stale' in Listener, and hear further ones.  Here the
\* coordinator is at the stored listener.)
HearNetwork ==
  /\ life # "stopped"
  /\ lastTransport' = "wifi"
  /\ provisions' = 0
  /\ IF Connected THEN Disconnect("task") ELSE UNCHANGED bleVars
  /\ MarkOnline

HearBluetooth ==
  /\ link[Own] = "notifying"
  /\ lastTransport' = "bluetooth"
  /\ UNCHANGED <<bleVars, provisions>>
  /\ MarkOnline

\* handle_ble_frame: somebody else's serial.
HearStranger ==
  /\ \E p \in Peers \ {Own} : link[p] = "notifying"
  /\ Disconnect("task")
  /\ UNCHANGED coordVars

----------------------------------------------------------------------------
(* Timers *)

\* Wrong: a retry that is already pending is left to run.
MarkOfflinePending ==
  /\ watchdog = 0
  /\ watchdog' = Off
  /\ online' = FALSE
  /\ bleRetry' = IF bleRetry = Off THEN FallbackDelay - OfflineTimeout ELSE bleRetry
  /\ UNCHANGED <<bleVars, wifiRepaired, lastTransport, life, writing,
                 provisioning, silence, provisions>>

\* Wrong: a charger that is silent on a Bluetooth link stays available.
MarkOfflineUnlessLinked ==
  /\ watchdog = 0
  /\ watchdog' = Off
  /\ online' = Connected
  /\ bleRetry' = IF online THEN FallbackDelay - OfflineTimeout ELSE bleRetry
  /\ UNCHANGED <<bleVars, wifiRepaired, lastTransport, life, writing,
                 provisioning, silence, provisions>>

MarkOffline ==
  /\ watchdog = 0
  /\ watchdog' = Off
  /\ online' = FALSE
  /\ bleRetry' = IF online THEN FallbackDelay - OfflineTimeout ELSE bleRetry
  /\ UNCHANGED <<bleVars, wifiRepaired, lastTransport, life, writing,
                 provisioning, silence, provisions>>

Tick ==
  /\ watchdog # 0 /\ bleRetry # 0
  /\ watchdog' = IF watchdog = Off THEN Off ELSE watchdog - 1
  /\ bleRetry' = IF bleRetry = Off THEN Off ELSE bleRetry - 1
  /\ silence' = IF silence < FallbackDelay THEN silence + 1 ELSE silence
  /\ UNCHANGED <<bleVars, online, wifiRepaired, lastTransport, life, writing,
                 provisioning, provisions>>

----------------------------------------------------------------------------
(* _async_try_bluetooth, from the retry timer to its return *)

\* async_connect returned False.
Failed ==
  /\ bleRetry' = RetryInterval
  /\ UNCHANGED <<online, watchdog, wifiRepaired, lastTransport, life, writing,
                 provisioning, silence, provisions>>

\* async_connect returned True: two queries are sent and the repair starts,
\* all before the next await.  The write of the credentials is awaited if the
\* link is still there; otherwise they go to _send, which may drop them.  The
\* lock on commands, or a name that does not fit, refuses the repair.
Succeeded(a) ==
  /\ writing' = (writing \/ client' # NoPeer)
  /\ \/ UNCHANGED <<wifiRepaired, provisioning>>
     \/ /\ AutoRepair /\ ~wifiRepaired /\ client' # NoPeer
        /\ provisioning' = [provisioning EXCEPT ![a] = client']
        /\ UNCHANGED wifiRepaired
     \/ /\ AutoRepair /\ ~wifiRepaired /\ client' = NoPeer
        /\ wifiRepaired' = TRUE
        /\ UNCHANGED provisioning
  /\ UNCHANGED <<online, watchdog, lastTransport, life, silence, provisions>>

\* What the attempt does with the lock, and what the coordinator makes of it
\* at once.  `retry' is the value the retry timer has if nothing is scheduled.
Try(a, retry) ==
  \/ AlreadyConnected /\ Succeeded(a) /\ bleRetry' = retry
  \/ NotFound /\ Failed
  \/ BeginConnect(a) /\ bleRetry' = retry
     /\ UNCHANGED <<online, watchdog, wifiRepaired, lastTransport, life, writing,
                    provisioning, silence, provisions>>

TimerUnneeded ==
  /\ bleRetry = 0 /\ online
  /\ bleRetry' = Off
  /\ UNCHANGED <<bleVars, online, watchdog, wifiRepaired, lastTransport, life,
                 writing, provisioning, silence, provisions>>

TryBluetooth(a) ==
  /\ bleRetry = 0 /\ ~online
  /\ provisioning[a] = NoPeer
  /\ \/ QueueConnect(a) /\ bleRetry' = Off
        /\ UNCHANGED <<online, watchdog, wifiRepaired, lastTransport, life, writing,
                       provisioning, silence, provisions>>
     \/ Arrives(a) /\ Try(a, Off)

LockGranted(a) == Granted(a) /\ Try(a, bleRetry)

Connecting(a) ==
  \/ /\ \/ \E p \in Peers : Establish(a, p)
        \/ Subscribe(a)
        \/ SubscribeFail(a)
        \/ AbortRaises(a)
     /\ UNCHANGED coordVars
  \/ (EstablishFail(a) \/ Abort(a)) /\ Failed
  \/ Settle(a) /\ Succeeded(a) /\ UNCHANGED bleRetry

\* The awaited write of the credentials ends.
Provisioned(a) ==
  /\ provisioning[a] # NoPeer
  /\ link[provisioning[a]] = "notifying"
  /\ provisioning' = [provisioning EXCEPT ![a] = NoPeer]
  /\ wifiRepaired' = TRUE
  /\ provisions' = IF provisions < MaxProvisions THEN provisions + 1 ELSE provisions
  /\ UNCHANGED <<bleVars, online, watchdog, bleRetry, lastTransport, life, writing, silence>>

\* A failed write disconnects before it is reported; the repair stays undone.
ProvisionFails(a) ==
  /\ provisioning[a] # NoPeer
  /\ provisioning' = [provisioning EXCEPT ![a] = NoPeer]
  /\ Disconnect("task")
  /\ UNCHANGED <<online, watchdog, bleRetry, wifiRepaired, lastTransport, life, writing,
                 silence, provisions>>

----------------------------------------------------------------------------
(* Other writes: commands, the settings sweep, answers *)

Command ==
  /\ Connected
  /\ writing' = TRUE
  /\ UNCHANGED <<bleVars, online, watchdog, bleRetry, wifiRepaired, lastTransport, life,
                 provisioning, silence, provisions>>

Written ==
  /\ writing
  /\ writing' = FALSE
  /\ UNCHANGED <<bleVars, online, watchdog, bleRetry, wifiRepaired, lastTransport, life,
                 provisioning, silence, provisions>>

\* One of the writes fails, whole and split: it disconnects whatever client
\* the transport refers to by now.
WriteFails ==
  /\ writing
  /\ writing' \in BOOLEAN
  /\ Disconnect("task")
  /\ UNCHANGED <<online, watchdog, bleRetry, wifiRepaired, lastTransport, life,
                 provisioning, silence, provisions>>

----------------------------------------------------------------------------
(* async_shutdown *)

\* With no lock to wait for and no link to close it runs through, and no
\* datagram can arrive before the coordinator is unregistered.
Shutdown ==
  /\ life = "running"
  /\ life' = IF LockFree /\ ~Connected THEN "stopped" ELSE "stopping"
  /\ watchdog' = Off
  /\ bleRetry' = Off
  /\ Disconnect("shutdown")
  /\ UNCHANGED <<online, wifiRepaired, lastTransport, writing, provisioning, silence,
                 provisions>>

ShutdownDone ==
  /\ life = "stopping"
  /\ ~Queued("shutdown")
  /\ \A p \in Peers : closing[p] # "shutdown"
  /\ life' = "stopped"
  /\ UNCHANGED <<bleVars, online, watchdog, bleRetry, wifiRepaired, lastTransport, writing,
                 provisioning, silence, provisions>>

----------------------------------------------------------------------------

\* What the radio and the queued disconnects do without the coordinator.
Radio ==
  /\ \/ \E p \in Peers : LinkDrop(p) \/ CloseFails(p)
     \/ \E by \in Closers : DisconnectGranted(by)
  /\ UNCHANGED coordVars

Task(a) ==
  LockGranted(a) \/ Connecting(a) \/ Provisioned(a) \/ ProvisionFails(a)

Next ==
  \/ HearNetwork \/ HearBluetooth \/ HearStranger
  \/ MarkOffline \/ Tick \/ TimerUnneeded
  \/ \E a \in Attempts : TryBluetooth(a) \/ Task(a)
  \/ Command \/ Written \/ WriteFails
  \/ Shutdown \/ ShutdownDone
  \/ Radio

Safety == Init /\ [][Next]_vars

\* Due timers are run, tasks are resumed, what they await returns, and time
\* passes.  Nothing is assumed of the charger, of commands or of the radio.
Fairness ==
  /\ WF_vars(Tick)
  /\ WF_vars(MarkOffline)
  /\ WF_vars(TimerUnneeded \/ \E a \in Attempts : TryBluetooth(a))
  /\ \A a \in Attempts : WF_vars(Task(a))
  /\ WF_vars(ShutdownDone)
  /\ \A by \in Closers : WF_vars(DisconnectGranted(by) /\ UNCHANGED coordVars)
  /\ \A p \in Peers : WF_vars(closing[p] # "none" /\ (LinkDrop(p) \/ CloseFails(p))
                              /\ UNCHANGED coordVars)

Spec == Safety /\ Fairness
----------------------------------------------------------------------------
(* What must hold *)

\* The watchdog runs exactly while a loaded entry's charger is available, and
\* with just the time left that the last frame bought: a charger cannot stay
\* available after OfflineTimeout of silence (_mark_online, _mark_offline),
\* however frames of both transports, timers and attempts interleave.
WatchdogRunning ==
  /\ watchdog # Off => online /\ silence + watchdog = OfflineTimeout
  /\ life = "running" /\ online => watchdog # Off

\* Bluetooth is tried only when nothing was heard for FallbackDelay: not
\* earlier because a failed attempt that began in another outage queued its
\* retry (_schedule_bluetooth_attempt, const.py:42).
SilentBeforeBluetooth ==
  bleRetry = 0 /\ ~online => silence >= FallbackDelay

\* The entities are told what Availability promises, with the watchdog, the
\* two transports and the shutdown standing behind it.
Promise == INSTANCE Availability WITH
  Timeout <- OfflineTimeout,
  offered <- life = "running",
  available <- online /\ life = "running",
  quiet <- IF silence <= OfflineTimeout THEN silence ELSE OfflineTimeout + 1

AvailabilityKept == Promise!AvSafety

\* The link is given back once the network carries the frames for good, even
\* when the first of them arrives while a connection is being made
\* (handle_frame drops the link only if it is connected at that moment).
BluetoothReleased ==
  <>[](life = "running" /\ online /\ lastTransport = "wifi")
    => <>[](\A p \in Peers : link[p] = "down")

\* async_shutdown returns although it waits for the lock that a connection
\* attempt may hold, behind other tasks.
ShutdownReturns == life = "stopping" ~> life = "stopped"

----------------------------------------------------------------------------
(* What the documents say and the code does not do *)

\* "Runs once per outage" (_async_repair_wifi): the credentials are not written
\* twice while the network stays silent.
OncePerOutage == provisions <= 1

\* BLE_RETRY_INTERVAL: "how often to retry once it is" silent.  A loaded entry
\* whose charger is unavailable and not connected has an attempt queued or
\* under way.
FallbackNeverAbandoned ==
  life = "running" /\ ~online /\ ~Connected
    => \/ bleRetry # Off
       \/ \E a \in Attempts : ~Idle(a) \/ provisioning[a] # NoPeer

\* "Cancel timers and stop touching Home Assistant" (async_shutdown): once it
\* has returned, no timer of the coordinator is running.
ShutdownIsFinal == life = "stopped" => watchdog = Off /\ bleRetry = Off
=============================================================================
