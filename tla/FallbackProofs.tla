--------------------------- MODULE FallbackProofs ---------------------------
(***************************************************************************)
(* What Fallback guarantees for every choice of the timeouts that meets    *)
(* DelayAssumption, any number of overlapping attempts and any chargers in *)
(* range.                                                                  *)
(***************************************************************************)
EXTENDS Fallback, BleLinkProofs

\* Whatever the coordinator does, the transport takes one of its own steps.
LEMMA ComposedStep == [Next]_vars => [BleNext]_bleVars
<1> SUFFICES ASSUME [Next]_vars
             PROVE  [BleNext]_bleVars
  OBVIOUS
<1> USE DEF BleNext, ConnectStep, CallConnect, Serve, Closers
<1>1. ASSUME HearNetwork \/ HearStranger \/ WriteFails \/ Shutdown
      PROVE  [BleNext]_bleVars
  BY <1>1 DEF HearNetwork, HearStranger, WriteFails, Shutdown
<1>2. ASSUME HearBluetooth \/ MarkOffline \/ Tick \/ TimerUnneeded \/ Command
               \/ Written \/ ShutdownDone
      PROVE  UNCHANGED bleVars
  BY <1>2 DEF HearBluetooth, MarkOffline, Tick, TimerUnneeded, Command, Written,
              ShutdownDone
<1>3. ASSUME NEW a \in Attempts, TryBluetooth(a)
      PROVE  BleNext
  BY <1>3 DEF TryBluetooth, Try, Enter
<1>4. ASSUME NEW a \in Attempts, LockGranted(a)
      PROVE  BleNext
  BY <1>4 DEF LockGranted, Try, Enter
<1>5. ASSUME NEW a \in Attempts, Connecting(a)
      PROVE  BleNext
  BY <1>5 DEF Connecting
<1>6. ASSUME NEW a \in Attempts, Provisioned(a) \/ ProvisionFails(a)
      PROVE  [BleNext]_bleVars
  BY <1>6 DEF Provisioned, ProvisionFails
<1>7. ASSUME Radio
      PROVE  BleNext
  BY <1>7 DEF Radio
<1>8. CASE UNCHANGED vars
  BY <1>8 DEF vars
<1> QED
  BY <1>1, <1>2, <1>3, <1>4, <1>5, <1>6, <1>7, <1>8 DEF Next, Task

\* Fallback uses the transport only as BleLink allows: what is proved of the
\* transport with any caller holds with the coordinator as its caller.
THEOREM ComposesTransport == Safety => BleSafety
<1>1. Init => BleInit
  BY DEF Init
<1> QED
  BY <1>1, ComposedStep, PTL DEF Safety, BleSafety

----------------------------------------------------------------------------

\* The coordinator's variables keep their types.
LEMMA CoordTypeStep == TypeOK /\ [Next]_vars => CoordTypeOK'
<1> SUFFICES ASSUME TypeOK, [Next]_vars
             PROVE  CoordTypeOK'
  OBVIOUS
<1>0. BleTypeOK'
  BY ComposedStep, BleTypeStep DEF TypeOK
<1> USE DelayAssumption, BleAssumption DEF CoordTypeOK, TypeOK, Off
<1>1. ASSUME HearNetwork \/ HearBluetooth
      PROVE  CoordTypeOK'
  <2>1. writing' \in BOOLEAN
    BY <1>1 DEF HearNetwork, HearBluetooth, MarkOnline, Reply
  <2>2. wifiRepaired' \in BOOLEAN
    BY <1>1 DEF HearNetwork, HearBluetooth, MarkOnline
  <2>3. provisions' \in 0..MaxProvisions
    BY <1>1 DEF HearNetwork, HearBluetooth
  <2>4. lastTransport' \in {"none", "wifi", "bluetooth"}
    BY <1>1 DEF HearNetwork, HearBluetooth
  <2>5. watchdog' \in -1..OfflineTimeout /\ silence' \in 0..FallbackDelay
    BY <1>1 DEF HearNetwork, HearBluetooth, MarkOnline
  <2>6. online' \in BOOLEAN /\ UNCHANGED <<bleRetry, life, provisioning>>
    BY <1>1 DEF HearNetwork, HearBluetooth, MarkOnline
  <2> QED
    BY <2>1, <2>2, <2>3, <2>4, <2>5, <2>6
<1>2. ASSUME HearStranger \/ Radio
      PROVE  CoordTypeOK'
  BY <1>2 DEF HearStranger, Radio, coordVars
<1>3. ASSUME MarkOffline \/ Tick \/ TimerUnneeded
      PROVE  CoordTypeOK'
  <2>1. CASE MarkOffline
    <3>1. bleRetry' \in -1..(InitialDelay + FallbackDelay + RetryInterval)
      BY <2>1 DEF MarkOffline
    <3>2. watchdog' \in -1..OfflineTimeout
      BY <2>1 DEF MarkOffline
    <3> QED
      BY <2>1, <3>1, <3>2 DEF MarkOffline
  <2>2. CASE Tick
    <3>1. watchdog' \in -1..OfflineTimeout
      BY <2>2 DEF Tick
    <3>2. bleRetry' \in -1..(InitialDelay + FallbackDelay + RetryInterval)
      BY <2>2 DEF Tick
    <3>3. silence' \in 0..FallbackDelay
      BY <2>2 DEF Tick
    <3> QED
      BY <2>2, <3>1, <3>2, <3>3 DEF Tick
  <2>3. CASE TimerUnneeded
    BY <2>3 DEF TimerUnneeded
  <2> QED
    BY <1>3, <2>1, <2>2, <2>3
<1>4. ASSUME NEW a \in Attempts, Succeeded(a), bleRetry' \in {bleRetry, Off}
      PROVE  CoordTypeOK'
  <2>1. client' # NoPeer => client' \in Peers
    BY <1>0 DEF BleTypeOK
  <2>2. provisioning' \in [Attempts -> Peers \cup {NoPeer}]
    BY <1>4, <2>1 DEF Succeeded
  <2>3. wifiRepaired' \in BOOLEAN /\ writing' \in BOOLEAN
    BY <1>4 DEF Succeeded
  <2>4. bleRetry' \in -1..(InitialDelay + FallbackDelay + RetryInterval)
    BY <1>4
  <2> QED
    BY <1>4, <2>2, <2>3, <2>4 DEF Succeeded
<1>5. ASSUME Failed
      PROVE  CoordTypeOK'
  BY <1>5 DEF Failed
<1>6. ASSUME NEW a \in Attempts, NEW r \in {bleRetry, Off}, Try(a, r)
      PROVE  CoordTypeOK'
  BY <1>4, <1>5, <1>6 DEF Try
<1>7. ASSUME NEW a \in Attempts, TryBluetooth(a) \/ LockGranted(a)
      PROVE  CoordTypeOK'
  BY <1>6, <1>7 DEF TryBluetooth, LockGranted
<1>8. ASSUME NEW a \in Attempts, Connecting(a)
      PROVE  CoordTypeOK'
  BY <1>4, <1>5, <1>8 DEF Connecting, coordVars
<1>9. ASSUME NEW a \in Attempts, Provisioned(a) \/ ProvisionFails(a)
      PROVE  CoordTypeOK'
  <2>1. provisioning' \in [Attempts -> Peers \cup {NoPeer}]
    BY <1>9 DEF Provisioned, ProvisionFails
  <2>2. provisions' \in 0..MaxProvisions
    BY <1>9 DEF Provisioned, ProvisionFails
  <2>3. wifiRepaired' \in BOOLEAN
    BY <1>9 DEF Provisioned, ProvisionFails
  <2> QED
    BY <1>9, <2>1, <2>2, <2>3 DEF Provisioned, ProvisionFails
<1>10. ASSUME Command \/ Written \/ WriteFails
       PROVE  CoordTypeOK'
  BY <1>10 DEF Command, Written, WriteFails
<1>11. ASSUME Shutdown \/ ShutdownDone
       PROVE  CoordTypeOK'
  BY <1>11 DEF Shutdown, ShutdownDone
<1>12. CASE UNCHANGED vars
  BY <1>12 DEF vars, coordVars
<1> QED
  BY <1>1, <1>2, <1>3, <1>7, <1>8, <1>9, <1>10, <1>11, <1>12 DEF Next, Task

\* Every variable of the coordinator and of its transport has a value its code
\* gives it.
THEOREM TypeCorrect == Safety => []TypeOK
<1>1. Init => TypeOK
  <2>1. BleInit => BleTypeOK
    BY BleAssumption DEF BleInit, BleTypeOK, Steps
  <2>2. Init => /\ watchdog \in -1..OfflineTimeout
                /\ bleRetry \in -1..(InitialDelay + FallbackDelay + RetryInterval)
                /\ silence \in 0..FallbackDelay
                /\ provisions \in 0..MaxProvisions
    BY DelayAssumption DEF Init, Off
  <2>3. Init => CoordTypeOK
    BY <2>2 DEF Init, CoordTypeOK, Off
  <2> QED
    BY <2>1, <2>3 DEF Init, TypeOK
<1>2. TypeOK /\ [Next]_vars => TypeOK'
  BY CoordTypeStep, ComposedStep, BleTypeStep DEF TypeOK
<1> QED
  BY <1>1, <1>2, PTL DEF Safety

----------------------------------------------------------------------------

\* WatchdogRunning and SilentBeforeBluetooth hold for the same reason: what the
\* timers have left and the silence so far add up.  A charger goes offline only
\* after OfflineTimeout, so that a retry queued by an attempt that fails while
\* it is offline cannot come before FallbackDelay.
TimerInv ==
  /\ WatchdogRunning
  /\ ~online => silence >= OfflineTimeout
  /\ bleRetry # Off /\ ~online => silence + bleRetry >= FallbackDelay

\* What every action but those of the timers, frames and the shutdown does.
Elsewhere ==
  /\ UNCHANGED <<online, watchdog, life, silence>>
  /\ bleRetry' \in {bleRetry, Off, RetryInterval}

\* The tasks of an attempt touch of the timers only the retry.
LEMMA TaskElsewhere ==
  ASSUME NEW a \in Attempts, TryBluetooth(a) \/ Task(a)
  PROVE  Elsewhere
<1> USE DEF Elsewhere
<1>1. ASSUME Failed
      PROVE  Elsewhere
  BY <1>1 DEF Failed
<1>2. ASSUME Succeeded(a), bleRetry' \in {bleRetry, Off}
      PROVE  Elsewhere
  BY <1>2 DEF Succeeded
<1>3. ASSUME NEW r \in {bleRetry, Off}, Try(a, r)
      PROVE  Elsewhere
  BY <1>1, <1>2, <1>3 DEF Try
<1>4. ASSUME TryBluetooth(a) \/ LockGranted(a)
      PROVE  Elsewhere
  BY <1>3, <1>4 DEF TryBluetooth, LockGranted
<1>5. ASSUME Connecting(a)
      PROVE  Elsewhere
  BY <1>1, <1>2, <1>5 DEF Connecting, coordVars
<1>6. ASSUME Provisioned(a) \/ ProvisionFails(a)
      PROVE  Elsewhere
  BY <1>6 DEF Provisioned, ProvisionFails
<1> QED
  BY <1>4, <1>5, <1>6 DEF Task

\* Of the other steps, only the timers' own, a frame and the shutdown touch them.
LEMMA OtherElsewhere ==
  ASSUME \/ HearStranger \/ TimerUnneeded \/ Command \/ Written \/ WriteFails
         \/ Radio \/ UNCHANGED vars
  PROVE  Elsewhere
BY DEF Elsewhere, HearStranger, TimerUnneeded, Command, Written, WriteFails, Radio, vars,
       coordVars

\* What relates the two timers to the silence is inductive.
LEMMA TimerInvStep == TypeOK /\ TimerInv /\ [Next]_vars => TimerInv'
<1> SUFFICES ASSUME TypeOK, TimerInv, [Next]_vars
             PROVE  TimerInv'
  OBVIOUS
<1> USE DelayAssumption DEF TypeOK, CoordTypeOK, TimerInv, WatchdogRunning, Off
<1>1. ASSUME HearNetwork \/ HearBluetooth
      PROVE  TimerInv'
  BY <1>1 DEF HearNetwork, HearBluetooth, MarkOnline
<1>2. CASE MarkOffline
  BY <1>2 DEF MarkOffline
<1>3. CASE Tick
  BY <1>3 DEF Tick
<1>4. CASE Shutdown
  BY <1>4 DEF Shutdown
<1>5. CASE ShutdownDone
  BY <1>5 DEF ShutdownDone
<1>6. ASSUME Elsewhere
      PROVE  TimerInv'
  <2>1. bleRetry' # Off /\ ~online' => silence' + bleRetry' >= FallbackDelay
    <3>1. CASE bleRetry' = RetryInterval
      BY <1>6, <3>1 DEF Elsewhere
    <3>2. CASE bleRetry' \in {bleRetry, Off}
      BY <1>6, <3>2 DEF Elsewhere
    <3> QED
      BY <1>6, <3>1, <3>2 DEF Elsewhere
  <2> QED
    BY <1>6, <2>1 DEF Elsewhere
<1> QED
  BY <1>1, <1>2, <1>3, <1>4, <1>5, <1>6, TaskElsewhere, OtherElsewhere DEF Next

\* It holds in every state the coordinator reaches.
LEMMA TimerInvCorrect == Safety => [](TypeOK /\ TimerInv)
<1>1. Init => TimerInv
  BY DelayAssumption DEF Init, TimerInv, WatchdogRunning, Off
<1> QED
  BY <1>1, TimerInvStep, TypeCorrect, PTL DEF Safety

\* A charger is available no longer than OfflineTimeout after its last frame:
\* the watchdog of _mark_online is always set for just that moment.
THEOREM WatchdogCorrect == Safety => []WatchdogRunning
<1>1. TimerInv => WatchdogRunning
  BY DEF TimerInv
<1> QED
  BY <1>1, TimerInvCorrect, PTL

\* No Bluetooth attempt comes before FallbackDelay of silence, whatever
\* attempts of earlier outages are still under way.
THEOREM SilenceCorrect == Safety => []SilentBeforeBluetooth
<1>1. TypeOK /\ TimerInv => SilentBeforeBluetooth
  BY DelayAssumption DEF TypeOK, CoordTypeOK, TimerInv, SilentBeforeBluetooth, Off
<1> QED
  BY <1>1, TimerInvCorrect, PTL

----------------------------------------------------------------------------

\* Every step of the coordinator is a step of Availability or changes nothing
\* of what Availability speaks of.
LEMMA PromiseStep ==
  TypeOK /\ TimerInv /\ [Next]_vars => [Promise!AvNext]_(Promise!avVars)
<1> SUFFICES ASSUME TypeOK, TimerInv, [Next]_vars
             PROVE  [Promise!AvNext]_(Promise!avVars)
  OBVIOUS
<1> USE DelayAssumption
    DEF TypeOK, CoordTypeOK, TimerInv, WatchdogRunning, Off, Promise!AvNext, Promise!avVars
<1>1. ASSUME HearNetwork \/ HearBluetooth
      PROVE  Promise!Hear
  BY <1>1 DEF HearNetwork, HearBluetooth, MarkOnline, Promise!Hear
<1>2. ASSUME MarkOffline
      PROVE  [Promise!AvNext]_(Promise!avVars)
  BY <1>2 DEF MarkOffline, Promise!Lapse
<1>3. ASSUME Tick
      PROVE  Promise!Pass
  BY <1>3 DEF Tick, Promise!Pass
<1>4. ASSUME Shutdown
      PROVE  Promise!Withdraw
  BY <1>4 DEF Shutdown, Promise!Withdraw
<1>5. ASSUME ShutdownDone
      PROVE  UNCHANGED Promise!avVars
  BY <1>5 DEF ShutdownDone
<1>6. ASSUME Elsewhere
      PROVE  UNCHANGED Promise!avVars
  BY <1>6 DEF Elsewhere
<1> QED
  BY <1>1, <1>2, <1>3, <1>4, <1>5, <1>6, TaskElsewhere, OtherElsewhere DEF Next

\* The coordinator implements Availability: entities are told that the charger
\* is available from a frame until OfflineTimeout has passed without another.
THEOREM AvailabilityCorrect == Safety => AvailabilityKept
<1>1. Init => Promise!AvInit
  BY DelayAssumption DEF Init, Promise!AvInit
<1> QED
  BY <1>1, PromiseStep, TimerInvCorrect, PTL DEF Safety, AvailabilityKept, Promise!AvSafety

\* The choice of transport in _send is never made from a link that is gone.
THEOREM FallbackReference == Safety => []ReferenceIsLive
BY ComposesTransport, ReferenceCorrect, PTL

\* With one charger in range and client.disconnect() doing its work, the
\* coordinator leaves no Bluetooth link that nobody will end.
THEOREM FallbackNoOrphan ==
  ASSUME \A p, q \in Peers : p = q, CloseCanFail = FALSE
  PROVE  Safety => []NoOrphanLink
BY ComposesTransport, NoOrphanCorrect, PTL

\* With any chargers in range and disconnects that raise, the coordinator loses
\* track of a link in no other way than these two.
THEOREM FallbackOrphaned == Safety => OrphanedOnlyBy
BY ComposesTransport, OrphanedCorrect, PTL
=============================================================================
