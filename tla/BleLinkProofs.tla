--------------------------- MODULE BleLinkProofs ---------------------------
(***************************************************************************)
(* What BleLink guarantees for any number of overlapping calls and any     *)
(* chargers in range.                                                      *)
(***************************************************************************)
EXTENDS BleLink, TLAPS

\* Every action of the transport keeps the types.
LEMMA BleTypeStep == BleTypeOK /\ [BleNext]_bleVars => BleTypeOK'
<1> SUFFICES ASSUME BleTypeOK, [BleNext]_bleVars
             PROVE  BleTypeOK'
  OBVIOUS
<1> USE BleAssumption DEF BleTypeOK, Closers, Steps
<1>1. ASSUME NEW a \in Attempts, QueueConnect(a)
      PROVE  BleTypeOK'
  BY <1>1 DEF QueueConnect
<1>2. ASSUME NEW a \in Attempts, Arrives(a) \/ Granted(a), Enter(a)
      PROVE  BleTypeOK'
  <2>1. waiters' \in Seq(Attempts \cup Closers)
    BY <1>2 DEF Arrives, Granted
  <2> QED
    BY <1>2, <2>1 DEF Enter, AlreadyConnected, NotFound, BeginConnect
<1>3. ASSUME NEW a \in Attempts, NEW p \in Peers, Establish(a, p)
      PROVE  BleTypeOK'
  BY <1>3 DEF Establish, Picked
<1>4. ASSUME NEW a \in Attempts, EstablishFail(a) \/ AbortRaises(a) \/ Settle(a)
      PROVE  BleTypeOK'
  BY <1>4 DEF EstablishFail, AbortRaises, Settle, ReleaseLock
<1>5. ASSUME NEW a \in Attempts, Subscribe(a) \/ SubscribeFail(a)
      PROVE  BleTypeOK'
  BY <1>5 DEF Subscribe, SubscribeFail
<1>6. ASSUME NEW a \in Attempts, Abort(a)
      PROVE  BleTypeOK'
  BY <1>6 DEF Abort, LinkGone, ReleaseLock
<1>7. ASSUME NEW by \in Closers, Disconnect(by)
      PROVE  BleTypeOK'
  BY <1>7 DEF Disconnect, TakeClient
<1>8. ASSUME NEW by \in Closers, DisconnectGranted(by)
      PROVE  BleTypeOK'
  <2>1. waiters' \in Seq(Attempts \cup Closers)
    BY <1>8 DEF DisconnectGranted, Granted
  <2> QED
    BY <1>8, <2>1 DEF DisconnectGranted, TakeClient
<1>9. ASSUME NEW p \in Peers, LinkDrop(p) \/ CloseFails(p)
      PROVE  BleTypeOK'
  BY <1>9 DEF LinkDrop, LinkGone, CloseFails
<1>10. CASE UNCHANGED bleVars
  BY <1>10 DEF bleVars
<1> QED
  BY <1>1, <1>2, <1>3, <1>4, <1>5, <1>6, <1>7, <1>8, <1>9, <1>10
  DEF BleNext, CallConnect, ConnectStep, Serve

\* The variables of the transport always have the values their code gives them.
THEOREM BleTypeCorrect == BleSafety => []BleTypeOK
<1>1. BleInit => BleTypeOK
  BY BleAssumption DEF BleInit, BleTypeOK, Steps
<1> QED
  BY <1>1, BleTypeStep, PTL DEF BleSafety

----------------------------------------------------------------------------

\* ReferenceIsLive is not inductive by itself: that no other client is there
\* while a connection is made is what keeps the reference from being replaced.
LinkInv == BleTypeOK /\ ConnectingAlone /\ ReferenceIsLive

\* The invariant that carries both safety properties is inductive.
LEMMA LinkInvStep == LinkInv /\ [BleNext]_bleVars => LinkInv'
<1> SUFFICES ASSUME LinkInv, [BleNext]_bleVars
             PROVE  ConnectingAlone' /\ ReferenceIsLive'
  BY BleTypeStep DEF LinkInv
<1> USE BleAssumption DEF LinkInv, ConnectingAlone, ReferenceIsLive, BleTypeOK, Connected
<1>1. ASSUME NEW a \in Attempts, QueueConnect(a)
      PROVE  ConnectingAlone' /\ ReferenceIsLive'
  BY <1>1 DEF QueueConnect
<1>2. ASSUME NEW a \in Attempts, Enter(a)
      PROVE  ConnectingAlone' /\ ReferenceIsLive'
  BY <1>2 DEF Enter, AlreadyConnected, NotFound, BeginConnect
<1>3. ASSUME NEW a \in Attempts, NEW p \in Peers, Establish(a, p)
      PROVE  ConnectingAlone' /\ ReferenceIsLive'
  BY <1>3 DEF Establish, Picked, At
<1>4. ASSUME NEW a \in Attempts, EstablishFail(a) \/ AbortRaises(a) \/ Settle(a)
      PROVE  ConnectingAlone' /\ ReferenceIsLive'
  BY <1>4 DEF EstablishFail, AbortRaises, Settle, ReleaseLock
<1>5. ASSUME NEW a \in Attempts, Subscribe(a)
      PROVE  ConnectingAlone' /\ ReferenceIsLive'
  BY <1>5 DEF Subscribe, At
<1>6. ASSUME NEW a \in Attempts, SubscribeFail(a)
      PROVE  ConnectingAlone' /\ ReferenceIsLive'
  BY <1>6 DEF SubscribeFail, At
<1>7. ASSUME NEW a \in Attempts, Abort(a)
      PROVE  ConnectingAlone' /\ ReferenceIsLive'
  BY <1>7 DEF Abort, LinkGone, ReleaseLock
<1>8. ASSUME NEW by \in Closers, Disconnect(by) \/ DisconnectGranted(by)
      PROVE  ConnectingAlone' /\ ReferenceIsLive'
  BY <1>8 DEF Disconnect, DisconnectGranted, TakeClient
<1>9. ASSUME NEW p \in Peers, LinkDrop(p) \/ CloseFails(p)
      PROVE  ConnectingAlone' /\ ReferenceIsLive'
  BY <1>9 DEF LinkDrop, LinkGone, CloseFails
<1>10. CASE UNCHANGED bleVars
  BY <1>10 DEF bleVars
<1> QED
  BY <1>1, <1>2, <1>3, <1>4, <1>5, <1>6, <1>7, <1>8, <1>9, <1>10
  DEF BleNext, CallConnect, ConnectStep, Serve

\* It holds in every state the transport reaches.
LEMMA LinkInvCorrect == BleSafety => []LinkInv
<1>1. BleInit => LinkInv
  BY BleAssumption
  DEF BleInit, LinkInv, BleTypeOK, Steps, ConnectingAlone, ReferenceIsLive, Connected
<1> QED
  BY <1>1, LinkInvStep, PTL DEF BleSafety

\* ble.py never believes in a dead link: `connected' holds only while the link
\* of self._client is up and subscribed, whatever drops and disconnects race.
THEOREM ReferenceCorrect == BleSafety => []ReferenceIsLive
<1>1. LinkInv => ReferenceIsLive
  BY DEF LinkInv
<1> QED
  BY <1>1, LinkInvCorrect, PTL

----------------------------------------------------------------------------

\* What may leave a link that nobody will end, for any number of chargers in range.
Excused(p) ==
  \/ CloseCanFail /\ (closing[p] # "none" \/ candidate = p)
  \/ \E q \in Peers \ {p} : link[q] # "down" /\ link'[q] = "down"

\* A step that leaves one is excused: attempts and disconnects alone leave none.
LEMMA OrphanStep ==
  ASSUME LinkInv, [BleNext]_bleVars, NEW p \in Peers, ~Orphan(p), Orphan(p)'
  PROVE  Excused(p)
<1> USE BleAssumption
    DEF LinkInv, ConnectingAlone, ReferenceIsLive, Orphan, BleTypeOK, Connected, Closers
<1>1. ASSUME NEW a \in Attempts, QueueConnect(a)
      PROVE  FALSE
  BY <1>1 DEF QueueConnect
<1>2. ASSUME NEW a \in Attempts, Enter(a), holder = Nobody
      PROVE  FALSE
  BY <1>2 DEF Enter, AlreadyConnected, NotFound, BeginConnect
<1>3. ASSUME NEW a \in Attempts, NEW q \in Peers, Establish(a, q)
      PROVE  FALSE
  BY <1>3 DEF Establish, Picked, At
<1>4. ASSUME NEW a \in Attempts, EstablishFail(a) \/ Settle(a)
      PROVE  FALSE
  BY <1>4 DEF EstablishFail, Settle, ReleaseLock, At
<1>5. ASSUME NEW a \in Attempts, AbortRaises(a)
      PROVE  Excused(p)
  BY <1>5 DEF AbortRaises, ReleaseLock, At, Excused
<1>6. ASSUME NEW a \in Attempts, Subscribe(a)
      PROVE  FALSE
  BY <1>6 DEF Subscribe, At
<1>7. ASSUME NEW a \in Attempts, SubscribeFail(a)
      PROVE  FALSE
  BY <1>7 DEF SubscribeFail, At
<1>8. ASSUME NEW a \in Attempts, Abort(a)
      PROVE  FALSE
  BY <1>8 DEF Abort, LinkGone, ReleaseLock, At
<1>9. ASSUME NEW by \in Closers, Disconnect(by) \/ DisconnectGranted(by)
      PROVE  FALSE
  BY <1>9 DEF Disconnect, DisconnectGranted, TakeClient
<1>10. ASSUME NEW q \in Peers, LinkDrop(q)
       PROVE  Excused(p)
  <2>1. link[q] # "down" /\ link'[q] = "down"
    BY <1>10 DEF LinkDrop, LinkGone
  <2>2. q # p
    BY <1>10 DEF LinkDrop, LinkGone
  <2> QED
    BY <2>1, <2>2 DEF Excused
<1>11. ASSUME NEW q \in Peers, CloseFails(q)
       PROVE  Excused(p)
  BY <1>11 DEF CloseFails, Excused
<1>12. CASE UNCHANGED bleVars
  BY <1>12 DEF bleVars
<1> QED
  BY <1>1, <1>2, <1>3, <1>4, <1>5, <1>6, <1>7, <1>8, <1>9, <1>10, <1>11, <1>12
  DEF BleNext, CallConnect, ConnectStep, Serve, Arrives, LockFree, Granted

\* For any number of chargers in range and any disconnects that raise, the
\* transport forgets a link only when its own disconnect raised, or when the
\* callback of another charger's link makes it forget the client.
THEOREM OrphanedCorrect == BleSafety => OrphanedOnlyBy
<1>1. LinkInv /\ [BleNext]_bleVars =>
        [\A p \in Peers : ~Orphan(p) /\ Orphan(p)' =>
           \/ CloseCanFail /\ (closing[p] # "none" \/ candidate = p)
           \/ \E q \in Peers \ {p} : link[q] # "down" /\ link'[q] = "down"]_bleVars
  BY OrphanStep DEF Excused
<1> QED
  BY <1>1, LinkInvCorrect, PTL DEF BleSafety, OrphanedOnlyBy

\* With one charger in range and client.disconnect() ending the link it is
\* called for, neither can be: no link is forgotten, in any interleaving of
\* attempts, disconnects and drops.
THEOREM NoOrphanCorrect ==
  ASSUME \A p, q \in Peers : p = q, CloseCanFail = FALSE
  PROVE  BleSafety => []NoOrphanLink
<1>1. BleInit => NoOrphanLink
  BY DEF BleInit, NoOrphanLink, Orphan
<1>2. LinkInv /\ NoOrphanLink /\ [BleNext]_bleVars => NoOrphanLink'
  <2> SUFFICES ASSUME LinkInv, NoOrphanLink, [BleNext]_bleVars, NEW p \in Peers, Orphan(p)'
               PROVE  FALSE
    BY DEF NoOrphanLink
  <2>1. Excused(p)
    BY OrphanStep DEF NoOrphanLink
  <2> QED
    BY <2>1 DEF Excused
<1> QED
  BY <1>1, <1>2, LinkInvCorrect, PTL DEF BleSafety
=============================================================================
