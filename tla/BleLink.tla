------------------------------ MODULE BleLink ------------------------------
(***************************************************************************)
(* The Bluetooth transport of one charger (ble.py, class                   *)
(* BesenBleTransport): the lock around connecting and disconnecting, the   *)
(* client the transport refers to, and the radio links that really exist.  *)
(*                                                                         *)
(* Everything runs on one event loop, so an action is the code between two *)
(* awaits.  `async_connect' holds the lock over its awaits and is a task   *)
(* with steps; `async_disconnect' holds it only while it takes the client  *)
(* and awaits client.disconnect() after releasing it.  asyncio.Lock serves *)
(* its waiters first come first served.                                    *)
(***************************************************************************)
EXTENDS Integers, Sequences

CONSTANTS
  Attempts,      \* calls of async_connect that may overlap
  Peers,         \* chargers that answer to the advertised name
  NoPeer,        \* stands for None
  Nobody,        \* the lock's holder when it is free
  CloseCanFail   \* whether client.disconnect() may raise and leave the link up

Closers == {"task", "shutdown"}   \* who calls async_disconnect

ASSUME BleAssumption ==
  /\ NoPeer \notin Peers
  /\ Nobody \notin Attempts
  /\ Attempts \cap Closers = {}
  /\ CloseCanFail \in BOOLEAN

VARIABLES
  link,        \* [Peers -> {"down", "up", "notifying"}], the radio's view
  client,      \* self._client, the peer the transport refers to
  closing,     \* whose client.disconnect() is being awaited, and by whom
  holder,      \* the attempt inside `async with self._lock'
  step,        \* what that attempt awaits
  candidate,   \* its local `client', until it becomes self._client
  waiters      \* the tasks queued on the lock

bleVars == <<link, client, closing, holder, step, candidate, waiters>>

Steps == {"none", "establishing", "subscribing", "aborting", "settling"}

BleTypeOK ==
  /\ link \in [Peers -> {"down", "up", "notifying"}]
  /\ client \in Peers \cup {NoPeer}
  /\ closing \in [Peers -> Closers \cup {"none"}]
  /\ holder \in Attempts \cup {Nobody}
  /\ step \in Steps
  /\ candidate \in Peers \cup {NoPeer}
  /\ waiters \in Seq(Attempts \cup Closers)

BleInit ==
  /\ link = [p \in Peers |-> "down"]
  /\ client = NoPeer
  /\ closing = [p \in Peers |-> "none"]
  /\ holder = Nobody
  /\ step = "none"
  /\ candidate = NoPeer
  /\ waiters = <<>>

Connected == client # NoPeer

LockFree == holder = Nobody /\ waiters = <<>>

Queued(task) == \E i \in 1..Len(waiters) : waiters[i] = task

Idle(a) == holder # a /\ ~Queued(a)

----------------------------------------------------------------------------
(* async_connect *)

\* The lock is free: the call runs on without waiting.
Arrives(a) == Idle(a) /\ LockFree /\ UNCHANGED waiters

\* The lock has been released and the attempt is first in its queue.
Granted(a) ==
  /\ holder = Nobody
  /\ waiters # <<>>
  /\ Head(waiters) = a
  /\ waiters' = Tail(waiters)

\* Wrong: a lock that serves the latest of its waiters first.
QueueConnectLast(a) ==
  /\ Idle(a)
  /\ ~LockFree
  /\ waiters' = <<a>> \o waiters
  /\ UNCHANGED <<link, client, closing, holder, step, candidate>>

\* The lock is taken: the call waits for it.
QueueConnect(a) ==
  /\ Idle(a)
  /\ ~LockFree
  /\ waiters' = Append(waiters, a)
  /\ UNCHANGED <<link, client, closing, holder, step, candidate>>

\* Returns True at once.
AlreadyConnected ==
  Connected /\ UNCHANGED <<link, client, closing, holder, step, candidate>>

\* No usable adapter, or the charger is not seen: returns False at once.
NotFound ==
  ~Connected /\ UNCHANGED <<link, client, closing, holder, step, candidate>>

\* Wrong: the client that is there already is not looked at.
BeginConnectAnyway(a) ==
  /\ holder' = a
  /\ step' = "establishing"
  /\ UNCHANGED <<link, client, closing, candidate>>

BeginConnect(a) ==
  /\ ~Connected
  /\ holder' = a
  /\ step' = "establishing"
  /\ UNCHANGED <<link, client, closing, candidate>>

\* What the attempt may do on getting the lock.
Enter(a) == AlreadyConnected \/ NotFound \/ BeginConnect(a)

At(a, s) == holder = a /\ step = s

\* Wrong: an error path that returns with the lock taken.
ReleaseLockForgotten ==
  step' = "none" /\ candidate' = NoPeer /\ UNCHANGED holder

ReleaseLock == holder' = Nobody /\ step' = "none" /\ candidate' = NoPeer

\* What follows _pick_characteristics: the client is subscribed to, or, without
\* a write/notify pair, disconnected again.
Picked == {"subscribing", "aborting"}

\* establish_connection returned a client.
Establish(a, p) ==
  /\ At(a, "establishing")
  /\ link[p] = "down"
  /\ link' = [link EXCEPT ![p] = "up"]
  /\ candidate' = p
  /\ step' \in Picked
  /\ UNCHANGED <<client, closing, holder, waiters>>

\* Returns False.
EstablishFail(a) ==
  At(a, "establishing") /\ ReleaseLock /\ UNCHANGED <<link, client, closing, waiters>>

\* start_notify succeeded: the client becomes the transport's, and the task
\* sleeps a second with the lock held.
Subscribe(a) ==
  /\ At(a, "subscribing")
  /\ link[candidate] = "up"
  /\ link' = [link EXCEPT ![candidate] = "notifying"]
  /\ client' = candidate
  /\ candidate' = NoPeer
  /\ step' = "settling"
  /\ UNCHANGED <<closing, holder, waiters>>

\* Wrong: start_notify failed and the client is dropped without disconnecting.
SubscribeFailOpen(a) ==
  At(a, "subscribing") /\ ReleaseLock /\ UNCHANGED <<link, client, closing, waiters>>

SubscribeFail(a) ==
  /\ At(a, "subscribing")
  /\ step' = "aborting"
  /\ UNCHANGED <<link, client, closing, holder, candidate, waiters>>

\* Wrong: _handle_disconnect does not forget self._client.
LinkGoneUnnoticed(p) ==
  /\ link' = [link EXCEPT ![p] = "down"]
  /\ closing' = [closing EXCEPT ![p] = "none"]
  /\ UNCHANGED client

\* A link is gone, whoever ended it: an awaited client.disconnect() returns,
\* and bleak calls _handle_disconnect, which forgets self._client whichever
\* client it was called for.
LinkGone(p) ==
  /\ link' = [link EXCEPT ![p] = "down"]
  /\ closing' = [closing EXCEPT ![p] = "none"]
  /\ client' = NoPeer

\* Returns False.
Abort(a) ==
  /\ At(a, "aborting")
  /\ LinkGone(candidate)
  /\ ReleaseLock
  /\ UNCHANGED waiters

\* The unguarded client.disconnect() raised out of async_connect.
AbortRaises(a) ==
  /\ CloseCanFail
  /\ At(a, "aborting")
  /\ ReleaseLock
  /\ UNCHANGED <<link, client, closing, waiters>>

\* Returns True, whether or not the link survived the second.
Settle(a) ==
  At(a, "settling") /\ ReleaseLock /\ UNCHANGED <<link, client, closing, waiters>>

----------------------------------------------------------------------------
(* async_disconnect *)

TakeClient(by) ==
  /\ client' = NoPeer
  /\ closing' = IF Connected THEN [closing EXCEPT ![client] = by] ELSE closing

\* Called by a task: it runs on if the lock is free, and queues otherwise.  A
\* second call right behind the same caller's would find no client: it is left
\* out of the queue.
Disconnect(by) ==
  /\ IF LockFree
     THEN TakeClient(by) /\ UNCHANGED waiters
     ELSE /\ waiters' = IF waiters # <<>> /\ waiters[Len(waiters)] = by
                        THEN waiters ELSE Append(waiters, by)
          /\ UNCHANGED <<client, closing>>
  /\ UNCHANGED <<link, holder, step, candidate>>

\* Wrong: self._client is read before waiting for the lock, and was None.
DisconnectGrantedStale(by) ==
  /\ Granted(by)
  /\ UNCHANGED <<link, client, closing, holder, step, candidate>>

DisconnectGranted(by) ==
  /\ Granted(by)
  /\ TakeClient(by)
  /\ UNCHANGED <<link, holder, step, candidate>>

\* client.disconnect() raised; the exception is only logged.
CloseFails(p) ==
  /\ CloseCanFail
  /\ closing[p] # "none"
  /\ closing' = [closing EXCEPT ![p] = "none"]
  /\ UNCHANGED <<link, client, holder, step, candidate, waiters>>

\* The link goes down: because it is being closed, or by itself.
LinkDrop(p) ==
  /\ link[p] # "down"
  /\ LinkGone(p)
  /\ UNCHANGED <<holder, step, candidate, waiters>>

----------------------------------------------------------------------------
(* The transport with any caller: connect and disconnect whenever. *)

ConnectStep(a) ==
  \/ \E p \in Peers : Establish(a, p)
  \/ EstablishFail(a)
  \/ Subscribe(a)
  \/ SubscribeFail(a)
  \/ Abort(a)
  \/ AbortRaises(a)
  \/ Settle(a)

CallConnect(a) == QueueConnect(a) \/ (Arrives(a) /\ Enter(a))

Serve ==
  \/ \E a \in Attempts : Granted(a) /\ Enter(a)
  \/ \E by \in Closers : DisconnectGranted(by)

BleNext ==
  \/ \E a \in Attempts : CallConnect(a) \/ ConnectStep(a)
  \/ Serve
  \/ \E by \in Closers : Disconnect(by)
  \/ \E p \in Peers : LinkDrop(p) \/ CloseFails(p)

BleSafety == BleInit /\ [][BleNext]_bleVars

----------------------------------------------------------------------------
(* What must hold *)

\* The transport refers only to a client whose link is up and subscribed, so
\* that `connected' and the choice of transport made from it are never about a
\* dead link, in whatever order drops, disconnects and attempts come.
ReferenceIsLive == Connected => link[client] = "notifying"

\* While an attempt is making its connection the transport has no other client,
\* and once it has a link it knows whose: what the two properties rest on.
ConnectingAlone ==
  /\ holder = Nobody => step = "none"
  /\ step \in {"establishing", "subscribing", "aborting"} => ~Connected
  /\ step \in {"subscribing", "aborting"} => candidate \in Peers

\* A link that nobody will end: it is not referred to, not being closed, and not in
\* the hands of the attempt that opened it.
Orphan(p) ==
  /\ link[p] # "down"
  /\ client # p
  /\ closing[p] = "none"
  /\ ~(candidate = p /\ step \in {"subscribing", "aborting"})

\* No such link is left.  (A charger accepts one connection; a forgotten link would
\* lock out the telephone app and every later attempt.)
NoOrphanLink == \A p \in Peers : ~Orphan(p)

\* Where several chargers answer and disconnects may raise, a link is forgotten in
\* two ways and no other: its own client.disconnect() raised, or the link of
\* another charger went, whose callback forgets the client.
OrphanedOnlyBy ==
  [][\A p \in Peers : ~Orphan(p) /\ Orphan(p)' =>
       \/ CloseCanFail /\ (closing[p] # "none" \/ candidate = p)
       \/ \E q \in Peers \ {p} : link[q] # "down" /\ link'[q] = "down"]_bleVars

\* A call of async_connect returns, behind any queue on the lock.
AttemptReturns == \A a \in Attempts : ~Idle(a) ~> Idle(a)

\* A disconnect that had to queue wins: although attempts queued before it
\* connect first, the transport comes to hold neither a client nor its lock.
DisconnectWins ==
  \A by \in Closers : Queued(by) ~> (holder = Nobody /\ ~Connected)
=============================================================================
