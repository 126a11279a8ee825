# BS20: a verification project for the Besen charger integration

The repository is a Home Assistant integration (`src/custom_components/besen/`)
for Besen BS20 chargers. A charger broadcasts UDP frames; when it goes silent
the integration reaches it over Bluetooth, and may write the Wi-Fi credentials
back. The modules here model the parts of it in which order, timing and
interleaving matter. TLC checks them on small instances and TLAPS proves the
central invariants for every value of the constants.

Source names without a path are files of `src/custom_components/besen/`.

## The system

| component | state it keeps | operations | talks to |
|---|---|---|---|
| UDP listener and config entries (`__init__.py`) | `hass.data`: listener and stop hook; per listener the registry of coordinators | set up, unload, reload, stop, route a datagram | coordinators (calls `handle_frame`), event loop, Home Assistant |
| coordinator: availability and fallback (`coordinator.py`) | `_online`, `_watchdog`, `_ble_retry`, `_wifi_repaired`, `_last_transport` | a frame of either transport, the two timers, a connection attempt, the repair, shutdown | the Bluetooth transport (calls, awaits), entities (notifies) |
| coordinator: dialogue (`coordinator.py`) | `_data`, `_login_frames`, `_sweep_done`, `_unlocked`, limits, last record | a handler per frame, the sweep, commands | `_send` over either transport, event bus, entities |
| Bluetooth transport (`ble.py`) | `_lock`, `_client`, reassembly buffer | connect, disconnect, send, notifications, disconnect callback | bleak, the coordinator (`handle_ble_frame`) |
| protocol codec (`protocol.py`) | the reassembler's buffer | parse and build frames, reassemble | used by all |
| migration (`__init__.py`) | entity and device registries | migrate an old entry | Home Assistant |
| config and options flow (`config_flow.py`) | open forms; it writes the entries | add by hand or after discovery over Bluetooth, reconfigure, reauth, options | Home Assistant, which stores the entries and reloads them |
| entities (`sensor.py`, `switch.py`, ...) | restored state | show data, pass commands on | coordinator |
| diagnostics, tools, tests | none | | |

Everything runs on one asyncio loop, with three exceptions to "one thing at a
time": code between two awaits interleaves with every other task and callback;
what bleak and the radio do happens at any time; and the lambda of the settings
sweep, not being a `@callback`, runs in a worker thread.

What makes the components correct, and what is hard about it:

* **Transport**: a reference only to a live link, no link forgotten, everybody
  gets through the lock. Hard: drops, failures and disconnects between any two
  awaits of `async_connect`.
* **Availability and fallback**: available exactly while frames come, Bluetooth
  only after real silence, the link given back, nothing running after shutdown.
  Hard: two timers, two transports and attempts that outlive the outage they
  began in.
* **Listener**: one open socket, closed by the last entry or at the stop, and by
  nobody else.
  Hard: the entries' setups and unloads interleave around awaits.
* **Dialogue**: bounded answers, one sweep, each record once, no command while
  locked or above the rating, charges with the limit that is shown. Hard:
  repetition, loss and rebroadcast; state that changes between a request and its
  timer; a restart that restores the entities one by one.
* **Codec**: whole frames out of any chunking, no frame heard that one byte was
  changed in, and the stream found again after damage. Hard: a magic or a length split over
  two notifications, a magic inside a payload, frames that lost a part; a serial
  in several spellings.
* **Migration**: ids and names survive it, nothing is left twice. Hard: the loop
  changes what its snapshot shows, and a crash makes it run again on its own
  result.
* **Config flow**: a coordinator works with what its entry stores. Hard: forms
  and discovery write an entry whose setup, unload or reload is under way.

`PROJECT.json` lists all components, and under `hazards` each of these
difficulties at its line, with the property that covers it or the reason why
none does.

## Modules

| module | models | extends |
|---|---|---|
| `BleLink` | `BesenBleTransport`: lock, client, links | |
| `Fallback` | `BesenCoordinator`'s timers, frames, attempts, repair, shutdown, with the transport | `BleLink` |
| `Availability` | what entities are promised (abstract) | |
| `Listener` | the entries and their shared socket | |
| `Entries` | what the entries store; forms, discovery, and the reloads they cause | `Listener` |
| `Session` | the dialogue of one coordinator with its charger | |
| `Reassembler` | `FrameReassembler`: bytes of a Bluetooth link to frames | |
| `Codec` | serials, `build_frame` and `parse_frame` (operators only) | |
| `Inbound` | bytes of a Bluetooth link to what the coordinator hears | `Reassembler`, `Codec` |
| `Migration` | `async_migrate_entry` and the registries it rewrites | |
| `BleLinkProofs`, `FallbackProofs`, `ListenerProofs`, `EntriesProofs`, `SessionProofs`, `ReassemblerProofs`, `InboundProofs`, `MigrationProofs` | theorems | the component, `TLAPS` |
| `MCFallback`, `MCListener`, `MCEntries`, `MCSession`, `MCInbound`, `MCMigration` | instances for TLC | the component |

An action is the code between two awaits, all of it; in `Reassembler` and
`Migration`, whose code has none, it is a turn of a loop, and nothing else may
happen before the loop has ended. Definitions whose comment
begins with "Wrong:" are plausible bugs: each replaces the definition that
follows it to show that a property notices.

### BleLink

`async_connect` holds the lock over its awaits: `holder` is the attempt inside,
`step` what it awaits (`establish_connection`, `start_notify`, an unguarded
`client.disconnect()`, the second of sleep), `candidate` its local `client`.
`async_disconnect` takes the client under the lock and awaits
`client.disconnect()` outside: `closing[p]` says for whom. `link[p]` is the
radio's truth about each charger that answers to the name. `waiters` is the
queue of `asyncio.Lock`, first come first served. `LinkGone` is
`_handle_disconnect`, which forgets `self._client` whichever client it was
called for.

`is_connected` is not modelled apart from `_client`: bleak's callback is taken
to come with the drop. A charger accepts one connection, so that a link that is
up is not opened again. Consecutive disconnects of one caller in the queue are
one, since the second finds no client.

### Fallback

Each action conjoins the coordinator's part with the transport's. The watchdog
and the retry are countdowns, `Off` if not set; `Tick` lets time pass only when
no timer is due, and due timers and frames of the same moment come in any order.
`async_create_task` starts its coroutine at once (Home Assistant 2025.2 and
later, README.MD:40), so a disconnect caused by a frame runs to its first await
in that frame's action. `silence` and `provisions` are observers: the time since
the last frame, and the credentials written since the last datagram.
`writing` stands for all fire-and-forget Bluetooth writes together; each may
fail, and then disconnects whatever client is there by then. `handle_frame` is
left to answer or not: what is said is the business of `Session`. The coordinator
is registered at the stored listener only: that a second one, left by a race of
setups, may go on handing datagrams to it after its shutdown is seen in `Listener`
(`stale`) but not followed here.

The Bluetooth option is on in this module. An attempt that finds the lock free
at `async_shutdown` with no client does not suspend, so nothing can interleave
there.

### Listener

`entry[e]` is where an entry is between two awaits: `binding` inside
`create_datagram_endpoint`, `forwarding` and `unloading` inside the platforms'
setup and unload, `shutting` inside `async_shutdown`. `registry[l][e]` is the
coordinator that listener `l` routes entry `e`'s frames to; `stale` is one left
behind by an unload that found another listener stored. Entries have different
serials (the config flow's unique id).

A setup that waits for its socket when Home Assistant stops goes on afterwards
(`Bound` has no guard on `stopped`): its listener hooks an event that has gone by,
and its socket stays open. `OpenIsHooked` is therefore about the time before the
stop, and `StopClosesAll` about the stop itself.

### Entries

Each step of an entry's life conjoins the step of `Listener` with what it does to
`settings` (`entry.data`, `entry.options`) and to `built`, what the coordinator
was made with. The coordinator takes the password when it is made, before the
await of the socket, and the Bluetooth options when its transport is attached,
after it (`SetupFirstEntry`, `BoundEntry`). `watched` says that the update
listener is registered, which happens behind the await of the platforms; options
stored during that await are `missed` until somebody reloads the entry.
`reloads` counts what was asked for: by the listener whenever the entry changed,
and by `async_update_reload_and_abort` besides. `refused` is an entry of which a
platform would not unload: Home Assistant leaves it alone then.

Home Assistant is external: it stores entries (`Store`, `Create`), and runs one
setup or unload of an entry at a time; one that is asked for meanwhile waits. A
setup may serve a reload that was asked for (`SetupAsked`). Forms are one step
each, from the user's input to the entry: the validation does not wait for
anything. Only `bluetooth_confirm` and `reauth` stay open meanwhile, as
`confirming` and `reauth`; a second form of the same kind adds nothing. A coordinator that is left behind as `stale` asks for no
reauthentication any more. Discovery
compares the ending of the name with the serials, and writes the address if
exactly one entry matches.

### Session

Time is left out: the charger may go quiet whenever the sweep is not due, which
its 6 seconds against the 90 of the watchdog guarantee. `out` holds the frames
that the last callback handed to a transport; without a route `_send` drops
them. Sweeps over Bluetooth from the worker thread may be lost. The charger is
not in the repository; of it only the queue of records is modelled (external):
it uploads the oldest one until something is acknowledged, over a network that
loses but does not reorder. Values of the data are a few numbers: a rating, a
current, or none.

The energy limit stands for the three limits, which work in the same way.
`limitShown` is the value of its number entity in thousandths of a kWh, kept
over restarts; `limit` is the coordinator's, in hundredths, as `round` makes them
(`Rounded`: halves go to the even neighbour), and `None` for zero. `Restart` makes
a new coordinator, which knows nothing until its entities are added one by one
(`AddLimit`, `RestoreCurrent`, `SetUnlocked`). A sweep that is due at a restart
belongs to the old coordinator, which has no transport any more: it is dropped
from the state.

### Reassembler

`buffer` is `_buffer`; `feeding` says that `feed` is in its loop, of which each
branch is an action (`NoMagic`, `AwaitHeader`, `SkipMagic`, `AwaitFrame`,
`TakeFrame`). `Notify` appends a notification, any prefix of the bytes under way,
and enters it. The other variables are observers, for one connection: `Reset`
clears them with the buffer. `since` counts the bytes sent since something was
that is no frame, and `said` keeps the frames that began `MaxLen` bytes or more
behind it: those must be found again. Until the count is reached an undamaged
frame with a second magic in it begins it again (`Disturbs`). This is a limit of
the code: a reassembler that has lost its place may take the inner magic for a
beginning, and the false frame from there ends in the middle of the next one. TLC
shows it with the instance's third frame, whose payload is a plausible header:
after half a frame, every repetition of it is lost, and this goes on for as long as
nothing else comes. `Resynchronises` promises the frames behind `MaxLen` bytes of
frames without such a magic, and none before. `Whole` is what the reassembler
looks at in a piece, its first four bytes and its length; `Intact` says that only
such pieces were sent, damaged elsewhere or not. The reference definition
`Read` sees the bytes of the whole stream at once: the frame at the first header,
and then what is read of the bytes behind it. A frame's contents are never looked
at, as in `feed`; that it begins with the magic and its own length is
`FramesAssumption`.

### Codec and Inbound

`Codec` has the frame format as operators on sequences of bytes: `BuildFrame`,
`Checksum`, `Framed` and `Ours` for the five conditions of `parse_frame` and
`Content` for what it returns; `Normalised`, `SerialFits`, `FromHex` and `Hex` for
the spelling of serials. The password in a frame is the bytes of its field; that
`encode_password` refuses one that does not fit is in `Entries` (`Encodable`).
Lengths are parameters, so that an instance can have short frames.
`Inbound` puts `Ours` behind the reassembler: `Heard` is what the coordinator gets
of the frames that `feed` returned, and `SaidIsHeard` that those in `said` are
among them. The charger's frames are those of `BuildFrame`, with real checksums
and with 0xFF where a password would be (`protocol.py:9-11`); damage is a changed
byte, two bytes exchanged, a missing head or a missing tail.

The checksum is a plain sum, so that the model hears what the program would: the
frame with two bytes exchanged passes, although nobody said it. What is claimed is
what the sum can tell: a frame with a single byte changed is never heard
(`DamageUnheard`), and if that is behind its length it costs no other frame
(`DamageContained`).

### Migration

`entities` and `devices` are this entry's part of the two registries, `current`
is `entry.version >= 5`, `todo` the part of the loop's snapshot still to be
visited, in any order. Entity ids are classes: from the last label of 1.x, from
an earlier one, the id of 2.x, or anything else (`own`); in the same way a name
is the label in `V1_ENTITIES`, another one or none. `Restart` (external) loads
what was saved: both registries as of now or as of the last start, since Home
Assistant saves them with the same delay, and the entry on its own. `Starts` is
what earlier releases may have left; the serial is taken to be spelled in the
entry as in the unique ids.

Two things that the documents do not say are visible here. `_async_restore_entity_id`
moves an id that the user chose (`own`) to that of 1.x, if the entity has its new
unique id already and another one of the entry is from 1.x; that happens to
entries migrated by a pre-release, and when a migration is repeated. And a name
from an earlier label than the one in the table counts as the user's.

### Availability

The abstract specification: available from a frame until `Timeout` without one,
only while the entry is offered. `Fallback!Promise` is the refinement mapping:
`offered` is `life = "running"`, `quiet` is `silence`, cut off just above the
timeout so that being available a moment too long is a step that the
specification forbids.

## Runs

| run | checks | instance |
|---|---|---|
| `FallbackSafety` | `TypeOK`, `ReferenceIsLive`, `WatchdogRunning`, `SilentBeforeBluetooth`, `AvailabilityKept`, `OrphanedOnlyBy` | 2 attempts, 2 chargers, disconnects may raise; timeouts in units of 15 s; symmetry of the attempts |
| `FallbackRelease` | `NoOrphanLink`; under fairness `AttemptReturns`, `DisconnectWins`, `BluetoothReleased`, `ShutdownReturns` | 2 attempts, 1 charger, disconnects work; units of 30 s |
| `Listener` | `LoadedIsServed`, `OpenIsHooked`, `StoredIsOpen`, `CoordinatorCurrent`; under fairness `OutdatedGoes` | `Entries` with 2 entries, 2 listener objects, 2 passwords of which one can be encoded, one charger in range whose name fits both serials, one change of an entry |
| `Session` | `LoginAnswersBounded`, `SweepOnce`, `PublishedOnce`, `AcknowledgedPublished`, `StartHonoursLimit` | cap of 2 login frames, 3 records of which one is unreadable, 2 uploads and 2 answers under way; limits of 0, 0.004 and 0.25 kWh |
| `Reassembler` | `ChunkingIrrelevant`, `IntactDelivered`, `BufferBounded`, `DamageContained`, `DamageUnheard`, `Resynchronises`, `SaidIsHeard`, `SerialsRecognised`; under fairness `FeedReturns` | `Inbound` with 4 pieces: built frames of 13 to 17 bytes, one with a header inside and one with half of a magic, or noise, a false header, half a frame, one with a byte changed, one with two exchanged |
| `Migration` | `NoCollision`, `IdsKept`, `NamesKept`, `Settled` | 4010 registries: a renamed key with its 1.x entity, its replacement, both or a deleted one; a retired key; an unknown one; up to two devices |
| `FallbackOnce`, `FallbackAbandoned`, `FallbackShutdown`, `ListenerSockets`, `SessionLocked`, `SessionRating` | one documented statement each that the code does not keep | as above, with one attempt and one charger; `ListenerSockets` is of `Listener` alone |

The six runs that end in a violation:

* `OncePerOutage`: the credentials are written again in the same network outage,
  because a frame over Bluetooth resets `_wifi_repaired` (`coordinator.py:349`).
* `FallbackNeverAbandoned`: after a connection that breaks before the charger
  speaks, nothing tries again (`coordinator.py:397`).
* `ShutdownIsFinal`: an attempt in flight, or a frame during the awaited
  disconnect, sets a timer after `async_shutdown` (`coordinator.py:398`, `:340`).
* `OneSocket`: concurrent setups bind two sockets (`__init__.py:109`, `:135`).
* `LockedIsSilent`: the sweep writes the clock while commands are locked
  (`coordinator.py:522`).
* `StartWithinRating`: a charge starts with a current above the charger's rating
  (`coordinator.py:541`).

### Bounds

* *Attempts* (2): calls of `async_connect` that overlap. Overlap needs a retry
  timer that fires while an earlier attempt is inside; two already queue behind
  each other, behind and before disconnects. More cannot start in the model, and
  the safety properties are proved for any number.
* *Peers* (2): the configured charger and a stranger of the same name.
* *Timeouts*: 90, 120, 20 and 60 s as 6, 8, 2, 4 or as 3, 4, 1, 2, with the
  initial delay rounded up. Both keep every order between them.
* `MaxProvisions` stops the count of writes: 0 where no property reads it, 2
  where two writes are the point. `MaxCount` stops the counts of the exchange one
  above the cap.
* *Entries* and `Listeners` (2 each; 3 and 4 in `ListenerSockets`): every hazard
  here is between two setups or unloads. The socket properties and
  `CoordinatorCurrent` are proved for any number.
* `MaxChanges` (1): one change of an entry against everything that may be under
  way at that moment; for `CoordinatorCurrent` the proof has no bound.
* `Adverts` (1): a charger whose name fits two serials, so that discovery has to
  tell none, one and several matches apart.
* `RecordCount` (3), `MaxInFlight` (2): enough for a rebroadcast to overtake an
  acknowledgement and for an unreadable record between two readable ones.
* `MaxLoginFrames` (2 for 60): only the comparison with the count depends on it.
* `Limits`: none, one that rounds to none, and a proper one. `Ratings` is empty in
  `Session`, whose properties do not look at the rating; `SessionRating` has some.
* `MaxPieces` (4), frames of 13 to 17 bytes: serial and password have one byte each
  instead of 8 and 6, and no frame is longer than `MaxLen` 17 (512). A notification
  may hold the end of one piece, all of the next and the head of a third; after a
  damaged piece there is room for two short frames, which reach `MaxLen`, and for one
  that must be heard again, of any content. The bytes are those that matter: the magic's, lengths,
  checksums, filler.
* Serials typed in four right ways, one of another charger, and four that do not
  fit.
* *Keys* of `Migration` (1 renamed, 1 retired, 1 unknown): ids and unique ids
  belong to a key, so that keys meet only in `was_v1`, for which any second one
  will do. Restarts are not bounded.

Deadlock is checked except in `Listener`, where Home Assistant's stop with all
entries loaded is an end.

### Fairness

`Fallback!Fairness` says that the event loop runs due timers, resumes tasks whose
await has returned, that these awaits do return (each has a timeout in bleak or
in `establish_connection`), and that time passes. It says nothing of frames,
commands, drops of the link or `async_shutdown` being called: the charger may be
silent for ever, and the user idle. `AttemptReturns` and `DisconnectWins` need it
for tasks, `ShutdownReturns` for the disconnect's await too, and
`BluetoothReleased` in addition assumes, as its left side, that the network
carries the last frames for good. Its right side needs frames again after a
connection is finished, which "online for good" entails. `Reassembler!Spec` says
that `feed`, once called, goes on. `EntriesSpec` says that Home Assistant finishes the
setups and unloads it has begun and begins the reloads it was asked for
(`Proceed`); nothing of users, forms, discovery, or a socket that binds.
`Session` and `Migration` state no fairness and check no liveness.

## Proofs

All theorems hold for any constants that satisfy the modules' assumptions
(`BleAssumption`, `OwnAssumption`, `DelayAssumption`, `ListenerAssumption`,
`EntriesAssumption`, `SessionAssumption`, `ReassemblerAssumption`,
`FramesAssumption`, `InboundAssumption`, `MigrationAssumption`,
`StartsAssumption`).

* **`BleLinkProofs`**. `ReferenceIsLive` is not inductive: an attempt that
  subscribes replaces the reference. `LinkInv` adds `ConnectingAlone`, that no
  client is there while a connection is made, and that the lock's holder is the
  only one inside. `NoOrphanCorrect` adds `NoOrphanLink` itself, and needs one
  charger in range and disconnects that work: with a second charger, the callback
  of one link forgets the other's client, which TLC shows within seconds. What
  holds without these two conditions is `OrphanedOnlyBy`, an action property: a link
  is forgotten only by these two events. `OrphanStep` proves it action by action,
  and `NoOrphanCorrect` is the special case in which neither can occur.
* **`FallbackProofs`**. `ComposesTransport` proves that a step of the composition
  is a step of the transport or leaves it alone, which carries the theorems above
  over (`FallbackReference`, `FallbackNoOrphan`, `FallbackOrphaned`). `TimerInv` is behind both timer properties: what a timer has left and the
  silence so far add up to the timeout it stands for. It needs
  `OfflineTimeout < FallbackDelay <= OfflineTimeout + RetryInterval`: a retry
  queued by an attempt that fails while the charger is offline comes no earlier
  than the first attempt of this outage would. If somebody shortens
  `BLE_RETRY_INTERVAL` below 30 s, this is the assumption that no longer holds.
  `AvailabilityCorrect` is the refinement, step by step.
* **`ListenerProofs`**. `ListenerInv` is the three properties of the run and that
  the kept stop handle belongs to the stored listener (`HandleFits`). `StopCorrect`
  follows: the step of the stop leaves no socket open (`StopClosesAll`).
* **`EntriesProofs`**. `ImplementsListener` proves that a step of the entries is a
  step of `Listener` or leaves it alone, which carries its theorems over
  (`EntriesServed`). `CoordinatorCurrent` is about loaded entries only; its
  invariant `CurrentInv` has to follow a coordinator through the setup: the password
  is that of the entry, or a reload is asked for, from the moment it is made; so
  are the addresses, from the moment the transport is attached, unless they were
  missed; and a loaded entry is watched.
* **`SessionProofs`**. One invariant per property, over few variables, and lemmas
  that the other actions leave those alone. `LoginInv`: answers are the frames up to
  the cap. `SweepInv`: no sweep is due or run unless `_sweep_done` says so. `RecordInv`:
  what was published, what is under way and the charger's oldest record are one
  ascending sequence, in which only the last published one may be met again.
  `AcknowledgedPublished` needs `KnownInv` beside it: a record that is taken for known
  because of its id has been published by this coordinator, since `lastRecord` is
  zero after a restart and otherwise the id of one that it published.
  `LimitInv`: once the entity is there, the coordinator's limit is the rounded one.
* **`ReassemblerProofs`**. `BufferBounded` follows action by action once
  `TypeCorrect` is known: a buffer that is kept has no header yet or less than
  the plausible length that its header declares. `FirstMagic` is the lemma
  behind it, that `find` returns a place in the buffer.

  The others are about `Read`, which is recursive. That it satisfies its equation
  (`ReadEquation`) comes from `Recursion`: a function on sequences of bytes whose
  right-hand side looks only at shorter ones exists and is unique. It is proved
  from the least counterexample (`Shortest`), because the library's induction
  takes an operator as a parameter. `frames = Read[stream]` is not
  inductive: it says nothing of the bytes in the buffer. `ReadInv` is: whatever
  bytes x may come, reading the stream and then x gives the frames returned and
  what is read of the buffer and then x. Each turn of the loop is a lemma that
  this stays so (`NoMagicReads`, `AlignReads`, `SkipReads`, `TakeReads`), and of a
  buffer at rest nothing is read (`SettledUnread`).
  `IntactInv` says the same of the bytes sent: while they are whole pieces, these are
  read of them, and then what follows (`FrameReads`). `FoundInv` says it of a stream that was
  disturbed: behind what is lost, what is in `said` is read, and then the bytes
  that come, alone or behind the head of something that is no frame and has all
  bytes since the disturbance in it. As no frame is longer than `MaxLen`, that
  head is gone after as many bytes; `Absorbed` is the step with one more frame:
  the head takes all of it, or ends in it, and then the rest of it has no header,
  because the frame has no second magic: here the restriction in `Disturbs` is used.
  `SlicesInv` says where the bytes are from: the buffer is an end of the stream, and
  what was returned are slices of it, with the magic and the length they declare
  (`SlicesCorrect`). `TurnsShorten` is the safety half of `FeedReturns`: a turn of
  the loop that is not its last leaves less in the buffer.
* **`InboundProofs`**. `RoundTrip`: what `build_frame` assembles is what
  `parse_frame` accepts, and each field is the slice it was put into; the length
  and the checksum fit two bytes (`WordRead`, `ChecksumType`). So `FramesBuilt`
  shows that `FramesAssumption` is no more than what `build_frame` does, and
  `SaidCorrect` carries `Resynchronises` over to what the coordinator hears, with
  the same limit. `InboundAssumption` asks of a message only that it is of bytes and
  fits; the password field may hold any bytes, so that 0xFF is covered.
  `SerialsCorrect` rests on `HexFromHex`: a spelling in lower-case digits comes back
  from its bytes; `lower` leaves no capital.

  `DamageCorrect` is about the checksum. `TotalFollows`: a change of one byte changes
  the sum by as much, shown of the shortest sequence of which it could be wrong. One
  byte is less than the sum is taken modulo (`SumsDiffer`), so that `OneByteTold`
  holds: of two sequences of bytes that differ in one place, `parse_frame` refuses
  one, wherever the place is. What is heard are bytes, because it is a slice of the
  stream. `ContainedCorrect` puts this together with `IntactCorrect`: whole pieces
  are all returned, and those with one byte changed refused. Its special case with
  nothing damaged is `IntactHeard`.
* **`MigrationProofs`**. `MigrationInv` says that the registries, those in use and
  those that a crash would bring back, have no collisions and still have the ids
  and names that are promised (`Good`), and relates what is left of the loop's
  snapshot to the registry: an entity that has the id of an unvisited entry is
  that very entity, unchanged (`Snapshot`). Without this the loop could rename
  what it takes for somebody else. `SettledInv` adds that every entity is done or
  still to be visited, and that an entity's device is there. `StartsAssumption`
  is what Home Assistant's registries guarantee, and that an id belongs to one
  key.

Only model-checked: the liveness properties (`AttemptReturns`, `DisconnectWins`,
`BluetoothReleased`, `ShutdownReturns`, `OutdatedGoes`, `FeedReturns`), which are
out of the prover's reach. Nothing is claimed of damage that the sum does not tell.

## Not modelled

* Payloads field by field: `parse_ac_status` and the other parsers read fixed
  places, or give none when the payload is short; the builders write them. What
  they decide (rating, description, current, record id) is in `Session` as a
  choice.
* Conversions of times and the clock drift; the device registry refresh; the
  tables of texts and units.
* Entities that only show data or pass a command on (`sensor.py`,
  `binary_sensor.py`, `select.py`, `button.py`), diagnostics, logging, and the
  command line tools, which the integration does not use.
* Options that are read when they are needed and decide no more than an answer
  (`Session` has two as constants); the removal of an entry; exceptions of
  `async_forward_entry_setups`.
* White space other than blanks inside a typed serial, which `bytes.fromhex` skips.
* Memory races between the worker thread of the sweep and the event loop.
* The Bluetooth option being off removes all of `BleLink` and leaves
  `Availability`.

## Plan

Done: transport, fallback and availability; the listener, the entries and their
forms; the dialogue with its limits and restarts; reassembly, frames and serials;
the migration; and the proofs of all their safety properties.

What could follow:

1. Several coordinators behind one listener: `Entries` with `Fallback` as each
   entry's life, so that a reload meets a connection attempt under way.
2. Runs for two statements of the documents that the hazards list without a
   property: ids chosen by users through a repeated migration, and the times shown
   for the last record.
3. The builders and parsers of the payloads that undo each other, such as the
   Wi-Fi configuration.
