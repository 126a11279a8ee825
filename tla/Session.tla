------------------------------ MODULE Session ------------------------------
(***************************************************************************)
(* What one coordinator says to its charger, and why (coordinator.py): the *)
(* answers to frames, the login exchange, the settings sweep, the upload   *)
(* of charging records, and the commands of the entities with the lock on  *)
(* them.  How frames travel and when the charger counts as offline is the  *)
(* business of module Fallback: here it may go quiet at any time, and a    *)
(* frame reaches a transport or not.                                       *)
(*                                                                         *)
(* The charger itself is not in the repository.  Of it only the upload of  *)
(* records is modelled: it broadcasts its oldest record until something is *)
(* acknowledged, over a network that loses frames but keeps their order.   *)
(***************************************************************************)
EXTENDS Integers, Sequences

CONSTANTS
  MaxLoginFrames,   \* MAX_LOGIN_FRAMES
  Ratings,          \* what the login may report as rated current
  Amperes,          \* what users, restored states and status frames carry
  Limits,           \* what users set the energy limit to, in thousandths of a kWh
  SyncClock,        \* OPT_SYNC_CLOCK
  AckRecords,       \* OPT_ACK_RECORDS
  RecordCount,      \* records the charger holds
  Unreadable,       \* the records whose id does not decode
  MaxInFlight,      \* bound of the uploads, and of the answers, under way
  MaxCount          \* bound of the counts of frames, answers and sweeps

ASSUME SessionAssumption ==
  /\ MaxLoginFrames \in Nat
  /\ Ratings \subseteq Nat
  /\ Amperes \subseteq Nat
  /\ Limits \subseteq Nat
  /\ SyncClock \in BOOLEAN
  /\ AckRecords \in BOOLEAN
  /\ RecordCount \in Nat
  /\ Unreadable \subseteq 1..RecordCount
  /\ MaxInFlight \in Nat
  /\ MaxCount \in Nat
  /\ 0 < MaxLoginFrames /\ MaxLoginFrames < MaxCount

NoValue == -1         \* None: never reported, or a payload too short
DefaultRating == 32   \* rated_current without a usable report
Unlimited == 65535    \* LIMIT_UNLIMITED

VARIABLES
  online,       \* self._online
  route,        \* _send has a transport: Bluetooth, or the network and a host
  loginFrames,  \* self._login_frames
  sweepDone,    \* self._sweep_done
  sweepDue,     \* the sweep's timer is running (its handle is not kept)
  described,    \* a brand is known
  rated,        \* self._data["rated_current"]
  charging,     \* self._data["charging_current"]
  sessionMax,   \* self._data["session_max_current"]
  unlocked,     \* self._unlocked
  limit,        \* self.limit_energy
  limitShown,   \* the value of its number entity, kept over restarts
  limitAdded,   \* the number entity is set up
  lastRecord,   \* self._data["last_record_id"]
  out,          \* the frames the last callback handed to a transport
  answers,      \* login frames answered since the charger came online
  sweeps,       \* sweeps run since then
  events,       \* records that this coordinator published on the event bus, in order
  oldest,       \* the charger's oldest record, RecordCount + 1 if none is left
  uploads,      \* its uploads on their way
  acks          \* acknowledgements of records on their way

chargerVars == <<oldest, uploads, acks>>
dataVars == <<rated, charging, sessionMax, described>>
loginVars == <<loginFrames, sweepDone, sweepDue, answers, sweeps>>
limitVars == <<limit, limitShown, limitAdded>>
vars == <<online, route, unlocked, lastRecord, out, events, dataVars, loginVars, chargerVars,
          limitVars>>

TypeOK ==
  /\ online \in BOOLEAN /\ route \in BOOLEAN /\ unlocked \in BOOLEAN
  /\ loginFrames \in 0..MaxCount /\ answers \in 0..MaxCount /\ sweeps \in 0..MaxCount
  /\ sweepDone \in BOOLEAN /\ sweepDue \in BOOLEAN /\ described \in BOOLEAN
  /\ rated \in Ratings \cup {NoValue}
  /\ charging \in Amperes \cup {NoValue}
  /\ sessionMax \in Amperes \cup {NoValue}
  /\ lastRecord \in 0..RecordCount
  /\ events \in Seq(1..RecordCount)
  /\ oldest \in 1..(RecordCount + 1)
  /\ uploads \in Seq(1..RecordCount)
  /\ acks \in 0..MaxInFlight
  /\ limit \in Nat \cup {NoValue} /\ limitShown \in Nat /\ limitAdded \in BOOLEAN

Init ==
  /\ online = FALSE /\ route = FALSE /\ unlocked = TRUE
  /\ loginFrames = 0 /\ answers = 0 /\ sweeps = 0
  /\ sweepDone = FALSE /\ sweepDue = FALSE /\ described = FALSE
  /\ rated = NoValue /\ charging = NoValue /\ sessionMax = NoValue
  /\ lastRecord = 0 /\ events = <<>>
  /\ limit = NoValue /\ limitShown = 0 /\ limitAdded = FALSE
  /\ out = {}
  /\ oldest = 1 /\ uploads = <<>> /\ acks = 0

Frame(kind) == [kind |-> kind, amps |-> NoValue, limit |-> NoValue]
FrameFor(kind, amps) == [Frame(kind) EXCEPT !.amps = amps]

\* Frames that change something on the charger.
Commands == {"start", "stop", "current", "clock", "unit", "button", "wifi"}

\* _send: without a transport the frames are dropped with a warning.
Send(frames) == out' = IF route' THEN frames ELSE {}

Counted(n) == IF n < MaxCount THEN n + 1 ELSE n

\* rated_current
RatedCurrent == IF rated \in 1..125 THEN rated ELSE DefaultRating

\* `value or other', where None and 0 are both false.
Or(value, other) == IF value \in {NoValue, 0} THEN other ELSE value

----------------------------------------------------------------------------
(* handle_frame *)

\* _mark_online: a charger that was offline is asked to describe itself, or,
\* when it has done so, for the state of its button.
Greeting ==
  IF online THEN {}
  ELSE {Frame(IF described THEN "buttonQuery" ELSE "infoQuery")}

\* A frame of any kind: the exchange starts afresh if the charger was offline,
\* and the frame opens a route to answer on.
Heard ==
  /\ online' = TRUE
  /\ route' = TRUE

LoginFramesBefore == IF online THEN loginFrames ELSE 0

\* Wrong: one frame past the cap is answered.
AnsweredOneMore(n) == n <= MaxLoginFrames + 1

Answered(n) == n <= MaxLoginFrames

\* Wrong: only a sweep that is still due is remembered.
SweptUntilRun == online /\ sweepDue

Swept == online /\ sweepDone

\* parse_login: every field of the description is overwritten, also with None.
Description ==
  /\ rated' \in Ratings \cup {NoValue}
  /\ described' \in BOOLEAN

\* Both halves of the exchange are acknowledged; the confirm half is followed
\* by a query and the sweep.  Past the cap nothing is.
HearLogin(confirm) ==
  /\ Heard
  /\ Description
  /\ loginFrames' = Counted(LoginFramesBefore)
  /\ IF Answered(loginFrames')
     THEN /\ answers' = Counted(IF online THEN answers ELSE 0)
          /\ sweepDone' = (Swept \/ confirm)
          /\ sweepDue' = (sweepDue \/ (confirm /\ ~Swept))
          /\ Send(Greeting \cup {Frame("loginAck")}
                           \cup (IF confirm THEN {Frame("buttonQuery")} ELSE {}))
     ELSE /\ sweepDone' = Swept
          /\ UNCHANGED <<answers, sweepDue>>
          /\ Send(Greeting)
  /\ sweeps' = IF online THEN sweeps ELSE 0
  /\ UNCHANGED <<charging, sessionMax, unlocked, lastRecord, events, chargerVars, limitVars>>

\* What the other frames leave of the login exchange.
ExchangeKept ==
  /\ loginFrames' = LoginFramesBefore
  /\ sweepDone' = Swept
  /\ answers' = IF online THEN answers ELSE 0
  /\ sweeps' = IF online THEN sweeps ELSE 0
  /\ UNCHANGED sweepDue

\* parse_charge_status
SessionReport == sessionMax' \in Amperes \cup {NoValue}

HearChargeStatus ==
  /\ Heard
  /\ ExchangeKept
  /\ SessionReport
  /\ Send(Greeting \cup {Frame("ack")})
  /\ UNCHANGED <<rated, charging, described, unlocked, lastRecord, events, chargerVars, limitVars>>

\* Heartbeats and electrical status are answered; settings, unknown and broken
\* frames are not.
HearOther ==
  /\ Heard
  /\ ExchangeKept
  /\ \/ Send(Greeting \cup {Frame("ack")})
     \/ Send(Greeting)
  /\ UNCHANGED <<dataVars, unlocked, lastRecord, events, chargerVars, limitVars>>

\* Wrong: the id is not compared with the last one.
IsNewAlways(r) == r \notin Unreadable

\* Wrong: the first record after a restart is taken for one met before.
IsNewOnceKnown(r) == r \notin Unreadable /\ lastRecord # 0 /\ r # lastRecord

IsNew(r) == r \notin Unreadable /\ r # lastRecord

\* _handle_charge_record.  An id that does not decode is neither published nor
\* remembered, but it is acknowledged.
HearRecord ==
  /\ uploads # <<>>
  /\ Heard
  /\ ExchangeKept
  /\ LET r == Head(uploads)
     IN  /\ uploads' = Tail(uploads)
         /\ IF IsNew(r)
            THEN lastRecord' = r /\ events' = Append(events, r)
            ELSE UNCHANGED <<lastRecord, events>>
  /\ IF AckRecords
     THEN /\ acks < MaxInFlight
          /\ acks' = acks + 1
          /\ Send(Greeting \cup {Frame("recordAck")})
     ELSE UNCHANGED acks /\ Send(Greeting)
  /\ UNCHANGED <<dataVars, unlocked, oldest, limitVars>>

----------------------------------------------------------------------------
(* Timers and transports *)

\* The charger goes offline 90 seconds after a frame; the sweep, 6 seconds
\* after one, has run by then.
GoQuiet ==
  /\ online /\ ~sweepDue
  /\ online' = FALSE
  /\ out' = {}
  /\ UNCHANGED <<route, unlocked, lastRecord, events, dataVars, loginVars, chargerVars, limitVars>>

\* The Bluetooth link drops and the charger's address is not known.
LoseRoute ==
  /\ route
  /\ route' = FALSE
  /\ out' = {}
  /\ UNCHANGED <<online, unlocked, lastRecord, events, dataVars, loginVars, chargerVars, limitVars>>

\* async_request_settings.  The timer's lambda is no callback of the event loop
\* and runs in a worker thread, where the task of a Bluetooth write is refused.
Sweep ==
  /\ sweepDue
  /\ sweepDue' = FALSE
  /\ sweeps' = Counted(sweeps)
  /\ UNCHANGED route
  /\ \/ Send({Frame("unitQuery"), Frame("planQuery")}
               \cup (IF SyncClock THEN {Frame("clock")} ELSE {}))
     \/ out' = {}
  /\ UNCHANGED <<online, unlocked, lastRecord, events, dataVars, loginFrames, sweepDone,
                 answers, chargerVars, limitVars>>

----------------------------------------------------------------------------
(* Commands of the entities *)

\* _require_control, and what every command leaves alone.
Controlled ==
  /\ online /\ unlocked
  /\ UNCHANGED <<online, route, unlocked, lastRecord, events, rated, sessionMax, described,
                 loginVars, chargerVars, limitVars>>

StartCharge ==
  /\ Controlled
  /\ Send({[kind |-> "start", amps |-> Or(charging, Or(sessionMax, RatedCurrent)),
            limit |-> Or(limit, Unlimited)]})
  /\ UNCHANGED charging

\* The new value is shown at once, sent or not.
SetMaxCurrent ==
  /\ Controlled
  /\ \E a \in Amperes :
       /\ a \in 1..RatedCurrent
       /\ Send({FrameFor("current", a)})
       /\ charging' = a

\* async_stop_charge, async_sync_clock, async_set_temperature_unit,
\* async_set_button_start, async_provision_wifi
OtherCommand ==
  /\ Controlled
  /\ \E kind \in Commands \ {"start", "current"} : Send({Frame(kind)})
  /\ UNCHANGED charging

\* The switch of a user, and of the state restored when the entity is added.
SetUnlocked ==
  /\ unlocked' = ~unlocked
  /\ out' = {}
  /\ UNCHANGED <<online, route, lastRecord, events, dataVars, loginVars, chargerVars, limitVars>>

\* The charging current of the last run is restored if none is known.
RestoreCurrent ==
  /\ charging = NoValue
  /\ charging' \in Amperes
  /\ out' = {}
  /\ UNCHANGED <<online, route, unlocked, lastRecord, events, rated, sessionMax, described,
                 loginVars, chargerVars, limitVars>>

\* round(value * 100), which rounds halves to even.
Rounded(value) ==
  LET whole == value \div 10
      rest  == value % 10
  IN  IF rest > 5 \/ (rest = 5 /\ whole % 2 = 1) THEN whole + 1 ELSE whole

\* _push: zero is no limit.
Pushed(value) == IF value = 0 THEN NoValue ELSE Rounded(value)

\* Wrong: the restored value is shown, and not given to the coordinator.
AddLimitUnpushed ==
  /\ ~limitAdded
  /\ limitAdded' = TRUE
  /\ out' = {}
  /\ UNCHANGED <<online, route, unlocked, lastRecord, events, dataVars, loginVars, chargerVars,
                 limit, limitShown>>

\* The number entity is set up, with the value of the last run.
AddLimit ==
  /\ ~limitAdded
  /\ limitAdded' = TRUE
  /\ limit' = Pushed(limitShown)
  /\ out' = {}
  /\ UNCHANGED <<online, route, unlocked, lastRecord, events, dataVars, loginVars, chargerVars,
                 limitShown>>

SetLimit ==
  /\ limitAdded
  /\ limitShown' \in Limits
  /\ limit' = Pushed(limitShown')
  /\ out' = {}
  /\ UNCHANGED <<online, route, unlocked, lastRecord, events, dataVars, loginVars, chargerVars,
                 limitAdded>>

\* Home Assistant restarts or the entry is reloaded: there is a new coordinator,
\* which knows nothing.  (A sweep that the old one has left finds no transport.)
Restart ==
  /\ online' = FALSE /\ route' = FALSE /\ unlocked' = TRUE
  /\ loginFrames' = 0 /\ answers' = 0 /\ sweeps' = 0
  /\ sweepDone' = FALSE /\ sweepDue' = FALSE /\ described' = FALSE
  /\ rated' = NoValue /\ charging' = NoValue /\ sessionMax' = NoValue
  /\ lastRecord' = 0 /\ events' = <<>>
  /\ limit' = NoValue /\ limitAdded' = FALSE
  /\ out' = {}
  /\ UNCHANGED <<limitShown, chargerVars>>

----------------------------------------------------------------------------
(* The charger and the network (external) *)

NothingSaid ==
  /\ out' = {}
  /\ UNCHANGED <<online, route, unlocked, lastRecord, events, dataVars, loginVars, limitVars>>

Upload ==
  /\ oldest <= RecordCount
  /\ Len(uploads) < MaxInFlight
  /\ uploads' = Append(uploads, oldest)
  /\ UNCHANGED <<oldest, acks>>
  /\ NothingSaid

LoseUpload ==
  /\ uploads # <<>>
  /\ uploads' = Tail(uploads)
  /\ UNCHANGED <<oldest, acks>>
  /\ NothingSaid

\* The acknowledgement names no record: it is taken for the one being uploaded.
AckArrives ==
  /\ acks > 0
  /\ acks' = acks - 1
  /\ oldest' = IF oldest <= RecordCount THEN oldest + 1 ELSE oldest
  /\ UNCHANGED uploads
  /\ NothingSaid

LoseAck ==
  /\ acks > 0
  /\ acks' = acks - 1
  /\ UNCHANGED <<oldest, uploads>>
  /\ NothingSaid

----------------------------------------------------------------------------

Next ==
  \/ HearLogin(TRUE) \/ HearLogin(FALSE)
  \/ HearChargeStatus \/ HearOther \/ HearRecord
  \/ GoQuiet \/ LoseRoute \/ Sweep
  \/ StartCharge \/ SetMaxCurrent \/ OtherCommand \/ SetUnlocked \/ RestoreCurrent
  \/ AddLimit \/ SetLimit \/ Restart
  \/ Upload \/ LoseUpload \/ AckArrives \/ LoseAck

Spec == Init /\ [][Next]_vars

----------------------------------------------------------------------------
(* What must hold *)

\* However a charger repeats the login exchange, it is answered a bounded
\* number of times while it stays online, and the first answers are not spared.
LoginAnswersBounded ==
  /\ answers <= MaxLoginFrames
  /\ online => (loginFrames <= MaxLoginFrames => answers = loginFrames)

\* The settings are swept once in an online period, although every confirm
\* frame asks for it and the timer's handle is not kept.
SweepOnce == online => sweeps + (IF sweepDue THEN 1 ELSE 0) <= 1

\* A coordinator publishes a record once, in the order of the charger's queue,
\* however often it is broadcast and whichever acknowledgements are lost.
PublishedOnce == \A i \in 1..Len(events) - 1 : events[i] < events[i + 1]

\* "Every record is published as an event before it is acknowledged" (README.MD), by
\* this coordinator: also one that is taken for known, after restarts and whatever
\* was acknowledged for another.  Only ids that do not decode are no events.
AcknowledgedPublished ==
  [][acks' > acks =>
       LET r == Head(uploads)
       IN  r \in Unreadable \/ \E i \in 1..Len(events') : events'[i] = r]_vars

\* A charge is started with the energy limit that the number entity shows, 0xFFFF
\* if it is (or rounds to) none: also after a restart, as soon as it is shown.
StartHonoursLimit ==
  \A frame \in out : frame.kind = "start" /\ limitAdded =>
    frame.limit = (IF Rounded(limitShown) = 0 THEN Unlimited ELSE Rounded(limitShown))

----------------------------------------------------------------------------
(* What the documents say and the code does not do *)

\* "while off, no command is sent to the charger" (BesenUnlockSwitch)
LockedIsSilent == ~unlocked => \A frame \in out : frame.kind \notin Commands

\* The rating the charger reported "bounds the current control" (rated_current).
StartWithinRating == \A frame \in out : frame.kind = "start" => frame.amps <= RatedCurrent
=============================================================================
