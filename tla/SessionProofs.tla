---------------------------- MODULE SessionProofs ----------------------------
(***************************************************************************)
(* Proofs about Session, for every cap, every set of ratings, currents and *)
(* limits, every number of records and every bound of the counters.  Each  *)
(* property has an inductive invariant of its own, over the few variables  *)
(* it is about; the actions that leave those alone are one step of it.     *)
(***************************************************************************)
EXTENDS Session, TLAPS

\* The frames that are heard, but for the login and the records.
HearPlain == HearChargeStatus \/ HearOther

\* Steps that no login, sweep or record takes part in.
Aside ==
  \/ LoseRoute \/ StartCharge \/ SetMaxCurrent \/ OtherCommand
  \/ SetUnlocked \/ RestoreCurrent \/ AddLimit \/ SetLimit

Charger == Upload \/ LoseUpload \/ AckArrives \/ LoseAck

LEMMA NextCases ==
  ASSUME Next
  PROVE  \/ HearLogin(TRUE) \/ HearLogin(FALSE) \/ HearPlain \/ HearRecord
         \/ GoQuiet \/ Sweep \/ Aside \/ Restart \/ Charger
BY DEF Next, HearPlain, Aside, Charger

\* A step aside leaves the exchange, the upload and the charger alone.
LEMMA AsideKeeps ==
  ASSUME Aside
  PROVE  UNCHANGED <<online, loginVars, lastRecord, events, chargerVars>>
<1>1. CASE LoseRoute
  BY <1>1 DEF LoseRoute
<1>2. CASE StartCharge \/ SetMaxCurrent \/ OtherCommand
  BY <1>2 DEF StartCharge, SetMaxCurrent, OtherCommand, Controlled
<1>3. CASE SetUnlocked \/ RestoreCurrent
  BY <1>3 DEF SetUnlocked, RestoreCurrent
<1>4. CASE AddLimit \/ SetLimit
  BY <1>4 DEF AddLimit, SetLimit
<1> QED
  BY <1>1, <1>2, <1>3, <1>4 DEF Aside

\* What the charger and the network do leaves the coordinator alone.
LEMMA ChargerKeeps ==
  ASSUME Charger
  PROVE  /\ UNCHANGED <<online, route, unlocked, lastRecord, events, dataVars, loginVars, limitVars>>
         /\ out' = {}
BY DEF Charger, Upload, LoseUpload, AckArrives, LoseAck, NothingSaid

----------------------------------------------------------------------------
(* The login exchange *)

Least(a, b) == IF a <= b THEN a ELSE b

\* While the charger is online, the answers are the frames up to the cap.
LoginInv ==
  /\ loginFrames \in 0..MaxCount
  /\ answers \in 0..MaxLoginFrames
  /\ online => answers = Least(loginFrames, MaxLoginFrames)

LEMMA LoginStep ==
  ASSUME LoginInv, NEW confirm \in BOOLEAN, HearLogin(confirm)
  PROVE  LoginInv'
<1> DEFINE before == LoginFramesBefore
           said == IF online THEN answers ELSE 0
<1>1. /\ MaxLoginFrames \in Nat /\ MaxCount \in Nat
      /\ 0 < MaxLoginFrames /\ MaxLoginFrames < MaxCount
  BY SessionAssumption
<1>2. before \in 0..MaxCount /\ said = Least(before, MaxLoginFrames)
  BY <1>1 DEF LoginInv, LoginFramesBefore, Least
<1>3. loginFrames' = Counted(before) /\ online' = TRUE
  BY DEF HearLogin, Heard
<1>4. loginFrames' \in 0..MaxCount
  BY <1>1, <1>2, <1>3 DEF Counted
<1>5. ASSUME Answered(loginFrames')
      PROVE  answers' = loginFrames' /\ loginFrames' <= MaxLoginFrames
  <2>1. answers' = Counted(said)
    BY <1>5 DEF HearLogin
  <2>2. loginFrames' <= MaxLoginFrames
    BY <1>5 DEF Answered
  <2>3. before < MaxLoginFrames
    BY <2>2, <1>1, <1>2, <1>3 DEF Counted
  <2> QED
    BY <2>1, <2>2, <2>3, <1>1, <1>2, <1>3 DEF Counted, Least
<1>6. ASSUME ~Answered(loginFrames')
      PROVE  answers' = MaxLoginFrames /\ loginFrames' > MaxLoginFrames
  <2>1. answers' = answers
    BY <1>6 DEF HearLogin
  <2>2. loginFrames' > MaxLoginFrames
    BY <1>6, <1>1, <1>4 DEF Answered
  <2>3. before >= MaxLoginFrames
    BY <2>2, <1>1, <1>2, <1>3 DEF Counted
  <2>4. online
    BY <2>3, <1>1 DEF LoginFramesBefore
  <2> QED
    BY <2>1, <2>2, <2>3, <2>4, <1>1, <1>2 DEF Least
<1>7. CASE Answered(loginFrames')
  BY <1>7, <1>5, <1>4, <1>3, <1>1 DEF LoginInv, Least
<1>8. CASE ~Answered(loginFrames')
  BY <1>8, <1>6, <1>4, <1>3, <1>1 DEF LoginInv, Least
<1> QED
  BY <1>7, <1>8

\* The other frames keep the counts, or begin them again.
LEMMA LoginKept ==
  ASSUME LoginInv, Heard, ExchangeKept
  PROVE  LoginInv'
<1>1. 0 < MaxLoginFrames /\ MaxLoginFrames \in Nat /\ MaxCount \in Nat
  BY SessionAssumption
<1>2. CASE online
  BY <1>1, <1>2 DEF LoginInv, Heard, ExchangeKept, LoginFramesBefore, Least
<1>3. CASE ~online
  BY <1>1, <1>3 DEF LoginInv, Heard, ExchangeKept, LoginFramesBefore, Least
<1> QED
  BY <1>2, <1>3

\* However often a charger repeats the login exchange, it is answered at most
\* MAX_LOGIN_FRAMES times in an online period, and every frame up to that cap is.
THEOREM LoginCorrect == Spec => []LoginAnswersBounded
<1>1. Init => LoginInv
  BY SessionAssumption DEF Init, LoginInv, Least
<1>2. LoginInv /\ [Next]_vars => LoginInv'
  <2> SUFFICES ASSUME LoginInv, [Next]_vars PROVE LoginInv'
    OBVIOUS
  <2>1. CASE HearLogin(TRUE) \/ HearLogin(FALSE)
    BY <2>1, LoginStep
  <2>2. CASE HearPlain \/ HearRecord
    BY <2>2, LoginKept DEF HearPlain, HearChargeStatus, HearOther, HearRecord
  <2>3. CASE GoQuiet
    BY <2>3 DEF GoQuiet, loginVars, LoginInv
  <2>4. CASE Sweep
    BY <2>4 DEF Sweep, LoginInv
  <2>5. CASE Aside
    BY <2>5, AsideKeeps DEF loginVars, LoginInv
  <2>6. CASE Charger
    BY <2>6, ChargerKeeps DEF loginVars, LoginInv
  <2>7. CASE Restart
    BY <2>7, SessionAssumption DEF Restart, LoginInv, Least
  <2>8. CASE UNCHANGED vars
    BY <2>8 DEF vars, loginVars, LoginInv
  <2> QED
    BY <2>1, <2>2, <2>3, <2>4, <2>5, <2>6, <2>7, <2>8, NextCases
<1>3. LoginInv => LoginAnswersBounded
  BY SessionAssumption DEF LoginInv, LoginAnswersBounded, Least
<1> QED
  BY <1>1, <1>2, <1>3, PTL DEF Spec

----------------------------------------------------------------------------
(* The settings sweep *)

\* The flag stands for a sweep that is due or has run; the timer does not
\* outlive an online period.
SweepInv ==
  /\ sweeps \in Nat
  /\ online \in BOOLEAN /\ sweepDone \in BOOLEAN /\ sweepDue \in BOOLEAN
  /\ sweepDue => online /\ sweepDone /\ sweeps = 0
  /\ online => sweeps <= 1
  /\ online /\ sweeps > 0 => sweepDone

LEMMA SweepStep ==
  ASSUME SweepInv, NEW confirm \in BOOLEAN, HearLogin(confirm)
  PROVE  SweepInv'
<1>1. /\ online' = TRUE
      /\ sweeps' = IF online THEN sweeps ELSE 0
  BY DEF HearLogin, Heard
<1>2. CASE Answered(loginFrames')
  <2>1. /\ sweepDone' = (Swept \/ confirm)
        /\ sweepDue' = (sweepDue \/ (confirm /\ ~Swept))
    BY <1>2 DEF HearLogin
  <2>2. CASE online
    BY <2>1, <2>2, <1>1 DEF SweepInv, Swept
  <2>3. CASE ~online
    BY <2>1, <2>3, <1>1 DEF SweepInv, Swept
  <2> QED
    BY <2>2, <2>3
<1>3. CASE ~Answered(loginFrames')
  <2>1. sweepDone' = Swept /\ sweepDue' = sweepDue
    BY <1>3 DEF HearLogin
  <2> QED
    BY <2>1, <1>1 DEF SweepInv, Swept
<1> QED
  BY <1>2, <1>3

LEMMA SweepKept ==
  ASSUME SweepInv, Heard, ExchangeKept
  PROVE  SweepInv'
BY DEF SweepInv, Heard, ExchangeKept, Swept

\* Although every confirm frame asks for it and its timer's handle is not kept,
\* the settings sweep is due or run at most once in an online period.
THEOREM SweepCorrect == Spec => []SweepOnce
<1>1. Init => SweepInv
  <2>1. ASSUME Init
        PROVE  sweeps = 0 /\ online = FALSE /\ sweepDone = FALSE /\ sweepDue = FALSE
    BY <2>1, Zenon DEF Init
  <2> QED
    BY <2>1 DEF SweepInv
<1>2. SweepInv /\ [Next]_vars => SweepInv'
  <2> SUFFICES ASSUME SweepInv, [Next]_vars PROVE SweepInv'
    OBVIOUS
  <2>1. CASE HearLogin(TRUE) \/ HearLogin(FALSE)
    BY <2>1, SweepStep
  <2>2. CASE HearPlain \/ HearRecord
    BY <2>2, SweepKept DEF HearPlain, HearChargeStatus, HearOther, HearRecord
  <2>3. CASE GoQuiet
    BY <2>3 DEF GoQuiet, loginVars, SweepInv
  <2>4. CASE Sweep
    <3>1. sweeps' = Counted(sweeps) /\ sweepDue' = FALSE /\ UNCHANGED <<online, sweepDone>>
      BY <2>4, Zenon DEF Sweep
    <3>2. sweepDone /\ sweeps = 0
      <4>1. sweepDue
        BY <2>4, Zenon DEF Sweep
      <4> QED
        BY <4>1, Zenon DEF SweepInv
    <3>3. sweeps' \in 0..1
      BY <3>1, <3>2, SessionAssumption DEF Counted
    <3>4. sweeps' \in Nat /\ sweeps' <= 1
      BY <3>3
    <3> QED
      BY <3>1, <3>2, <3>4, Zenon DEF SweepInv
  <2>5. CASE Aside
    BY <2>5, AsideKeeps DEF loginVars, SweepInv
  <2>6. CASE Charger
    BY <2>6, ChargerKeeps DEF loginVars, SweepInv
  <2>7. CASE Restart
    BY <2>7 DEF Restart, SweepInv
  <2>8. CASE UNCHANGED vars
    BY <2>8 DEF vars, loginVars, SweepInv
  <2> QED
    BY <2>1, <2>2, <2>3, <2>4, <2>5, <2>6, <2>7, <2>8, NextCases
<1>3. SweepInv => SweepOnce
  BY DEF SweepInv, SweepOnce
<1> QED
  BY <1>1, <1>2, <1>3, PTL DEF Spec

----------------------------------------------------------------------------
(* The upload of records *)

\* The queue of uploads under way is sorted, between the last record heard of
\* and the oldest that the charger has; what was published is sorted below it.
RecordInv ==
  /\ uploads \in Seq(1..RecordCount)
  /\ events \in Seq(1..RecordCount)
  /\ oldest \in 1..RecordCount + 1
  /\ lastRecord \in Nat /\ lastRecord <= oldest
  /\ \A i \in 1..Len(uploads) : lastRecord <= uploads[i] /\ uploads[i] <= oldest
  /\ \A i, j \in 1..Len(uploads) : i <= j => uploads[i] <= uploads[j]
  /\ \A i \in 1..Len(events) : events[i] <= lastRecord
  /\ PublishedOnce

\* The queue without its head.
LEMMA QueueTail ==
  ASSUME uploads \in Seq(1..RecordCount), uploads # <<>>
  PROVE  /\ Tail(uploads) \in Seq(1..RecordCount)
         /\ Len(Tail(uploads)) = Len(uploads) - 1
         /\ \A i \in 1..Len(Tail(uploads)) : Tail(uploads)[i] = uploads[i + 1]
         /\ Len(uploads) \in Nat /\ Len(uploads) > 0
         /\ Head(uploads) = uploads[1] /\ Head(uploads) \in 1..RecordCount
BY SessionAssumption

LEMMA QueueShorter ==
  ASSUME RecordInv, uploads # <<>>,
         uploads' = Tail(uploads), UNCHANGED <<oldest, lastRecord, events>>
  PROVE  RecordInv'
<1> USE DEF RecordInv
<1>1. /\ uploads' \in Seq(1..RecordCount)
      /\ Len(uploads') = Len(uploads) - 1
      /\ \A i \in 1..Len(uploads') : uploads'[i] = uploads[i + 1]
      /\ Len(uploads) \in Nat
  BY QueueTail
<1>2. \A i \in 1..Len(uploads') : lastRecord <= uploads'[i] /\ uploads'[i] <= oldest
  BY <1>1
<1>3. \A i, j \in 1..Len(uploads') : i <= j => uploads'[i] <= uploads'[j]
  BY <1>1
<1> QED
  BY <1>1, <1>2, <1>3 DEF PublishedOnce

LEMMA RecordStep ==
  ASSUME RecordInv, HearRecord
  PROVE  RecordInv'
<1> DEFINE r == Head(uploads)
<1>1. /\ uploads # <<>> /\ uploads' = Tail(uploads) /\ oldest' = oldest
      /\ IF IsNew(r)
         THEN lastRecord' = r /\ events' = Append(events, r)
         ELSE UNCHANGED <<lastRecord, events>>
  BY DEF HearRecord
<1>2. CASE ~IsNew(r)
  BY <1>1, <1>2, QueueShorter
<1>3. CASE IsNew(r)
  <2>1. /\ uploads' \in Seq(1..RecordCount)
        /\ Len(uploads') = Len(uploads) - 1
        /\ \A i \in 1..Len(uploads') : uploads'[i] = uploads[i + 1]
        /\ Len(uploads) \in Nat /\ Len(uploads) > 0
        /\ r = uploads[1] /\ r \in 1..RecordCount
    BY <1>1, QueueTail DEF RecordInv
  <2>2. lastRecord' = r /\ events' = Append(events, r)
    BY <1>1, <1>3
  <2>3. r \in Nat /\ lastRecord \in Nat /\ oldest \in Nat /\ lastRecord < r /\ r <= oldest
    BY <1>3, <2>1, SessionAssumption DEF RecordInv, IsNew
  <2>4. /\ \A i \in 1..Len(uploads') : r <= uploads'[i] /\ uploads'[i] <= oldest
        /\ \A i, j \in 1..Len(uploads') : i <= j => uploads'[i] <= uploads'[j]
    <3>1. \A i \in 1..Len(uploads') : i + 1 \in 1..Len(uploads)
      BY <2>1
    <3>2. /\ \A i \in 1..Len(uploads) : r <= uploads[i] /\ uploads[i] <= oldest
          /\ \A i, j \in 1..Len(uploads) : i <= j => uploads[i] <= uploads[j]
      <4>1. 1 \in 1..Len(uploads)
        BY <2>1
      <4> QED
        BY <4>1, <2>1 DEF RecordInv
    <3> HIDE DEF r
    <3>3. \A i, j \in 1..Len(uploads') : i <= j => i + 1 <= j + 1
      OBVIOUS
    <3> QED
      BY <3>1, <3>2, <3>3, <2>1, Zenon
  <2>5. /\ events' \in Seq(1..RecordCount)
        /\ Len(events) \in Nat /\ Len(events') = Len(events) + 1
        /\ \A i \in 1..Len(events) : events'[i] = events[i] /\ events[i] \in Nat
        /\ events'[Len(events) + 1] = r
    BY <2>1, <2>2, SessionAssumption DEF RecordInv
  <2>6. \A i \in 1..Len(events') : events'[i] <= r
    <3>1. \A i \in 1..Len(events) : events[i] <= lastRecord
      BY DEF RecordInv
    <3> QED
      BY <2>3, <2>5, <3>1, SMTT(30)
  <2>7. \A i \in 1..Len(events') - 1 : events'[i] < events'[i + 1]
    BY <2>3, <2>5 DEF RecordInv, PublishedOnce
  <2> QED
    BY <1>1, <2>1, <2>2, <2>3, <2>4, <2>5, <2>6, <2>7 DEF RecordInv, PublishedOnce
<1> QED
  BY <1>2, <1>3

LEMMA UploadStep ==
  ASSUME RecordInv, Upload
  PROVE  RecordInv'
<1>1. /\ uploads' = Append(uploads, oldest) /\ oldest <= RecordCount
      /\ UNCHANGED <<oldest, lastRecord, events>>
  BY DEF Upload, NothingSaid
<1>2. oldest \in 1..RecordCount /\ lastRecord \in Nat /\ lastRecord <= oldest
  BY <1>1, SessionAssumption DEF RecordInv
<1>3. /\ uploads' \in Seq(1..RecordCount)
      /\ Len(uploads) \in Nat /\ Len(uploads') = Len(uploads) + 1
      /\ \A i \in 1..Len(uploads) : uploads'[i] = uploads[i] /\ uploads[i] \in Nat
      /\ uploads'[Len(uploads) + 1] = oldest
  BY <1>1, <1>2, SessionAssumption DEF RecordInv
<1>4. \A i \in 1..Len(uploads') : lastRecord <= uploads'[i] /\ uploads'[i] <= oldest
  BY <1>2, <1>3, SMTT(30) DEF RecordInv
<1>5. \A i, j \in 1..Len(uploads') : i <= j => uploads'[i] <= uploads'[j]
  BY <1>2, <1>3, SMTT(30) DEF RecordInv
<1> QED
  BY <1>1, <1>3, <1>4, <1>5 DEF RecordInv, PublishedOnce

\* It holds in every state that is reached.
LEMMA RecordInvCorrect == Spec => []RecordInv
<1>1. Init => RecordInv
  BY SessionAssumption DEF Init, RecordInv, PublishedOnce
<1>2. RecordInv /\ [Next]_vars => RecordInv'
  <2> SUFFICES ASSUME RecordInv, [Next]_vars PROVE RecordInv'
    OBVIOUS
  <2>1. CASE HearLogin(TRUE) \/ HearLogin(FALSE)
    BY <2>1 DEF HearLogin, chargerVars, RecordInv, PublishedOnce
  <2>2. CASE HearPlain
    BY <2>2 DEF HearPlain, HearChargeStatus, HearOther, chargerVars, RecordInv, PublishedOnce
  <2>3. CASE HearRecord
    BY <2>3, RecordStep
  <2>4. CASE GoQuiet \/ Sweep
    BY <2>4 DEF GoQuiet, Sweep, chargerVars, RecordInv, PublishedOnce
  <2>5. CASE Aside
    BY <2>5, AsideKeeps DEF chargerVars, RecordInv, PublishedOnce
  <2>6. CASE Restart
    <3>1. lastRecord' = 0 /\ events' = <<>> /\ UNCHANGED <<oldest, uploads>>
      BY <2>6 DEF Restart, chargerVars
    <3> QED
      BY <3>1, SessionAssumption DEF RecordInv, PublishedOnce
  <2>7. CASE Upload
    BY <2>7, UploadStep
  <2>8. CASE LoseUpload
    BY <2>8, QueueShorter DEF LoseUpload, NothingSaid
  <2>9. CASE AckArrives \/ LoseAck
    <3>1. /\ oldest' = oldest \/ (oldest <= RecordCount /\ oldest' = oldest + 1)
          /\ UNCHANGED <<uploads, lastRecord, events>>
      BY <2>9 DEF AckArrives, LoseAck, NothingSaid
    <3> QED
      BY <3>1, SessionAssumption DEF RecordInv, PublishedOnce
  <2>10. CASE UNCHANGED vars
    BY <2>10 DEF vars, chargerVars, RecordInv, PublishedOnce
  <2> QED
    BY <2>1, <2>2, <2>3, <2>4, <2>5, <2>6, <2>7, <2>8, <2>9, <2>10, NextCases DEF Charger
<1> QED
  BY <1>1, <1>2, PTL DEF Spec

\* A coordinator publishes no record twice and none out of order, whatever is
\* lost, broadcast again or acknowledged for another.
THEOREM PublishedCorrect == Spec => []PublishedOnce
<1>1. RecordInv => PublishedOnce
  BY DEF RecordInv
<1> QED
  BY <1>1, RecordInvCorrect, PTL

\* Only what was published is taken for a record met before.
KnownPublished == lastRecord # 0 => \E i \in 1..Len(events) : events[i] = lastRecord

KnownInv == acks \in Nat /\ KnownPublished

\* A record that is heard has been published or is now, or its id does not decode.
LEMMA RecordPublished ==
  ASSUME RecordInv, KnownPublished, HearRecord
  PROVE  /\ Head(uploads) \in Unreadable \/ \E i \in 1..Len(events') : events'[i] = Head(uploads)
         /\ KnownPublished'
<1> DEFINE r == Head(uploads)
<1>1. /\ uploads # <<>>
      /\ IF IsNew(r)
         THEN lastRecord' = r /\ events' = Append(events, r)
         ELSE UNCHANGED <<lastRecord, events>>
  BY DEF HearRecord
<1>2. r \in 1..RecordCount /\ r # 0
  BY <1>1, QueueTail, SessionAssumption DEF RecordInv
<1> HIDE DEF r
<1>3. CASE IsNew(r)
  <2>1. lastRecord' = r /\ events' = Append(events, r) /\ events \in Seq(1..RecordCount)
    BY <1>1, <1>3 DEF RecordInv
  <2>2. Len(events') \in 1..Len(events') /\ events'[Len(events')] = r
    BY <2>1, <1>2
  <2> QED
    BY <2>1, <2>2 DEF KnownPublished, r
<1>4. CASE ~IsNew(r)
  <2>1. UNCHANGED <<lastRecord, events>>
    BY <1>1, <1>4
  <2>2. r \in Unreadable \/ r = lastRecord
    BY <1>4 DEF IsNew
  <2> QED
    BY <2>1, <2>2, <1>2 DEF KnownPublished, r
<1> QED
  BY <1>3, <1>4

\* No record is acknowledged that this coordinator has not published, but those
\* whose ids do not decode: also the first one met after a restart.
THEOREM AcknowledgedCorrect == Spec => AcknowledgedPublished
<1> DEFINE Published ==
             Head(uploads) \in Unreadable \/ \E i \in 1..Len(events') : events'[i] = Head(uploads)
<1>1. Init => KnownInv
  BY DEF Init, KnownInv, KnownPublished
<1>2. \/ HearLogin(TRUE) \/ HearLogin(FALSE) \/ HearPlain \/ GoQuiet \/ Sweep \/ Aside
        => UNCHANGED <<lastRecord, events, acks>>
  <2>1. Aside => UNCHANGED <<lastRecord, events, acks>>
    BY AsideKeeps DEF chargerVars
  <2> QED
    BY <2>1
    DEF HearLogin, HearPlain, HearChargeStatus, HearOther, GoQuiet, Sweep, chargerVars
<1>3. Charger => UNCHANGED <<lastRecord, events>> /\ (acks' = acks \/ (acks > 0 /\ acks' = acks - 1))
  BY DEF Charger, Upload, LoseUpload, AckArrives, LoseAck, NothingSaid
<1>4. ASSUME RecordInv, KnownInv, [Next]_vars
      PROVE  KnownInv' /\ [acks' > acks => Published]_vars
  <2> HIDE DEF Published
  <2>1. CASE HearRecord
    <3>1. acks' \in Nat
      BY <2>1, <1>4 DEF HearRecord, KnownInv
    <3> QED
      BY <2>1, <3>1, <1>4, RecordPublished DEF KnownInv, Published
  <2>2. CASE Restart
    <3>1. lastRecord' = 0 /\ acks' = acks
      BY <2>2 DEF Restart, chargerVars
    <3> QED
      BY <3>1, <1>4 DEF KnownInv, KnownPublished
  <2>3. CASE UNCHANGED <<lastRecord, events, acks>>
    BY <2>3, <1>4 DEF KnownInv, KnownPublished
  <2>4. CASE Charger
    <3>1. acks' \in Nat /\ ~(acks' > acks)
      BY <2>4, <1>3, <1>4 DEF KnownInv
    <3> QED
      BY <2>4, <3>1, <1>3, <1>4 DEF KnownInv, KnownPublished
  <2>5. CASE UNCHANGED vars
    <3>1. UNCHANGED <<lastRecord, events, acks>>
      BY <2>5 DEF vars, chargerVars
    <3> QED
      BY <2>3, <3>1
  <2>6. CASE Next
    BY <2>1, <2>2, <2>3, <2>4, <2>6, <1>2, NextCases
  <2> QED
    BY <2>5, <2>6, <1>4
<1>5. [acks' > acks => Published]_vars
        => [acks' > acks =>
              LET r == Head(uploads)
              IN  r \in Unreadable \/ \E i \in 1..Len(events') : events'[i] = r]_vars
  OBVIOUS
<1> HIDE DEF Published
<1> QED
  BY <1>1, <1>4, <1>5, RecordInvCorrect, PTL DEF Spec, AcknowledgedPublished

----------------------------------------------------------------------------
(* The energy limit *)

\* What the number entity shows is what the coordinator has, once it is set up.
LimitInv ==
  /\ limitShown \in Nat
  /\ limitAdded => limit = Pushed(limitShown)
  /\ StartHonoursLimit

LEMMA RoundedNat == \A n \in Nat : Rounded(n) \in Nat
BY DEF Rounded

\* The frame of a start, for what is shown.
LEMMA StartLimit ==
  ASSUME limitShown \in Nat, limit = Pushed(limitShown)
  PROVE  Or(limit, Unlimited) =
           (IF Rounded(limitShown) = 0 THEN Unlimited ELSE Rounded(limitShown))
<1>1. Rounded(limitShown) \in Nat
  BY RoundedNat
<1>2. CASE limitShown = 0
  <2>1. Rounded(0) = 0
    BY DEF Rounded
  <2> QED
    BY <2>1, <1>2 DEF Or, Pushed
<1>3. CASE limitShown # 0
  BY <1>1, <1>3 DEF Or, Pushed, NoValue
<1> QED
  BY <1>2, <1>3

\* No other frame is a start.
LEMMA OtherKinds ==
  ASSUME NEW kind
  PROVE  Frame(kind).kind = kind /\ \A amps : FrameFor(kind, amps).kind = kind
BY DEF Frame, FrameFor

NoStart == \A frame \in out' : frame.kind # "start"

\* Frames without a start, whether they are sent or dropped.
LEMMA SentPlain ==
  ASSUME NEW frames, Send(frames), \A frame \in frames : frame.kind # "start"
  PROVE  NoStart
BY DEF Send, NoStart

LEMMA GreetingPlain == \A frame \in Greeting : frame.kind # "start"
BY OtherKinds DEF Greeting

LEMMA HeardPlain ==
  ASSUME \/ HearLogin(TRUE) \/ HearLogin(FALSE) \/ HearPlain \/ HearRecord
  PROVE  NoStart /\ UNCHANGED limitVars
<1> USE GreetingPlain, OtherKinds
<1>1. ASSUME NEW confirm \in BOOLEAN, HearLogin(confirm)
      PROVE  NoStart /\ UNCHANGED limitVars
  <2>1. UNCHANGED limitVars
    BY <1>1 DEF HearLogin
  <2>2. \/ Send(Greeting)
        \/ Send(Greeting \cup {Frame("loginAck")} \cup (IF confirm THEN {Frame("buttonQuery")} ELSE {}))
    BY <1>1, Zenon DEF HearLogin
  <2>3. \A frame \in Greeting \cup {Frame("loginAck")}
                        \cup (IF confirm THEN {Frame("buttonQuery")} ELSE {}) :
           frame.kind # "start"
    OBVIOUS
  <2> QED
    BY <2>1, <2>2, <2>3, SentPlain, Zenon
<1>2. CASE HearPlain
  <2>1. UNCHANGED limitVars
    BY <1>2 DEF HearPlain, HearChargeStatus, HearOther
  <2>2. Send(Greeting) \/ Send(Greeting \cup {Frame("ack")})
    BY <1>2, Zenon DEF HearPlain, HearChargeStatus, HearOther
  <2>3. \A frame \in Greeting \cup {Frame("ack")} : frame.kind # "start"
    OBVIOUS
  <2> QED
    BY <2>1, <2>2, <2>3, SentPlain, Zenon
<1>3. CASE HearRecord
  <2>1. UNCHANGED limitVars
    BY <1>3 DEF HearRecord
  <2>2. Send(Greeting) \/ Send(Greeting \cup {Frame("recordAck")})
    BY <1>3, Zenon DEF HearRecord
  <2>3. \A frame \in Greeting \cup {Frame("recordAck")} : frame.kind # "start"
    OBVIOUS
  <2> QED
    BY <2>1, <2>2, <2>3, SentPlain, Zenon
<1> QED
  BY <1>1, <1>2, <1>3

LEMMA CommandPlain ==
  ASSUME SetMaxCurrent \/ OtherCommand \/ Sweep
  PROVE  NoStart /\ UNCHANGED limitVars
<1> USE OtherKinds
<1>1. CASE SetMaxCurrent
  <2>1. PICK a \in Amperes : Send({FrameFor("current", a)})
    BY <1>1, Zenon DEF SetMaxCurrent
  <2>2. \A frame \in {FrameFor("current", a)} : frame.kind # "start"
    OBVIOUS
  <2> QED
    BY <1>1, <2>1, <2>2, SentPlain DEF SetMaxCurrent, Controlled
<1>2. CASE OtherCommand
  <2>1. PICK kind \in Commands \ {"start", "current"} : Send({Frame(kind)})
    BY <1>2, Zenon DEF OtherCommand
  <2>2. \A frame \in {Frame(kind)} : frame.kind # "start"
    OBVIOUS
  <2> QED
    BY <1>2, <2>1, <2>2, SentPlain DEF OtherCommand, Controlled
<1>3. CASE Sweep
  <2> DEFINE frames == {Frame("unitQuery"), Frame("planQuery")}
                         \cup (IF SyncClock THEN {Frame("clock")} ELSE {})
  <2>1. UNCHANGED limitVars /\ (Send(frames) \/ out' = {})
    BY <1>3, Zenon DEF Sweep
  <2>2. \A frame \in frames : frame.kind # "start"
    OBVIOUS
  <2>3. CASE out' = {}
    BY <2>1, <2>3 DEF NoStart
  <2>4. CASE Send(frames)
    BY <2>1, <2>2, <2>4, SentPlain
  <2> QED
    BY <2>1, <2>3, <2>4
<1> QED
  BY <1>1, <1>2, <1>3

\* A charge is started with the energy limit that the number entity shows, for
\* every value, before and after a restart.
THEOREM LimitCorrect == Spec => []StartHonoursLimit
<1>1. Init => LimitInv
  BY DEF Init, LimitInv, StartHonoursLimit
<1>2. LimitInv /\ [Next]_vars => LimitInv'
  <2> SUFFICES ASSUME LimitInv, [Next]_vars PROVE LimitInv'
    OBVIOUS
  <2>1. ASSUME NoStart, UNCHANGED limitVars
        PROVE  LimitInv'
    BY <2>1 DEF NoStart, limitVars, LimitInv, StartHonoursLimit
  <2>2. CASE \/ HearLogin(TRUE) \/ HearLogin(FALSE) \/ HearPlain \/ HearRecord
             \/ SetMaxCurrent \/ OtherCommand \/ Sweep
    BY <2>2, <2>1, HeardPlain, CommandPlain
  <2>3. CASE GoQuiet \/ LoseRoute \/ SetUnlocked \/ RestoreCurrent \/ Charger
    <3>1. out' = {} /\ UNCHANGED limitVars
      BY <2>3, ChargerKeeps DEF GoQuiet, LoseRoute, SetUnlocked, RestoreCurrent
    <3> QED
      BY <3>1, <2>1 DEF NoStart
  <2>4. CASE StartCharge
    <3>1. UNCHANGED limitVars
      BY <2>4 DEF StartCharge, Controlled
    <3>2. \A frame \in out' : frame.limit = Or(limit, Unlimited)
      BY <2>4 DEF StartCharge, Send
    <3> QED
      BY <3>1, <3>2, StartLimit DEF limitVars, LimitInv, StartHonoursLimit
  <2>5. CASE AddLimit \/ SetLimit
    <3>1. out' = {} /\ limit' = Pushed(limitShown') /\ limitShown' \in Nat
      BY <2>5, SessionAssumption DEF AddLimit, SetLimit, LimitInv
    <3> QED
      BY <3>1 DEF LimitInv, StartHonoursLimit
  <2>6. CASE Restart
    BY <2>6 DEF Restart, LimitInv, StartHonoursLimit
  <2>7. CASE UNCHANGED vars
    BY <2>7 DEF vars, limitVars, LimitInv, StartHonoursLimit
  <2> QED
    BY <2>2, <2>3, <2>4, <2>5, <2>6, <2>7, NextCases DEF Aside
<1>3. LimitInv => StartHonoursLimit
  BY DEF LimitInv
<1> QED
  BY <1>1, <1>2, <1>3, PTL DEF Spec
=============================================================================
