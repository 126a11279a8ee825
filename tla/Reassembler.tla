---------------------------- MODULE Reassembler ----------------------------
(***************************************************************************)
(* Frames out of Bluetooth notifications (protocol.py, FrameReassembler).  *)
(* `feed' runs without a pause from one notification to its return; each   *)
(* turn of its loop is an action here, and while it runs nothing else      *)
(* happens.  The charger (external) sends pieces: whole frames, or what    *)
(* else may be in the stream, the rest of a frame that lost notifications  *)
(* included.  Its link cuts them into notifications anywhere.              *)
(***************************************************************************)
EXTENDS Integers, Sequences, FiniteSetsExt

CONSTANTS
  Magic,       \* FRAME_MAGIC: two bytes that differ
  MinLen,      \* FRAME_MIN_LEN
  MaxLen,      \* MAX_FRAME_LEN
  Frames,      \* frames the charger may send
  Rubbish,     \* noise, false headers, frames that lost a part
  MaxPieces    \* bound of the pieces sent on one connection

ASSUME ReassemblerAssumption ==
  /\ Magic \in Seq(Nat) /\ Len(Magic) = 2 /\ Magic[1] # Magic[2]
  /\ MinLen \in Nat /\ MaxLen \in Nat /\ 4 <= MinLen /\ MinLen <= MaxLen
  /\ Frames \cup Rubbish \subseteq Seq(Nat)
  /\ MaxPieces \in Nat

\* A piece that begins as every frame does, with the magic and its own length, is as
\* long as it says, and is damaged behind these four bytes at most.
Whole(piece) ==
  /\ MinLen <= Len(piece) /\ Len(piece) <= MaxLen
  /\ SubSeq(piece, 1, 2) = Magic
  /\ 256 * piece[3] + piece[4] = Len(piece)

ASSUME FramesAssumption == \A frame \in Frames : Whole(frame)

VARIABLES
  buffer,    \* self._buffer
  feeding,   \* feed is in its loop
  frames,    \* the frames returned so far on this connection
  stream,    \* the bytes of all notifications on this connection
  air,       \* bytes sent but not yet notified
  sent,      \* the pieces sent on this connection
  since,     \* the bytes sent since the stream was last disturbed (Disturbs)
  said       \* the frames that began MaxLen bytes or more behind that

charger == <<sent, since, said>>

vars == <<buffer, feeding, frames, stream, air, charger>>

TypeOK ==
  /\ buffer \in Seq(Nat)
  /\ feeding \in BOOLEAN
  /\ frames \in Seq(Seq(Nat))
  /\ stream \in Seq(Nat)
  /\ air \in Seq(Nat)
  /\ sent \in Seq(Frames \cup Rubbish)
  /\ since \in Nat
  /\ said \in Seq(Frames)

Init ==
  /\ buffer = <<>> /\ feeding = FALSE /\ frames = <<>>
  /\ stream = <<>> /\ air = <<>> /\ sent = <<>>
  /\ since = MaxLen /\ said = <<>>

From(s, i) == SubSeq(s, i, Len(s))

\* Where the magic is in a sequence of bytes.
Magics(s) == {i \in 1..Len(s) - 1 : s[i] = Magic[1] /\ s[i + 1] = Magic[2]}

\* The length that the header at i declares.
Declared(s, i) == 256 * s[i + 2] + s[i + 3]

\* Wrong: a length of any size is waited for.
PlausibleHuge(length) == MinLen <= length

\* Whether that can be one.
Plausible(length) == MinLen <= length /\ length <= MaxLen

----------------------------------------------------------------------------
(* feed *)

\* `self._buffer += data', of a notification of any size.
Notify ==
  /\ ~feeding
  /\ \E n \in 1..Len(air) :
       /\ buffer' = buffer \o SubSeq(air, 1, n)
       /\ stream' = stream \o SubSeq(air, 1, n)
       /\ air' = From(air, n + 1)
  /\ feeding' = TRUE
  /\ UNCHANGED <<frames, charger>>

\* Wrong: the first half of a magic that the link cut in two is thrown away.
NoMagicDropped ==
  /\ feeding
  /\ Magics(buffer) = {}
  /\ buffer' = <<>>
  /\ feeding' = FALSE
  /\ UNCHANGED <<frames, stream, air, charger>>

\* Nothing is kept but a byte that may be the first half of the magic.
NoMagic ==
  /\ feeding
  /\ Magics(buffer) = {}
  /\ buffer' = IF buffer # <<>> /\ buffer[Len(buffer)] = Magic[1]
               THEN <<Magic[1]>> ELSE <<>>
  /\ feeding' = FALSE
  /\ UNCHANGED <<frames, stream, air, charger>>

\* The buffer from its first magic on.
Aligned == From(buffer, Min(Magics(buffer)))

AtMagic == feeding /\ Magics(buffer) # {}

\* The header has not arrived yet.
AwaitHeader ==
  /\ AtMagic
  /\ Len(Aligned) < 4
  /\ buffer' = Aligned
  /\ feeding' = FALSE
  /\ UNCHANGED <<frames, stream, air, charger>>

AtHeader == AtMagic /\ Len(Aligned) >= 4

\* Wrong: the whole false header is skipped, and a magic within it.
SkipHeader ==
  /\ AtHeader
  /\ ~Plausible(Declared(Aligned, 1))
  /\ buffer' = From(Aligned, 5)
  /\ UNCHANGED <<feeding, frames, stream, air, charger>>

\* Wrong: the false header is looked at again.
SkipNothing ==
  /\ AtHeader
  /\ ~Plausible(Declared(Aligned, 1))
  /\ buffer' = Aligned
  /\ UNCHANGED <<feeding, frames, stream, air, charger>>

\* Not a header after all.
SkipMagic ==
  /\ AtHeader
  /\ ~Plausible(Declared(Aligned, 1))
  /\ buffer' = From(Aligned, 3)
  /\ UNCHANGED <<feeding, frames, stream, air, charger>>

\* The rest of the frame has not arrived yet.
AwaitFrame ==
  /\ AtHeader
  /\ Plausible(Declared(Aligned, 1))
  /\ Len(Aligned) < Declared(Aligned, 1)
  /\ buffer' = Aligned
  /\ feeding' = FALSE
  /\ UNCHANGED <<frames, stream, air, charger>>

TakeFrame ==
  /\ AtHeader
  /\ Plausible(Declared(Aligned, 1))
  /\ Len(Aligned) >= Declared(Aligned, 1)
  /\ frames' = Append(frames, SubSeq(Aligned, 1, Declared(Aligned, 1)))
  /\ buffer' = From(Aligned, Declared(Aligned, 1) + 1)
  /\ UNCHANGED <<feeding, stream, air, charger>>

Turn == NoMagic \/ AwaitHeader \/ SkipMagic \/ AwaitFrame \/ TakeFrame

\* `reset': the link is gone, or a new one begins.
Reset ==
  /\ ~feeding
  /\ buffer' = <<>> /\ frames' = <<>> /\ stream' = <<>>
  /\ air' = <<>> /\ sent' = <<>>
  /\ since' = MaxLen /\ said' = <<>>
  /\ UNCHANGED feeding

----------------------------------------------------------------------------
(* The charger (external) *)

\* What keeps the reassembler from finding its place in the stream.  What is no frame
\* does; and so may an undamaged frame with a second magic inside, until MaxLen bytes
\* without any such thing have been sent: a reassembler that has lost its place takes
\* the inner magic for a beginning, its frame from there ends in the middle of the
\* next one, and its place is lost again.  If nothing else comes, this has no end.
Disturbs(piece) == piece \notin Frames \/ (since < MaxLen /\ Magics(piece) # {1})

Say ==
  /\ ~feeding
  /\ air = <<>>
  /\ Len(sent) < MaxPieces
  /\ \E piece \in Frames \cup Rubbish :
       /\ air' = piece
       /\ sent' = Append(sent, piece)
       /\ since' = IF Disturbs(piece) THEN 0 ELSE since + Len(piece)
       /\ said' = IF Disturbs(piece) THEN <<>>
                  ELSE IF since < MaxLen THEN said ELSE Append(said, piece)
  /\ UNCHANGED <<buffer, feeding, frames, stream>>

----------------------------------------------------------------------------

Next == Notify \/ Turn \/ Reset \/ Say

\* `feed' runs to its end.
Spec == Init /\ [][Next]_vars /\ WF_vars(Turn)

----------------------------------------------------------------------------
(* What must hold *)

\* The headers in a sequence of bytes.
Headers(s) == {i \in Magics(s) : i + 3 <= Len(s) /\ Plausible(Declared(s, i))}

\* The frames of a whole stream of bytes, read at once: the first begins at the
\* first header, and the others are those of the bytes behind it.
Read[s \in Seq(Nat)] ==
  LET first == Min(Headers(s))
      end   == first + Declared(s, first) - 1
  IN  IF Headers(s) = {} THEN <<>>
      ELSE IF end > Len(s) THEN <<>>
      ELSE <<SubSeq(s, first, end)>> \o Read[From(s, end + 1)]

\* What the callbacks return depends on the bytes, never on how the link cut
\* them into notifications ("a frame spans several callbacks and one
\* notification can hold the tail of one frame and the head of the next").
ChunkingIrrelevant == ~feeding => frames = Read[stream]

Intact == \A i \in DOMAIN sent : Whole(sent[i])

\* While every piece is whole, damaged at most behind the length that it declares,
\* every one is returned as soon as its last byte is in, also one that contains a
\* magic or ends in half of one: such damage costs no other frame.
IntactDelivered == Intact /\ air = <<>> /\ ~feeding => frames = sent

\* After damage the stream is found again, once MAX_FRAME_LEN bytes of frames have
\* followed that have no second magic inside (Disturbs): the frames behind these,
\* whatever is in them, are returned, every one and in order.  Nothing is promised
\* before: undamaged frames with an inner magic can keep a reassembler that has lost
\* its place from finding it, for as long as they are all that comes.
Resynchronises ==
  ~feeding /\ air = <<>> =>
    \E lost \in 0..Len(frames) : From(frames, lost + 1) = said

\* No stream, however corrupt, makes the reassembler keep MAX_FRAME_LEN bytes or
\* more from one notification to the next.
BufferBounded == ~feeding => Len(buffer) < MaxLen

\* The loop of `feed' ends, whatever is in the buffer.
FeedReturns == feeding ~> ~feeding
=============================================================================
