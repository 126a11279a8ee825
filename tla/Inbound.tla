------------------------------- MODULE Inbound -------------------------------
(***************************************************************************)
(* From the bytes of a Bluetooth link to what the coordinator hears:       *)
(* _handle_notify (ble.py) hands every frame that the reassembler returns  *)
(* to handle_ble_frame (coordinator.py), which parses it.                  *)
(***************************************************************************)
EXTENDS Reassembler, Codec

CONSTANTS
  Messages,    \* what the charger has to say: serial (bytes), command, payload
  Password,    \* what it fills the password field with: 0xFF
  Serials      \* ways to type a serial into a form

\* The charger (external) sends frames of the form that build_frame gives its own, but
\* for the password, which only frames to the charger carry.
FrameOf(m) == BuildFrame(m.serial, Password, m.command, m.payload)

ASSUME InboundAssumption ==
  /\ MinLen = FrameMinLen /\ Magic = FrameMagic /\ MaxLen < 65536
  /\ SerialLen \in Nat /\ PasswordLen \in Nat
  /\ \A m \in Messages :
       /\ m.serial \in Seq(0..255) /\ Len(m.serial) = SerialLen
       /\ m.command \in Nat /\ m.command < 65536
       /\ m.payload \in Seq(0..255) /\ FrameMinLen + Len(m.payload) <= MaxLen
  /\ Password \in Seq(0..255) /\ Len(Password) = PasswordLen
  /\ Frames = {FrameOf(m) : m \in Messages} /\ Rubbish \subseteq Seq(0..255)

ContentOf(m) == [serial |-> Hex(m.serial), command |-> m.command, payload |-> m.payload]

\* The frames that get past parse_frame.
Heard == {frame \in Range(frames) : Ours(frame)}

----------------------------------------------------------------------------
(* What must hold *)

\* The places in which bytes differ from a frame of the same length.
Changed(bytes, good) == {i \in DOMAIN good : bytes[i] # good[i]}

\* A frame of which one byte was changed on its way.
Damaged(piece) ==
  \E m \in Messages :
    Len(piece) = Len(FrameOf(m)) /\ \E i \in DOMAIN piece : Changed(piece, FrameOf(m)) = {i}

\* While frames arrive whole, each with at most one byte changed, and that behind its
\* length, the coordinator hears exactly those that are undamaged: the others are
\* refused, and cost none of their neighbours.  (Of other damage this is not true.
\* What the sum does not tell, such as two bytes exchanged, is heard; and a length
\* that is wrong takes frames behind it along.)
DamageContained ==
  ~feeding /\ air = <<>> /\ Intact /\ (\A piece \in Range(sent) : piece \in Frames \/ Damaged(piece))
    => Heard = Range(sent) \cap Frames

\* No frame is heard of which a single byte was changed on its way, wherever in the
\* frame: what is heard is no message's frame, that very frame, or differs from it in
\* two bytes at least.
DamageUnheard ==
  \A frame \in Heard, m \in Messages :
    Len(frame) = Len(FrameOf(m)) =>
      \A i \in DOMAIN frame : Changed(frame, FrameOf(m)) # {i}

\* The frames that Resynchronises promises, those behind MAX_FRAME_LEN bytes of frames
\* with one magic each since the damage, are heard: every one gets past parse_frame
\* with what the charger put into it.
SaidIsHeard ==
  ~feeding /\ air = <<>> =>
    \A i \in DOMAIN said :
      \E m \in Messages :
        said[i] = FrameOf(m) /\ said[i] \in Heard /\ Content(said[i]) = ContentOf(m)

\* However the serial of a charger was typed, in either case and with separators
\* (and no other white space inside), its frames are recognised by it: what is
\* stored for it, and coordinator and listener compare with, is what parse_frame
\* reads.
SerialsRecognised ==
  \A frame \in Heard, m \in Messages :
    Content(frame) = ContentOf(m) =>
      \A text \in Serials :
        SerialFits(text) /\ FromHex(Normalised(text)) = m.serial
          => Content(frame).serial = Normalised(text)
=============================================================================
