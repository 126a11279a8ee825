-------------------------------- MODULE Codec --------------------------------
(***************************************************************************)
(* Frames as bytes (protocol.py): spelling a serial, assembling a frame    *)
(* with its checksum, and deciding which bytes are one.  A text is a       *)
(* sequence of one-character strings.                                      *)
(***************************************************************************)
EXTENDS Integers, Sequences, SequencesExt, FiniteSetsExt

CONSTANTS
  SerialLen,    \* SERIAL_LEN, in bytes
  PasswordLen   \* PASSWORD_LEN

FrameMagic == <<6, 1>>
FrameTail == <<15, 2>>

HeaderLen == 7 + SerialLen + PasswordLen   \* FRAME_HEADER_LEN
TrailerLen == 4                            \* FRAME_TRAILER_LEN
FrameMinLen == HeaderLen + TrailerLen      \* FRAME_MIN_LEN

----------------------------------------------------------------------------
(* Serials *)

HexDigits == <<"0", "1", "2", "3", "4", "5", "6", "7", "8", "9", "a", "b", "c", "d", "e", "f">>
Capitals == <<"0", "1", "2", "3", "4", "5", "6", "7", "8", "9", "A", "B", "C", "D", "E", "F">>

White == {" ", "\t", "\n"}

\* Wrong: the case of the digits is kept.
LowerNot(c) == c

\* `str.lower', of the letters that can be digits.
Lower(c) ==
  CASE c = "A" -> "a" [] c = "B" -> "b" [] c = "C" -> "c"
    [] c = "D" -> "d" [] c = "E" -> "e" [] c = "F" -> "f" [] OTHER -> c

\* `str.strip'
Strip(text) ==
  LET ink == {i \in 1..Len(text) : text[i] \notin White}
  IN  IF ink = {} THEN <<>> ELSE SubSeq(text, Min(ink), Max(ink))

\* normalise_serial, when it does not raise.
Normalised(text) ==
  LET bare == SelectSeq(Strip(text), LAMBDA c : c \notin {" ", "-"})
  IN  [i \in 1..Len(bare) |-> Lower(bare[i])]

\* When it does not: bytes.fromhex reads digits of either case.  (And skips white
\* space between two bytes, which is left out.)
SerialFits(text) ==
  Normalised(text) \in [1..2 * SerialLen -> Range(HexDigits) \cup Range(Capitals)]

Nibble(c) == CHOOSE n \in 0..15 : c \in {HexDigits[n + 1], Capitals[n + 1]}

\* bytes.fromhex
FromHex(hex) == [i \in 1..Len(hex) \div 2 |-> 16 * Nibble(hex[2 * i - 1]) + Nibble(hex[2 * i])]

\* bytes.hex
Hex(bytes) ==
  [i \in 1..2 * Len(bytes) |->
     LET byte == bytes[(i + 1) \div 2]
     IN  HexDigits[1 + (IF i % 2 = 1 THEN byte \div 16 ELSE byte % 16)]]

----------------------------------------------------------------------------
(* Frames *)

Word(n) == <<(n \div 256) % 256, n % 256>>
Value(bytes) == 256 * bytes[1] + bytes[2]

Total[bytes \in Seq(Nat)] ==
  IF bytes = <<>> THEN 0 ELSE Head(bytes) + Total[Tail(bytes)]

\* Wrong: the last byte is not counted.
ChecksumShort(bytes) == Total[Front(bytes)] % 65536

\* checksum
Checksum(bytes) == Total[bytes] % 65536

\* build_frame, of the bytes of a serial and of what goes into the password field: a
\* password in the frames to the charger, 0xFF in those from it.
BuildFrame(serial, password, command, payload) ==
  LET body == FrameMagic \o Word(FrameMinLen + Len(payload)) \o <<0>> \o serial \o password
                    \o Word(command) \o payload
  IN  body \o Word(Checksum(body)) \o FrameTail

\* The checks of parse_frame before that of the checksum.
Framed(data) ==
  /\ Len(data) >= FrameMinLen
  /\ SubSeq(data, 1, 2) = FrameMagic
  /\ SubSeq(data, Len(data) - 1, Len(data)) = FrameTail
  /\ Value(SubSeq(data, 3, 4)) = Len(data)

\* Wrong: the checksum is not compared.
OursUnchecked(data) == Framed(data)

\* What parse_frame accepts.
Ours(data) ==
  /\ Framed(data)
  /\ Value(SubSeq(data, Len(data) - 3, Len(data) - 2)) = Checksum(SubSeq(data, 1, Len(data) - TrailerLen))

\* Wrong: the command is read one byte too early.
ContentShifted(data) ==
  [serial  |-> Hex(SubSeq(data, 6, 5 + SerialLen)),
   command |-> Value(SubSeq(data, HeaderLen - 2, HeaderLen - 1)),
   payload |-> SubSeq(data, HeaderLen + 1, Len(data) - TrailerLen)]

\* What it returns.
Content(data) ==
  [serial  |-> Hex(SubSeq(data, 6, 5 + SerialLen)),
   command |-> Value(SubSeq(data, HeaderLen - 1, HeaderLen)),
   payload |-> SubSeq(data, HeaderLen + 1, Len(data) - TrailerLen)]
=============================================================================
